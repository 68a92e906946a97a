CONSTANTS
  Thread = {"t", "u"}
  Works <- MCWorks
  Fixtures <- MCFixtures
  Rounds = 2
  ID <- MCID
  Worker = {"v", "w"}
  Scorers <- MCScorers
  Thresholds <- MCThresholds
  Unset = Unset
  Reply <- MCReply
  PassThreshold = 70
SPECIFICATION MCSpec
INVARIANTS ReplaysWhatWasHeard
CHECK_DEADLOCK FALSE
