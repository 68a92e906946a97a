CONSTANTS
  a = a
  b = b
  ok = ok
  p1 = p1
  p2 = p2
  r1 = r1
  r2 = r2
  START = START
  END = END
  Empty = Empty
  Name <- MCName
  Label <- MCLabel
  BranchMap <- MCBranchMap
  Proc <- MCProc
  RunID <- MCRunID
  Cell <- MCCell
  Hook <- MCHook
  Limit = 2
  MaxWrites = 1
  MaxSaves = 4
SPECIFICATION MCSpec
INVARIANTS CheckpointsAreSnapshots
CHECK_DEADLOCK FALSE
