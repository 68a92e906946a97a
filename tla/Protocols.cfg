CONSTANTS
  init = init
  note = note
  a = a
  NoOne = NoOne
  Req = {init, note, a}
  Kind <- MCKind
  Id = {1, 2, 3}
  MaxDispatch = 1
  Buffer = 1
  Impatient = {a}
  MaxDisturbances = 2
  p = p
  q = q
  pAsk = pAsk
  qAsk = qAsk
  Peer = {p, q}
  Ask = {pAsk, qAsk}
  By <- MCBy
  Nth <- MCNth
  NoStream = NoStream
  Incoming = 1
  Inbox = 1
  Hasty = {qAsk}
  MaxSseEvents = 1
  NoId = NoId
  Nobody = Nobody
  Sender = {s1, s2, s3}
  Reader = {g}
  TaskId = {x, y}
  MaxTasks = 1
SPECIFICATION MCSpec
INVARIANTS RepliesAreAccountedFor HandlersOwnWhatTheyUse WorkIsReachable
PROPERTIES CallsReturn HistoryIsKept EverySendIsAnswered
CHECK_DEADLOCK FALSE
