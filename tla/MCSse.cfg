CONSTANTS
  MaxConns = 2
  Buffer = 1
  Size = 2
  SockBuf = 1
  Heartbeat = TRUE
  WriteTimeout = TRUE
  Poison = {2}
  MaxPublish = 3
  MaxRestarts = 1
SPECIFICATION FairSpec
INVARIANTS
  TypeOK
  NoLeakedSubscription
PROPERTIES
  ResumeWithoutGap
  GapIsReported
  HandlersEnd
