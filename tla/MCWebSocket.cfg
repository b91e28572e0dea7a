CONSTANTS
  Buffer = 1
  SockBuf = 1
  PingPeriod = 3
  PongWait = 6
  WriteWait = 1
  Patience = 2
  MaxPublish = 3
SPECIFICATION FairSpec
INVARIANTS
  TypeOK
  AliveStaysConnected
PROPERTIES
  PeerGoneReleased
  HubCloseEndsStream
  CtxDonePrompt
