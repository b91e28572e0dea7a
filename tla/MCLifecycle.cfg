CONSTANTS
  Modes <- AllModes
  GRPC <- EitherWay
  MaxLoad = 2
SPECIFICATION FairSpec
INVARIANTS
  TypeOK
  
  GRPCNeverOutlivesRun
PROPERTIES
  RPCsCutLast
  CancelReturns
  NothingStaysBehind
