CONSTANTS
  Modes <- PlainMode
  GRPC <- WithGRPC
  MaxLoad = 1
SPECIFICATION Spec
INVARIANT SharedLifecycle
