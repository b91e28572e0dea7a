CONSTANTS
  t1 = t1
  p1 = p1
  p2 = p2
  s1 = s1
  s2 = s2
  c1 = c1
  c2 = c2
  Topics <- OneTopic
  Publishers <- TwoPublishers
  Subscribers <- TwoSubscribers
  Closers <- OneCloser
  Buffer = 1
  ReplaySizes = {2}
  CustomIDs = {}
  MaxPublish = 3
  Free = Free
  NoTopic = NoTopic
SYMMETRY Symmetry
SPECIFICATION Spec
INVARIANTS
  TypeOK
  PublishCancelCloseNeverPanic
  DeliveredOrCounted
  StreamsInOrder
  ReplayMeetsLive
PROPERTIES
  ClosedIsFinal
  ImplementsFanOut
