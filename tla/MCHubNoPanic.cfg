CONSTANTS
  t1 = t1
  p1 = p1
  p2 = p2
  s1 = s1
  s2 = s2
  c1 = c1
  c2 = c2
  Topics <- OneTopic
  Publishers <- OnePublisher
  Subscribers <- OneSubscriber
  Closers <- OneCloser
  Buffer = 2
  ReplaySizes = {2}
  CustomIDs = {}
  MaxPublish = 1
  Free = Free
  NoTopic = NoTopic
SPECIFICATION Spec
INVARIANT NoPanic
