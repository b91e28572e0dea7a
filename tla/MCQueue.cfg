CONSTANTS
  Topics = {t1, t2}
  Callers = {g1, g2}
  NoTopic = NoTopic
  MaxEvents = 3
SPECIFICATION FairSpec
INVARIANTS
  TypeOK
  EveryEventOnce
  FirstInFirstOut
PROPERTY CallsReturn
