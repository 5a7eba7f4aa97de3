SPECIFICATION FairSpec
CONSTANTS
  p1 = p1
  p2 = p2
  s1 = s1
  s2 = s2
  m1 = m1
  r1 = r1
  t1 = t1
  t2 = t2
  a1 = a1
  a2 = a2
  a3 = a3
  NoName = NoName
  NULL = NULL
  NoMessage = NoMessage
  Zeroed = Zeroed
  Torn = Torn
  Publishers = {p1, p2}
  Subscribers = {s1}
  Managers = {}
  Releasers = {}
  Topics = {t1, t2}
  Topic <- TwoTopics
  NumBlock = 2
  Sizes = {32}
  LengthsInMessage = FALSE
  Addresses = {a1, a2, a3}
  SegmentMayFill = FALSE
  SpuriousWakeups = FALSE
  MayDie = {}
INVARIANT DeliveredIntact
PROPERTY SignalDelivers
