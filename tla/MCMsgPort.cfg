CONSTANTS
  p1 = p1  p2 = p2  c1 = c1  m1 = m1  m2 = m2
  Producers = {p1, p2}
  Consumers = {c1}
  Msgs = {m1, m2}
  NoMsg = NoMsg
  NoThread = NoThread
  Avail = 3
  PollMax = 2
SPECIFICATION FairSpec
INVARIANTS
  TypeOK
  PortAssertions
  SemaphoreBalance
PROPERTIES
  ImplementsChannel
  PushReturns
  PopReturns
