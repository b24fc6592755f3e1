CONSTANTS
  main = main  helper = helper  b1 = b1  m1 = m1  m2 = m2
  Apps = {main}
  Main = main
  Sources = {1}
  NoSource = 0
  Buffers = {b1}
  Blocks = {m1, m2}
  NoBlock = NoBlock
  CmdAvail = 2
  SigAvail = 2
  SigLimit = 2
  PollMax = 2
CHECK_DEADLOCK FALSE
SPECIFICATION Spec
INVARIANT
  SignalNamesEvent
