CONSTANTS
  main = main  helper = helper  b1 = b1  m1 = m1  m2 = m2
  Apps = {main, helper}
  Main = main
  Sources = {1}
  NoSource = 0
  Buffers = {b1}
  Blocks = {m1, m2}
  NoBlock = NoBlock
  CmdAvail = 2
  SigAvail = 1
  SigLimit = 1
  PollMax = 1
CHECK_DEADLOCK FALSE
SPECIFICATION FairSpec
INVARIANTS
  TypeOK
  
  NothingAbandoned
  
  WritesOnlyWhenStarted
  

  
  
