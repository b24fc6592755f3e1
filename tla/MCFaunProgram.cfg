CONSTANTS
  t0 = t0  t1 = t1
  Units = {0, 1}
  Owner <- OwnThreads
  Programs <- OnSources
  ProgramMax = 10
  PayloadMax = 4
  PortAvail = 2
  SourceLimit = 1
  Tenth = 3
  MixLen = 2
  Wrap = 7
  Replaces = FALSE
SPECIFICATION FairSpec
INVARIANTS
  TypeOK
  RunsWholeProgram
  
  BeginsAtBeginning
  WaitHolds
PROPERTY
  ProgramEnds
