CONSTANTS
  t0 = t0  t1 = t1
  Units = {0}
  Owner <- OneThread
  Programs <- OnSources
  ProgramMax = 10
  PayloadMax = 4
  PortAvail = 2
  SourceLimit = 1
  Tenth = 4
  MixLen = 3
  Wrap = 16
  Replaces = TRUE
SPECIFICATION Spec
INVARIANT
  BeginsAtBeginning
