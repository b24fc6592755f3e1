CONSTANTS
  b1 = b1  b2 = b2
  Buffers = {b1, b2}
  NoBuffer = NoBuffer
  QueueSize = 4
  QNone = QNone
  Wrap = 64
  EndNone = 12
  MixLen = 3
  MaxGain = 2
  DefaultPeriod = 1
  SourceLimit = 1
  Lengths <- FixedLengths
  PlayModes <- Plain
  PlayChoices <- Trios
  Volumes = {}
  Periods = {}
  EndTimes = {5, 12}
  ProgramSources = {0}
  QueueBuffers = {b1, b2}
  FadeSources = {}
SPECIFICATION FairSpec
INVARIANTS
  QueueOK
  ActiveLoaded
  PlayPosInside
  FramesInOrder
  
PROPERTIES
  EndsPlayedOut
  PlaysToEnd
