CONSTANTS
  b1 = b1  b2 = b2
  Buffers = {b1, b2}
  NoBuffer = NoBuffer
  QueueSize = 4
  QNone = QNone
  Wrap = 64
  EndNone = 12
  MixLen = 3
  MaxGain = 2
  DefaultPeriod = 1
  SourceLimit = 1
  Lengths <- VaryingLengths
  PlayModes <- Once
  PlayChoices <- Single
  Volumes = {}
  Periods = {}
  EndTimes = {}
  ProgramSources = {}
  QueueBuffers = {}
  FadeSources = {}
SPECIFICATION Spec
PROPERTY
  ReloadAborts
