CONSTANTS
  b1 = b1  b2 = b2
  Buffers = {b1, b2}
  NoBuffer = NoBuffer
  QueueSize = 4
  QNone = QNone
  Wrap = 64
  EndNone = 9
  MixLen = 2
  MaxGain = 2
  DefaultPeriod = 1
  SourceLimit = 2
  Lengths <- PairLengths
  PlayModes <- OnceOrFading
  PlayChoices <- List
  Volumes = {1}
  Periods = {2}
  EndTimes = {}
  ProgramSources = {0}
  QueueBuffers = {}
  FadeSources = {0}
SPECIFICATION Spec
INVARIANTS
  FramesInOrder
  GainBounded
PROPERTIES
  FadeOutFalls
  EndsSilent
