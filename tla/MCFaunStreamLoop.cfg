CONSTANTS
  Buffers = {0, 1, 2, 3}
  NoBuffer = NoBuffer
  QueueSize = 4
  QNone = QNone
  Wrap = 64
  EndNone = 13
  MixLen = 2
  MaxGain = 1
  DefaultPeriod = 1
  StreamLimit = 1
  BufLen = 4
  FileSizes <- Sizes
  Parts <- ShortPieces
  StreamModes <- Playing
  StreamEnds <- Ends
  Volumes = {1}
  Periods = {1}
  FadeStreams = {}
  HaltStreams = {0}
  MaxErrors = 0
  MaxCommands = 3
SPECIFICATION FairSpec
PROPERTY
  LoopIsHeard
