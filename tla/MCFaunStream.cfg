CONSTANTS
  Buffers = {0, 1, 2, 3}
  NoBuffer = NoBuffer
  QueueSize = 4
  QNone = QNone
  Wrap = 64
  EndNone = 13
  MixLen = 2
  MaxGain = 1
  DefaultPeriod = 1
  StreamLimit = 2
  BufLen = 4
  FileSizes <- Sizes
  Parts <- Pieces
  StreamModes <- Playing
  StreamEnds <- Ends
  Volumes = {1}
  Periods = {1}
  FadeStreams = {0}
  HaltStreams = {0}
  MaxErrors = 1
  MaxCommands = 3
SPECIFICATION FairSpec
INVARIANTS
  StreamOK
  
  DecodingKeepsUp
PROPERTIES
  
  FillEnds
  WaiterAnswered
