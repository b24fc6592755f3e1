CONSTANTS
  Files <- TailFiles
  MaxBlockSize = 24
  MaxChannels = 2
  BufSizes <- OneSize
  OutLen = 24
  Unset = Unset
SPECIFICATION Spec
INVARIANT
  LoadIsWhole
