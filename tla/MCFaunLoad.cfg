CONSTANTS
  Files <- LoadFiles
  MaxBlockSize = 24
  MaxChannels = 2
  BufSizes <- Sizes
  OutLen = 24
  Unset = Unset
SPECIFICATION FairSpec
INVARIANTS
  LoadOK
  LoadIsWhole
PROPERTY
  LoadEnds
