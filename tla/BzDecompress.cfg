CONSTANTS
  ByteMax = 1
  MaxRun = 5
  BlockSize = 21
  BufLen = 2
  MaxHeld = 1
  Chunks <- MCChunks
  MaxInput = 7
  MaxFlush = 1
  ReadLens <- MCReadLens
  RunLimit = 8
  Faults <- MCFaults
SPECIFICATION Spec
INVARIANTS BlockFits NoCallRefused ClosedHasTrailer WalkInsideBlock StopsAtTrailer
PROPERTIES ImplementsByteStream ReadReturns
CHECK_DEADLOCK FALSE
