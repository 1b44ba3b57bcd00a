CONSTANTS
  LoopThread = loop
  IoThread = io
  GIL = TRUE
  ChunkLen = 2
  SendBuf = 1
  MaxWrites = 2
  MaxIn = 1
SPECIFICATION Spec
CHECK_DEADLOCK FALSE
INVARIANTS WireFaithful
