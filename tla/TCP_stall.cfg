CONSTANTS
  Roles = {"accepted"}
  TLS = {FALSE}
  ChunkLen = 2
  SendBuf = 1
  Buffered = {FALSE}
  TlsLimit = 3
  TlsChunks = 2
  Marks = {0}
  HighWater = 3
  MaxWrites = 1
  MaxIn = 1
  MaxLost = 1
  MaxEofs = 2
SPECIFICATION Spec
CHECK_DEADLOCK FALSE
PROPERTY WritesProceed
