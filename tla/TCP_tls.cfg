CONSTANTS
  Roles = {"accepted", "connected"}
  TLS = {TRUE}
  ChunkLen = 1
  SendBuf = 1
  Buffered = {FALSE, TRUE}
  TlsLimit = 2
  TlsChunks = 1
  Marks = {}
  HighWater = 4
  MaxWrites = 2
  MaxIn = 1
  MaxLost = 1
  MaxEofs = 1
SPECIFICATION Spec
CHECK_DEADLOCK FALSE
INVARIANTS OutputPolled InputAnnounced
PROPERTY HandshakeEnds
