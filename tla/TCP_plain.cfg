CONSTANTS
  Roles = {"accepted", "connected"}
  TLS = {FALSE}
  ChunkLen = 2
  SendBuf = 2
  Buffered = {FALSE}
  TlsLimit = 3
  TlsChunks = 2
  Marks = {0}
  HighWater = 3
  MaxWrites = 2
  MaxIn = 2
  MaxLost = 2
  MaxEofs = 2
SPECIFICATION Spec
CHECK_DEADLOCK FALSE
INVARIANTS TypeOK WireFaithful FlowControl OutputPolled InputAnnounced Dropped FinLast DataBeforeEof
PROPERTY CloseEnds
