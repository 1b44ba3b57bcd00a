----------------------- MODULE TokioTCPTransportProofs -----------------------
(***************************************************************************)
(* Proofs about TokioTCPTransport, for every value of its constants.       *)
(***************************************************************************)
EXTENDS TokioTCPTransport, SequenceTheorems, TLAPS

\* The bytes of a chunk are numbers between those of its neighbours.
LEMMA ChunkBytes ==
  ASSUME NEW k \in Nat \ {0}
  PROVE  /\ Chunk(k) \in Seq(Nat \ {0}) /\ Len(Chunk(k)) = ChunkLen
         /\ \A i \in 1..ChunkLen : Chunk(k)[i] = (k - 1) * ChunkLen + i
         /\ (k - 1) * ChunkLen \in Nat /\ k * ChunkLen = (k - 1) * ChunkLen + ChunkLen
<1>1. ChunkLen \in Nat /\ k - 1 \in Nat
  BY TransportConstants
<1>2. (k - 1) * ChunkLen \in Nat
  BY <1>1
<1>3. k * ChunkLen = (k - 1) * ChunkLen + ChunkLen
  BY <1>1
<1>4. Chunk(k) \in [1..ChunkLen -> Nat \ {0}]
  BY <1>1, <1>2 DEF Chunk
<1>5. Chunk(k) \in Seq(Nat \ {0}) /\ Len(Chunk(k)) = ChunkLen
  BY <1>1, <1>4
<1>6. \A i \in 1..ChunkLen : Chunk(k)[i] = (k - 1) * ChunkLen + i
  BY DEF Chunk
<1>7. QED
  BY <1>2, <1>3, <1>5, <1>6

\* Later chunks have larger numbers.
LEMMA ChunksGrow ==
  ASSUME NEW k \in Nat, NEW m \in Nat, k <= m
  PROVE  k * ChunkLen \in Nat /\ m * ChunkLen \in Nat /\ k * ChunkLen <= m * ChunkLen
<1>1. ChunkLen \in Nat /\ m - k \in Nat
  BY TransportConstants
<1>2. (m - k) * ChunkLen \in Nat /\ k * ChunkLen \in Nat
  BY <1>1
<1>3. m * ChunkLen = k * ChunkLen + (m - k) * ChunkLen
  BY <1>1
<1>4. QED
  BY <1>2, <1>3
-----------------------------------------------------------------------------
(***************************************************************************)
(* Types.  TypeOK is not inductive: that data_received is called at most   *)
(* MaxIn times needs the count of the chunks on their way, that eof_received *)
(* is called once needs read_eof, and that a partial write leaves a proper *)
(* rest needs that the kernel never holds more than its buffer.            *)
(***************************************************************************)
ByteNumbers == 1..(MaxWrites * ChunkLen)
ControlType ==
  /\ pc \in {"none", "top", "select", "data", "eof", "after", "exit", "lost"}
  /\ made \in {"no", "calling", "yes"} /\ call \in [Callers -> Methods]
FlagType ==
  /\ aclosing \in BOOLEAN /\ apaused \in BOOLEAN /\ aweof \in BOOLEAN
  /\ closing \in BOOLEAN /\ paused \in BOOLEAN /\ weof \in BOOLEAN
InputType ==
  /\ inq \in Nat /\ sentin \in 0..MaxIn /\ received \in Nat /\ received + inq = sentin
  /\ peer_eof \in BOOLEAN /\ reset \in BOOLEAN /\ read_eof \in BOOLEAN
  /\ eofs = IF read_eof THEN 1 ELSE 0
OutputType ==
  /\ write_buf \in Seq(1..MaxWrites) /\ chunks \in Nat /\ WritesBegun <= MaxWrites
  /\ writing \in Seq(ByteNumbers) /\ wire \in Seq(ByteNumbers)
  /\ drained \in 0..Len(wire) /\ Len(wire) - drained <= SendBuf
FutureType ==
  /\ write_shutdown_done \in BOOLEAN /\ write_on \in BOOLEAN /\ shutting \in BOOLEAN /\ fin \in BOOLEAN
  /\ wstate \in {"idle", "pending"}
TypeInv == ControlType /\ FlagType /\ InputType /\ OutputType /\ FutureType

\* A step that leaves the variables of a part of the state alone keeps its type.
LEMMA TypeFrame ==
  ASSUME TypeInv
  PROVE  /\ UNCHANGED <<pc, made, call>> => ControlType'
         /\ UNCHANGED <<flags, closing, paused, weof>> => FlagType'
         /\ UNCHANGED <<peer, read_eof, received, eofs>> => InputType'
         /\ UNCHANGED <<write_buf, chunks, call, writing, wire, drained>> => OutputType'
         /\ UNCHANGED <<write_shutdown_done, write_on, shutting, fin, wstate>> => FutureType'
<1>1. UNCHANGED <<pc, made, call>> => ControlType'
  BY DEF TypeInv, ControlType
<1>2. UNCHANGED <<flags, closing, paused, weof>> => FlagType'
  BY DEF TypeInv, FlagType, flags
<1>3. UNCHANGED <<peer, read_eof, received, eofs>> => InputType'
  BY DEF TypeInv, InputType, peer
<1>4. UNCHANGED <<write_buf, chunks, call, writing, wire, drained>> => OutputType'
  BY DEF TypeInv, OutputType, WritesBegun, InWrite
<1>5. UNCHANGED <<write_shutdown_done, write_on, shutting, fin, wstate>> => FutureType'
  BY DEF TypeInv, FutureType
<1>6. QED
  BY <1>1, <1>2, <1>3, <1>4, <1>5

\* What write_all does, whatever it has left to write: it keeps the types and
\* the order of the bytes.
LEMMA WriteOnTypes ==
  ASSUME TypeInv, NEW bytes \in Seq(ByteNumbers), NEW shut \in BOOLEAN,
         pc = "select", WriteOn(bytes, shut)
  PROVE  /\ pc' \in {"select", "after"} /\ wstate' \in {"idle", "pending"}
         /\ wire' \in Seq(ByteNumbers) /\ writing' \in Seq(ByteNumbers)
         /\ drained' \in 0..Len(wire') /\ Len(wire') - drained' <= SendBuf
         /\ shutting' \in BOOLEAN /\ fin' \in BOOLEAN /\ write_shutdown_done' \in BOOLEAN
<1> DEFINE room == SendBuf - (Len(wire) - drained)
           n == IF Len(bytes) <= room THEN Len(bytes) ELSE room
           ends == reset \/ n = Len(bytes)
           sent == SubSeq(bytes, 1, n)
           rest == SubSeq(bytes, n + 1, Len(bytes))
<1>1. /\ wire \in Seq(ByteNumbers) /\ Len(wire) \in Nat /\ drained \in 0..Len(wire)
      /\ Len(wire) - drained <= SendBuf /\ SendBuf \in Nat /\ reset \in BOOLEAN
      /\ write_shutdown_done \in BOOLEAN /\ fin \in BOOLEAN
  BY TransportConstants DEF TypeInv, OutputType, InputType, FutureType
<1>2. Len(bytes) \in Nat /\ n \in 0..Len(bytes) /\ n <= room
  BY <1>1
<1>3. sent \in Seq(ByteNumbers) /\ Len(sent) = n /\ rest \in Seq(ByteNumbers)
  <2>1. \A i \in 1..Len(bytes) : bytes[i] \in ByteNumbers
    OBVIOUS
  <2>2. sent \in Seq(ByteNumbers) /\ Len(sent) = IF 1 <= n THEN n - 1 + 1 ELSE 0
    BY <1>2, <2>1, SubSeqProperties
  <2>3. rest \in Seq(ByteNumbers)
    BY <1>2, <2>1, SubSeqProperties
  <2>4. QED
    BY <1>2, <2>2, <2>3
<1>4. wire' = IF reset THEN wire ELSE wire \o sent
  BY DEF WriteOn
<1>5. wire' \in Seq(ByteNumbers) /\ (Len(wire') = Len(wire) \/ Len(wire') = Len(wire) + n)
  BY <1>1, <1>3, <1>4, ConcatProperties
<1>6. \/ ends /\ pc' = "after" /\ DropWrite
      \/ /\ ~ends /\ pc' = pc /\ wstate' = "pending"
         /\ writing' = rest /\ shutting' = shut
  BY DEF WriteOn
<1>7. /\ drained' = drained /\ fin' = (fin \/ (ends /\ shut))
      /\ write_shutdown_done' = (write_shutdown_done \/ (ends /\ shut))
  BY DEF WriteOn
<1>8. <<>> \in Seq(ByteNumbers)
  OBVIOUS
<1>9. writing' \in Seq(ByteNumbers)
  BY <1>3, <1>6, <1>8 DEF DropWrite
<1>10. drained' \in 0..Len(wire') /\ Len(wire') - drained' <= SendBuf
  BY <1>1, <1>2, <1>5, <1>7
<1>11. pc' \in {"select", "after"} /\ wstate' \in {"idle", "pending"} /\ shutting' \in BOOLEAN
  BY <1>6 DEF DropWrite
<1>12. QED
  BY <1>1, <1>5, <1>7, <1>9, <1>10, <1>11

\* The chunk that the write branch takes is one of those written.
LEMMA TakenChunk ==
  ASSUME TypeInv, write_buf # <<>>
  PROVE  /\ TakeChunk[1] \in 1..MaxWrites /\ TakeChunk[2] \in Seq(1..MaxWrites)
         /\ Chunk(TakeChunk[1]) \in Seq(ByteNumbers)
<1>1. write_buf \in Seq(1..MaxWrites) /\ MaxWrites \in Nat /\ ChunkLen \in Nat
  BY TransportConstants DEF TypeInv, OutputType
<1>2. TakeChunk[1] \in 1..MaxWrites /\ TakeChunk[2] \in Seq(1..MaxWrites)
  BY <1>1 DEF TakeChunk
<1> DEFINE k == TakeChunk[1]
<1> HIDE DEF k
<1>3. k \in Nat \ {0} /\ k <= MaxWrites
  BY <1>1, <1>2 DEF k
<1>4. k * ChunkLen <= MaxWrites * ChunkLen /\ MaxWrites * ChunkLen \in Nat /\ k * ChunkLen \in Nat
  BY <1>1, <1>3, ChunksGrow
<1>5. ASSUME NEW i \in 1..ChunkLen PROVE Chunk(k)[i] \in ByteNumbers
  <2> DEFINE low == (k - 1) * ChunkLen
             high == k * ChunkLen
             top == MaxWrites * ChunkLen
  <2>1. low \in Nat /\ high = low + ChunkLen /\ Chunk(k)[i] = low + i
    BY <1>3, ChunkBytes
  <2>2. high <= top /\ top \in Nat
    BY <1>4
  <2> HIDE DEF low, high, top
  <2>3. low + i \in 1..top
    BY <1>1, <2>1, <2>2
  <2>4. QED
    BY <2>1, <2>3 DEF top, ByteNumbers
<1>6. Chunk(k) \in Seq(ByteNumbers)
  <2>1. Chunk(k) \in [1..ChunkLen -> ByteNumbers]
    BY <1>5 DEF Chunk
  <2>2. QED
    BY <1>1, <2>1, SeqDef
<1>7. QED
  BY <1>2, <1>6 DEF k

\* Every step of the I/O task keeps the types.
LEMMA IoTaskTypes ==
  ASSUME TypeInv, IoTask
  PROVE  TypeInv'
<1> USE DEF TypeInv
<1>1. CASE IoTop
  <2>1. ControlType'
    BY <1>1 DEF IoTop, ControlType
  <2>2. write_on' \in BOOLEAN
    BY <1>1 DEF IoTop, WriteWanted, FutureType, FlagType
  <2>3. FutureType'
    BY <1>1, <2>2 DEF IoTop, FutureType, state, out
  <2>4. QED
    BY <1>1, <2>1, <2>3, TypeFrame DEF IoTop, state, out
<1>2. CASE WritePoll
  <2>1. /\ ShutdownNow(write_buf) \in BOOLEAN /\ ShutdownNow(write_buf') \in BOOLEAN
        /\ <<>> \in Seq(ByteNumbers)
    BY DEF ShutdownNow, FlagType
  <2>2. PICK bytes \in Seq(ByteNumbers), shut \in BOOLEAN : WriteOn(bytes, shut)
    BY <1>2, <2>1, TakenChunk DEF WritePoll
  <2>3. write_buf' \in Seq(1..MaxWrites)
    BY <1>2, TakenChunk DEF WritePoll, OutputType
  <2>4. ControlType'
    BY <1>2, <2>2, WriteOnTypes DEF WritePoll, ControlType
  <2>5. OutputType'
    BY <1>2, <2>2, <2>3, WriteOnTypes DEF WritePoll, OutputType, WritesBegun, InWrite
  <2>6. FutureType'
    BY <1>2, <2>2, WriteOnTypes DEF WritePoll, FutureType
  <2>7. QED
    BY <1>2, <2>4, <2>5, <2>6, TypeFrame DEF WritePoll
<1>3. CASE WriteResume
  <2>1. writing \in Seq(ByteNumbers) /\ shutting \in BOOLEAN
    BY DEF OutputType, FutureType
  <2>2. ControlType'
    BY <1>3, <2>1, WriteOnTypes DEF WriteResume, ControlType
  <2>3. OutputType'
    BY <1>3, <2>1, WriteOnTypes DEF WriteResume, OutputType, WritesBegun, InWrite
  <2>4. FutureType'
    BY <1>3, <2>1, WriteOnTypes DEF WriteResume, FutureType
  <2>5. QED
    BY <1>3, <2>2, <2>3, <2>4, TypeFrame DEF WriteResume
<1>4. ASSUME DropWrite, UNCHANGED <<write_buf, chunks, call, out, write_shutdown_done, write_on>>
      PROVE  OutputType' /\ FutureType'
  <2>1. <<>> \in Seq(ByteNumbers)
    OBVIOUS
  <2>2. QED
    BY <1>4, <2>1 DEF DropWrite, OutputType, FutureType, WritesBegun, InWrite, out
<1>5. CASE ReadData
  <2>1. ControlType' /\ InputType'
    BY <1>5 DEF ReadData, ReadOn, ControlType, InputType, state
  <2>2. QED
    BY <1>5, <1>4, <2>1, TypeFrame DEF ReadData, state
<1>6. CASE ReadEof
  <2>1. ControlType' /\ InputType'
    BY <1>6 DEF ReadEof, ReadOn, ControlType, InputType, peer
  <2>2. QED
    BY <1>6, <1>4, <2>1, TypeFrame DEF ReadEof
<1>7. CASE ReadError \/ SelectSleep
  <2>1. ControlType'
    BY <1>7 DEF ReadError, SelectSleep, ControlType
  <2>2. QED
    BY <1>7, <1>4, <2>1, TypeFrame DEF ReadError, SelectSleep, state
<1>8. CASE CallbackReturns \/ IoAfter \/ ConnectionLost
  <2>1. ControlType'
    BY <1>8 DEF CallbackReturns, IoAfter, ConnectionLost, ControlType
  <2>2. QED
    BY <1>8, <2>1, TypeFrame DEF CallbackReturns, IoAfter, ConnectionLost, state, future, out
<1>9. QED
  BY <1>1, <1>2, <1>3, <1>5, <1>6, <1>7, <1>8 DEF IoTask

\* What a thread that enters or leaves a method does to the other.
LEMMA CallTypes ==
  ASSUME TypeInv, NEW c \in Callers, NEW m \in Methods
  PROVE  /\ Enter(c, m) => /\ call' \in [Callers -> Methods] /\ call[c] = "none" /\ call'[c] = m
                           /\ \A d \in Callers \ {c} : call'[d] = call[d]
         /\ Leave(c, m) => /\ call' \in [Callers -> Methods] /\ call[c] = m /\ call'[c] = "none"
                           /\ \A d \in Callers \ {c} : call'[d] = call[d]
BY DEF TypeInv, ControlType, Enter, Leave, InPython, Methods

\* Entering and leaving a method keeps the types.
LEMMA MethodTypes ==
  ASSUME TypeInv, NEW c \in Callers, Begin(c) \/ Finish(c)
  PROVE  TypeInv'
<1> USE DEF TypeInv
<1>1. UnchangedByCalls
  BY DEF Begin, Finish, Write, WriteEof, PauseReading, ResumeReading, Close, WritePush, WriteEofSet,
     PauseReadingSet, ResumeReadingSet, CloseSet
<1>2. \E m \in Methods : Enter(c, m) \/ Leave(c, m)
  BY DEF Begin, Finish, Write, WriteEof, PauseReading, ResumeReading, Close, WritePush, WriteEofSet,
     PauseReadingSet, ResumeReadingSet, CloseSet, Methods
<1>3. ControlType'
  BY <1>1, <1>2, CallTypes DEF UnchangedByCalls, ControlType
<1>4. FlagType'
  BY DEF Begin, Finish, Write, WriteEof, PauseReading, ResumeReading, Close, WritePush, WriteEofSet,
     PauseReadingSet, ResumeReadingSet, CloseSet, FlagType, flags, Resumed
<1>5. InputType' /\ FutureType'
  BY <1>1, TypeFrame DEF UnchangedByCalls, future, out
<1>6. OutputType'
  <2>1. UNCHANGED <<writing, wire, drained>> /\ call \in [Callers -> Methods]
    BY <1>1 DEF UnchangedByCalls, future, out, ControlType
  <2>2. MaxWrites \in Nat /\ chunks \in Nat /\ write_buf \in Seq(1..MaxWrites)
    BY TransportConstants DEF OutputType
  <2>3. CASE WritePush(c)
    <3>1. Leave(c, "write") /\ chunks' = chunks + 1 /\ write_buf' = Append(write_buf, chunks + 1)
      BY <2>3 DEF WritePush
    <3>2. call[c] = "write" /\ chunks + 1 <= MaxWrites
      BY <2>2, <3>1 DEF Leave, OutputType, WritesBegun, InWrite, Callers
    <3>3. write_buf' \in Seq(1..MaxWrites)
      BY <2>2, <3>1, <3>2
    <3>4. WritesBegun' <= MaxWrites
      BY <2>1, <2>2, <3>1, TransportConstants
      DEF OutputType, WritesBegun, InWrite, Leave, Callers
    <3>5. QED
      BY <2>1, <2>2, <3>1, <3>3, <3>4 DEF OutputType
  <2>4. CASE Write(c)
    <3>1. WritesBegun < MaxWrites /\ UNCHANGED <<write_buf, chunks>>
      BY <2>4 DEF Write
    <3>2. WritesBegun' <= MaxWrites
      BY <2>1, <2>2, <2>4, <3>1, TransportConstants DEF WritesBegun, InWrite, Callers, Write, Enter, InPython
    <3>3. QED
      BY <2>1, <2>2, <3>1, <3>2 DEF OutputType
  <2>5. CASE ~Write(c) /\ ~WritePush(c)
    <3>1. UNCHANGED chunks /\ write_buf' \in Seq(1..MaxWrites)
      <4>1. <<>> \in Seq(1..MaxWrites)
        OBVIOUS
      <4>2. chunks' = chunks /\ (write_buf' = write_buf \/ write_buf' = <<>>)
        BY <2>5 DEF Begin, Finish, WriteEof, PauseReading, ResumeReading, Close, WriteEofSet,
           PauseReadingSet, ResumeReadingSet, CloseSet
      <4>3. QED
        BY <2>2, <4>1, <4>2
    <3>2. \A d \in Callers : call'[d] = "write" => call[d] = "write"
      BY <2>1, <2>5 DEF Begin, Finish, WriteEof, PauseReading, ResumeReading, Close, WriteEofSet,
         PauseReadingSet, ResumeReadingSet, CloseSet, Enter, Leave
    <3>3. WritesBegun' <= WritesBegun
      BY <2>2, <3>1, <3>2 DEF WritesBegun, InWrite, Callers
    <3>4. QED
      BY <2>1, <2>2, <3>1, <3>3 DEF OutputType, WritesBegun, InWrite
  <2>6. QED
    BY <2>3, <2>4, <2>5
<1>7. QED
  BY <1>3, <1>4, <1>5, <1>6

\* Every step keeps the types.
LEMMA NextTypes ==
  ASSUME TypeInv, [Next]_vars
  PROVE  TypeInv'
<1>1. CASE Attach \/ ConnectionMadeReturns
  <2>1. ControlType'
    BY <1>1 DEF Attach, ConnectionMadeReturns, TypeInv, ControlType
  <2>2. QED
    BY <1>1, <2>1, TypeFrame DEF Attach, ConnectionMadeReturns, TypeInv, state, future, out
<1>2. CASE PeerSends \/ PeerShutsDown \/ PeerResets
  <2>1. InputType'
    <3>1. UNCHANGED <<read_eof, eofs, received>>
      BY <1>2 DEF PeerSends, PeerShutsDown, PeerResets, state
    <3>2. inq' \in Nat /\ sentin' \in 0..MaxIn /\ received + inq' = sentin'
      BY <1>2, TransportConstants DEF PeerSends, PeerShutsDown, PeerResets, TypeInv, InputType
    <3>3. peer_eof' \in BOOLEAN /\ reset' \in BOOLEAN
      BY <1>2 DEF PeerSends, PeerShutsDown, PeerResets, TypeInv, InputType
    <3>4. QED
      BY <3>1, <3>2, <3>3 DEF TypeInv, InputType
  <2>2. QED
    BY <1>2, <2>1, TypeFrame DEF PeerSends, PeerShutsDown, PeerResets, TypeInv, state, future, out
<1>3. CASE PeerReads
  <2>1. OutputType'
    BY <1>3, TransportConstants DEF PeerReads, TypeInv, OutputType, WritesBegun, InWrite, state, future
  <2>2. QED
    BY <1>3, <2>1, TypeFrame DEF PeerReads, TypeInv, state, future
<1>4. CASE UNCHANGED vars
  BY <1>4, TypeFrame DEF vars, TypeInv, state, future, out
<1>5. QED
  BY <1>1, <1>2, <1>3, <1>4, IoTaskTypes, MethodTypes DEF Next, Peer

\* The state of a transport has its type whatever the peer does and whichever
\* thread calls which method.
THEOREM TypesInvariant == Spec => []TypeInv
<1>1. Init => TypeInv
  <2> SUFFICES ASSUME Init PROVE TypeInv
    OBVIOUS
  <2>1. ControlType /\ FlagType /\ FutureType
    BY DEF Init, ControlType, FlagType, FutureType, Methods
  <2>2. InputType
    <3>1. inq \in Nat /\ sentin \in 0..MaxIn /\ received \in Nat /\ received + inq = sentin
      BY TransportConstants DEF Init
    <3>2. peer_eof \in BOOLEAN /\ reset \in BOOLEAN /\ read_eof \in BOOLEAN /\ ~read_eof /\ eofs = 0
      BY DEF Init
    <3>3. QED
      BY <3>1, <3>2 DEF InputType
  <2>3. <<>> \in Seq(ByteNumbers) /\ <<>> \in Seq(1..MaxWrites)
    OBVIOUS
  <2>4. OutputType
    BY <2>3, TransportConstants DEF Init, OutputType, WritesBegun, InWrite, Callers
  <2>5. QED
    BY <2>1, <2>2, <2>4 DEF TypeInv
<1>2. TypeInv /\ [Next]_vars => TypeInv'
  BY NextTypes
<1>3. QED
  BY <1>1, <1>2, PTL DEF Spec

\* The types that the runs check: the bounds of the counters included, and
\* eof_received is called at most once (io_processing_loop).
THEOREM TypeCorrect == Spec => []TypeOK
<1>1. TypeInv => TypeOK
  <2> SUFFICES ASSUME TypeInv PROVE TypeOK
    OBVIOUS
  <2>1. received \in 0..MaxIn /\ inq \in 0..MaxIn /\ sentin \in 0..MaxIn /\ eofs \in 0..1
    BY TransportConstants DEF TypeInv, InputType
  <2>2. chunks \in 0..MaxWrites
    BY TransportConstants DEF TypeInv, OutputType, WritesBegun, InWrite
  <2>3. QED
    BY <2>1, <2>2 DEF TypeInv, TypeOK, ControlType, FlagType, InputType, OutputType, FutureType,
       ByteNumbers
<1>2. QED
  BY <1>1, TypesInvariant, PTL
-----------------------------------------------------------------------------
(***************************************************************************)
(* The protocol is called as a stream transport has to call it.            *)
(***************************************************************************)

\* The I/O task is spawned once (attach).
Spawned == made = "no" => pc = "none"

\* Every step of the transport is a step of the abstract protocol, or none of
\* its business.
LEMMA ProtocolStep ==
  ASSUME TypeInv, Spawned, [Next]_vars
  PROVE  [Protocol!Next]_<<IF pc = "lost" THEN "CLOSED" ELSE IF read_eof THEN "EOF" ELSE "CONNECTED",
                           received, eofs, IF pc = "lost" THEN 1 ELSE 0>>
<1> USE DEF Protocol!Next, Protocol!DataReceived, Protocol!EofReceived, Protocol!ConnectionLost
<1>1. CASE ReadData
  BY <1>1 DEF ReadData, ReadOn, state
<1>2. CASE ReadEof
  BY <1>2 DEF ReadEof, ReadOn
<1>3. CASE ConnectionLost
  BY <1>3 DEF ConnectionLost, state
<1>4. ASSUME pc # "lost", pc' # "lost", UNCHANGED <<read_eof, received, eofs>>
      PROVE  UNCHANGED <<IF pc = "lost" THEN "CLOSED" ELSE IF read_eof THEN "EOF" ELSE "CONNECTED",
                         received, eofs, IF pc = "lost" THEN 1 ELSE 0>>
  BY <1>4
<1>5. CASE UNCHANGED <<pc, read_eof, received, eofs>>
  BY <1>5
<1>6. CASE Attach \/ IoTop \/ WritePoll \/ WriteResume \/ ReadError \/ SelectSleep
           \/ CallbackReturns \/ IoAfter
  <2>1. pc # "lost" /\ pc' # "lost"
    BY <1>6 DEF Attach, IoTop, WritePoll, WriteResume, WriteOn, ReadError, ReadOn, SelectSleep,
       CallbackReturns, IoAfter, Spawned
  <2>2. UNCHANGED <<read_eof, received, eofs>>
    BY <1>6 DEF Attach, IoTop, WritePoll, WriteResume, ReadError, SelectSleep, CallbackReturns,
       IoAfter, state
  <2>3. QED
    BY <1>4, <2>1, <2>2
<1>7. CASE ConnectionMadeReturns \/ Peer \/ (\E c \in Callers : Begin(c) \/ Finish(c)) \/ UNCHANGED vars
  <2>1. UNCHANGED <<pc, read_eof, received, eofs>>
    BY <1>7 DEF ConnectionMadeReturns, Peer, PeerSends, PeerShutsDown, PeerResets, PeerReads, Begin,
       Finish, Write, WriteEof, PauseReading, ResumeReading, Close, WritePush, WriteEofSet,
       PauseReadingSet, ResumeReadingSet, CloseSet, UnchangedByCalls, vars, state
  <2>2. QED
    BY <2>1, <1>5
<1>8. QED
  BY <1>1, <1>2, <1>3, <1>6, <1>7 DEF Next, IoTask

\* Whatever the threads and the peer do, data_received, eof_received and
\* connection_lost are called in the order of the abstract stream protocol:
\* the transport implements StreamProtocol.
THEOREM CallbacksInOrder == Spec => CallbackOrder
<1>1. Init => Protocol!Init /\ Spawned
  BY DEF Init, Protocol!Init, Spawned
<1>2. Spawned /\ [Next]_vars => Spawned'
  BY DEF Spawned, Next, vars, Attach, ConnectionMadeReturns, IoTask, IoTop, WritePoll, WriteResume,
     ReadData, ReadEof, ReadOn, ReadError, SelectSleep, CallbackReturns, IoAfter, ConnectionLost, Peer,
     PeerSends, PeerShutsDown, PeerResets, PeerReads, Begin, Finish, Write, WriteEof, PauseReading,
     ResumeReading, Close, WritePush, WriteEofSet, PauseReadingSet, ResumeReadingSet, CloseSet,
     UnchangedByCalls
<1>3. TypeInv /\ Spawned /\ [Next]_vars
        => [Protocol!Next]_<<IF pc = "lost" THEN "CLOSED" ELSE IF read_eof THEN "EOF" ELSE "CONNECTED",
                             received, eofs, IF pc = "lost" THEN 1 ELSE 0>>
  BY ProtocolStep
<1>4. QED
  BY <1>1, <1>2, <1>3, TypesInvariant, PTL DEF Spec, CallbackOrder, Protocol!Spec
-----------------------------------------------------------------------------
(***************************************************************************)
(* The bytes on the wire are in order.  The inductive invariant follows    *)
(* them from the buffer, whose chunks are in order and were all written,   *)
(* through the chunk that write_all holds, onto the wire.                  *)
(***************************************************************************)
Increasing(q) == \A i, j \in DOMAIN q : i < j => q[i] < q[j]
Below(q, bound) == \A i \in DOMAIN q : q[i] <= bound
Before(q, r) == \A i \in DOMAIN q, j \in DOMAIN r : q[i] < r[j]

WrittenInv ==
  /\ Increasing(write_buf) /\ Below(write_buf, chunks)
SentInv ==
  /\ Increasing(writing) /\ Increasing(wire) /\ Before(wire, writing)
BoundInv ==
  /\ Below(writing, chunks * ChunkLen) /\ Below(wire, chunks * ChunkLen)
  /\ \A i \in DOMAIN write_buf : /\ Below(wire, (write_buf[i] - 1) * ChunkLen)
                                 /\ Below(writing, (write_buf[i] - 1) * ChunkLen)
OrderInv == WrittenInv /\ SentInv /\ BoundInv

\* The elements of a sequence of numbers are numbers.
LEMMA NumberSequence ==
  ASSUME NEW S, S \subseteq Nat, NEW q \in Seq(S)
  PROVE  /\ DOMAIN q = 1..Len(q) /\ Len(q) \in Nat
         /\ \A i \in 1..Len(q) : q[i] \in Nat
<1>1. DOMAIN q = 1..Len(q) /\ Len(q) \in Nat
  BY LenProperties
<1>2. \A i \in 1..Len(q) : q[i] \in S
  BY ElementOfSeq
<1>3. QED
  BY <1>1, <1>2

\* The numbers of bytes and of chunks are natural numbers.
LEMMA NumberedData ==
  /\ ByteNumbers \subseteq Nat /\ 1..MaxWrites \subseteq Nat
BY TransportConstants DEF ByteNumbers

\* write_all moves a prefix of its bytes to the wire and keeps the rest.
LEMMA WriteOnOrder ==
  ASSUME TypeInv, NEW bytes \in Seq(ByteNumbers), NEW shut \in BOOLEAN,
         WriteOn(bytes, shut), Increasing(wire), Increasing(bytes), Before(wire, bytes)
  PROVE  /\ Increasing(wire') /\ Increasing(writing') /\ Before(wire', writing')
         /\ \A b \in Nat : Below(wire, b) /\ Below(bytes, b) => Below(wire', b) /\ Below(writing', b)
<1> DEFINE room == SendBuf - (Len(wire) - drained)
           n == IF Len(bytes) <= room THEN Len(bytes) ELSE room
           sent == SubSeq(bytes, 1, n)
           rest == SubSeq(bytes, n + 1, Len(bytes))
<1>1. /\ wire \in Seq(ByteNumbers) /\ Len(wire) \in Nat /\ drained \in 0..Len(wire)
      /\ Len(wire) - drained <= SendBuf /\ SendBuf \in Nat /\ Len(bytes) \in Nat
      /\ ByteNumbers \subseteq Nat
  BY TransportConstants DEF TypeInv, OutputType, ByteNumbers
<1>2. n \in 0..Len(bytes)
  BY <1>1
<1> HIDE DEF n
<1>3. \A i \in 1..Len(bytes) : bytes[i] \in ByteNumbers
  OBVIOUS
<1>4. /\ sent \in Seq(ByteNumbers) /\ Len(sent) = n
      /\ \A i \in 1..n : sent[i] = bytes[i]
  BY <1>2, <1>3, SubSeqProperties
<1>5. /\ rest \in Seq(ByteNumbers) /\ Len(rest) = Len(bytes) - n
      /\ \A i \in 1..(Len(bytes) - n) : rest[i] = bytes[n + i]
  BY <1>2, <1>3, SubSeqProperties
<1>6. wire' = wire \/ wire' = wire \o sent
  BY DEF WriteOn, n
<1>7. writing' = <<>> \/ (writing' = rest /\ wire' = wire \o sent)
  BY DEF WriteOn, DropWrite, n
<1>8. /\ Increasing(<<>>) /\ Before(wire', <<>>) /\ \A b \in Nat : Below(<<>>, b)
  BY DEF Increasing, Before, Below
<1> HIDE DEF sent, rest
<1>9. /\ wire \o sent \in Seq(ByteNumbers) /\ Len(wire \o sent) = Len(wire) + n
      /\ \A i \in 1..(Len(wire) + n) :
           (wire \o sent)[i] = IF i <= Len(wire) THEN wire[i] ELSE bytes[i - Len(wire)]
  <2>1. /\ wire \o sent \in Seq(ByteNumbers) /\ Len(wire \o sent) = Len(wire) + Len(sent)
        /\ \A i \in 1..(Len(wire) + Len(sent)) :
             (wire \o sent)[i] = IF i <= Len(wire) THEN wire[i] ELSE sent[i - Len(wire)]
    BY <1>1, <1>4, ConcatProperties
  <2>2. \A i \in 1..(Len(wire) + n) : ~(i <= Len(wire)) => i - Len(wire) \in 1..n
    BY <1>1, <1>2
  <2>3. QED
    BY <1>4, <2>1, <2>2
<1> DEFINE w == wire \o sent
<1>10. /\ DOMAIN wire = 1..Len(wire) /\ DOMAIN bytes = 1..Len(bytes)
       /\ DOMAIN w = 1..(Len(wire) + n) /\ DOMAIN rest = 1..(Len(bytes) - n)
  BY <1>1, <1>5, <1>9, LenProperties
<1>11. /\ \A i \in 1..Len(wire) : wire[i] \in Nat
       /\ \A i \in 1..Len(bytes) : bytes[i] \in Nat
  BY <1>1, NumberSequence
<1> HIDE DEF w
<1>12. \A i \in 1..(Len(wire) + n) : w[i] = IF i <= Len(wire) THEN wire[i] ELSE bytes[i - Len(wire)]
  BY <1>9 DEF w
<1>13. /\ \A i, j \in 1..Len(wire) : i < j => wire[i] < wire[j]
       /\ \A i, j \in 1..Len(bytes) : i < j => bytes[i] < bytes[j]
       /\ \A i \in 1..Len(wire), j \in 1..Len(bytes) : wire[i] < bytes[j]
  BY <1>10 DEF Increasing, Before
<1>14. Increasing(w)
  <2>1. ASSUME NEW i \in 1..(Len(wire) + n), NEW j \in 1..(Len(wire) + n), i < j
        PROVE  w[i] < w[j]
    <3>1. CASE j <= Len(wire)
      BY <1>1, <1>2, <1>12, <1>13, <2>1, <3>1
    <3>2. CASE i <= Len(wire) /\ ~(j <= Len(wire))
      <4>1. i \in 1..Len(wire) /\ j - Len(wire) \in 1..Len(bytes)
        BY <1>1, <1>2, <3>2
      <4>2. w[i] = wire[i] /\ w[j] = bytes[j - Len(wire)]
        BY <1>12, <3>2
      <4>3. QED
        BY <1>13, <4>1, <4>2
    <3>3. CASE ~(i <= Len(wire))
      <4>1. /\ i - Len(wire) \in 1..Len(bytes) /\ j - Len(wire) \in 1..Len(bytes)
            /\ i - Len(wire) < j - Len(wire) /\ ~(j <= Len(wire))
        BY <1>1, <1>2, <2>1, <3>3
      <4>2. w[i] = bytes[i - Len(wire)] /\ w[j] = bytes[j - Len(wire)]
        BY <1>12, <3>3, <4>1
      <4>3. QED
        BY <1>13, <4>1, <4>2
    <3>4. QED
      BY <3>1, <3>2, <3>3
  <2>2. QED
    BY <1>10, <2>1 DEF Increasing
<1>15. Increasing(rest)
  <2>1. ASSUME NEW i \in 1..(Len(bytes) - n), NEW j \in 1..(Len(bytes) - n), i < j
        PROVE  rest[i] < rest[j]
    BY <1>1, <1>2, <1>5, <1>13, <2>1
  <2>2. QED
    BY <1>10, <2>1 DEF Increasing
<1>16. Before(w, rest)
  <2>1. ASSUME NEW i \in 1..(Len(wire) + n), NEW j \in 1..(Len(bytes) - n)
        PROVE  w[i] < rest[j]
    <3>1. rest[j] = bytes[n + j] /\ n + j \in 1..Len(bytes)
      BY <1>1, <1>2, <1>5
    <3>2. CASE i <= Len(wire)
      <4>1. w[i] = wire[i] /\ i \in 1..Len(wire)
        BY <1>1, <1>2, <1>12, <3>2
      <4>2. QED
        BY <1>13, <3>1, <4>1
    <3>3. CASE ~(i <= Len(wire))
      <4>1. /\ w[i] = bytes[i - Len(wire)] /\ i - Len(wire) \in 1..Len(bytes)
            /\ i - Len(wire) < n + j
        BY <1>1, <1>2, <1>12, <3>3
      <4>2. QED
        BY <1>13, <3>1, <4>1
    <3>4. QED
      BY <3>2, <3>3
  <2>2. QED
    BY <1>10, <2>1 DEF Before
<1>17. ASSUME NEW b \in Nat, Below(wire, b), Below(bytes, b)
       PROVE  Below(w, b) /\ Below(rest, b)
  <2>1. ASSUME NEW i \in 1..(Len(wire) + n) PROVE w[i] <= b
    <3>1. CASE i <= Len(wire)
      <4>1. w[i] = wire[i] /\ i \in 1..Len(wire)
        BY <1>1, <1>2, <1>12, <3>1
      <4>2. QED
        BY <1>10, <1>17, <4>1 DEF Below
    <3>2. CASE ~(i <= Len(wire))
      <4>1. w[i] = bytes[i - Len(wire)] /\ i - Len(wire) \in 1..Len(bytes)
        BY <1>1, <1>2, <1>12, <3>2
      <4>2. QED
        BY <1>10, <1>17, <4>1 DEF Below
    <3>3. QED
      BY <3>1, <3>2
  <2>2. ASSUME NEW i \in 1..(Len(bytes) - n) PROVE rest[i] <= b
    <3>1. rest[i] = bytes[n + i] /\ n + i \in 1..Len(bytes)
      BY <1>1, <1>2, <1>5
    <3>2. QED
      BY <1>10, <1>17, <3>1 DEF Below
  <2>3. QED
    BY <1>10, <2>1, <2>2 DEF Below
<1>18. QED
  BY <1>6, <1>7, <1>8, <1>14, <1>15, <1>16, <1>17 DEF w

\* The head of the buffer comes after the wire and before the rest of it.
LEMMA TakenChunkOrder ==
  ASSUME TypeInv, OrderInv, write_buf # <<>>
  PROVE  /\ Increasing(Chunk(TakeChunk[1])) /\ Before(wire, Chunk(TakeChunk[1]))
         /\ Below(Chunk(TakeChunk[1]), chunks * ChunkLen)
         /\ Increasing(TakeChunk[2]) /\ Below(TakeChunk[2], chunks)
         /\ \A i \in DOMAIN TakeChunk[2] :
              /\ (TakeChunk[2][i] - 1) * ChunkLen \in Nat
              /\ Below(wire, (TakeChunk[2][i] - 1) * ChunkLen)
              /\ Below(Chunk(TakeChunk[1]), (TakeChunk[2][i] - 1) * ChunkLen)
<1> DEFINE k == Head(write_buf)
<1>0. TakeChunk[1] = k /\ TakeChunk[2] = Tail(write_buf)
  BY DEF TakeChunk
<1>1. /\ write_buf \in Seq(1..MaxWrites) /\ MaxWrites \in Nat /\ ChunkLen \in Nat
      /\ wire \in Seq(ByteNumbers) /\ ByteNumbers \subseteq Nat /\ chunks \in Nat
  BY TransportConstants DEF TypeInv, OutputType, ByteNumbers
<1>2. /\ k \in Nat \ {0} /\ k = write_buf[1] /\ k <= chunks /\ 1 \in DOMAIN write_buf
      /\ Len(Tail(write_buf)) = Len(write_buf) - 1 /\ Tail(write_buf) \in Seq(1..MaxWrites)
      /\ \A i \in 1..Len(Tail(write_buf)) : Tail(write_buf)[i] = write_buf[i + 1]
  BY <1>1 DEF OrderInv, WrittenInv, Below
<1> HIDE DEF k
<1>3. Increasing(Tail(write_buf)) /\ Below(Tail(write_buf), chunks)
  <2>1. /\ DOMAIN write_buf = 1..Len(write_buf) /\ Len(write_buf) \in Nat
        /\ DOMAIN Tail(write_buf) = 1..(Len(write_buf) - 1)
    BY <1>1, <1>2
  <2>2. QED
    BY <1>2, <2>1 DEF OrderInv, WrittenInv, Below, Increasing
<1> DEFINE low == (k - 1) * ChunkLen
           high == k * ChunkLen
<1>4. /\ low \in Nat /\ high = low + ChunkLen /\ Len(Chunk(k)) = ChunkLen
      /\ Chunk(k) \in Seq(Nat \ {0}) /\ \A i \in 1..ChunkLen : Chunk(k)[i] = low + i
  BY <1>2, ChunkBytes
<1>5. Below(wire, low)
  BY <1>2 DEF OrderInv, BoundInv
<1>6. high <= chunks * ChunkLen /\ chunks * ChunkLen \in Nat
  BY <1>1, <1>2, ChunksGrow
<1>7. \A i \in 1..Len(Tail(write_buf)) :
        high <= (Tail(write_buf)[i] - 1) * ChunkLen /\ (Tail(write_buf)[i] - 1) * ChunkLen \in Nat
  <2> SUFFICES ASSUME NEW i \in 1..Len(Tail(write_buf))
               PROVE  /\ high <= (Tail(write_buf)[i] - 1) * ChunkLen
                      /\ (Tail(write_buf)[i] - 1) * ChunkLen \in Nat
    OBVIOUS
  <2>1. Tail(write_buf)[i] - 1 \in Nat /\ k <= Tail(write_buf)[i] - 1
    <3>1. /\ Len(write_buf) \in Nat /\ i \in Nat \ {0} /\ 1 \in DOMAIN write_buf /\ i + 1 \in DOMAIN write_buf
          /\ write_buf[1] = k /\ Tail(write_buf)[i] = write_buf[i + 1] /\ k \in Nat \ {0}
      BY <1>1, <1>2 DEF k
    <3>2. write_buf[1] < write_buf[i + 1]
      BY <3>1 DEF OrderInv, WrittenInv, Increasing
    <3>3. write_buf[i + 1] \in Nat
      BY <1>1, <3>1
    <3>4. QED
      BY <3>1, <3>2, <3>3
  <2>2. QED
    BY <1>2, <2>1, ChunksGrow
<1> HIDE DEF low, high
<1>8. Increasing(Chunk(k))
  BY <1>1, <1>4 DEF Increasing
<1>9. /\ DOMAIN Chunk(k) = 1..ChunkLen
      /\ \A i \in DOMAIN wire : wire[i] \in Nat /\ wire[i] <= low
  <2>1. \A i \in DOMAIN wire : wire[i] \in Nat
    BY <1>1, NumberSequence
  <2>2. QED
    BY <1>4, <1>5, <2>1 DEF Below
<1>9a. Before(wire, Chunk(k))
  BY <1>1, <1>4, <1>9 DEF Before
<1>10. \A b \in Nat : high <= b => Below(Chunk(k), b) /\ Below(wire, b)
  BY <1>1, <1>4, <1>9 DEF Below
<1>11. Below(Chunk(k), chunks * ChunkLen)
  BY <1>6, <1>10
<1>12. \A i \in DOMAIN Tail(write_buf) :
         /\ Below(wire, (Tail(write_buf)[i] - 1) * ChunkLen)
         /\ Below(Chunk(k), (Tail(write_buf)[i] - 1) * ChunkLen)
  BY <1>2, <1>7, <1>10
<1>13. QED
  BY <1>0, <1>2, <1>3, <1>7, <1>8, <1>9a, <1>11, <1>12

\* Every step keeps the order of the bytes.
LEMMA OrderNext ==
  ASSUME TypeInv, OrderInv, [Next]_vars
  PROVE  OrderInv'
<1> USE DEF OrderInv
<1>0. /\ chunks \in Nat /\ chunks * ChunkLen \in Nat /\ writing \in Seq(ByteNumbers)
      /\ shutting \in BOOLEAN /\ <<>> \in Seq(ByteNumbers) /\ ByteNumbers \subseteq Nat
  BY TransportConstants, ChunksGrow DEF TypeInv, OutputType, FutureType, ByteNumbers
<1>1. ASSUME WritePoll, write_buf # <<>> PROVE OrderInv'
  <2> DEFINE bytes == Chunk(TakeChunk[1])
  <2>1. /\ write_buf' = TakeChunk[2] /\ chunks' = chunks
        /\ WriteOn(bytes, ShutdownNow(write_buf'))
    BY <1>1 DEF WritePoll
  <2>2. bytes \in Seq(ByteNumbers) /\ ShutdownNow(write_buf') \in BOOLEAN
    BY <1>1, TakenChunk DEF ShutdownNow, TypeInv, FlagType
  <2>3. WrittenInv'
    BY <1>1, <2>1, TakenChunkOrder DEF WrittenInv
  <2>4. Increasing(bytes) /\ Before(wire, bytes) /\ Increasing(wire)
    BY <1>1, TakenChunkOrder DEF SentInv
  <2>5. /\ SentInv'
        /\ \A b \in Nat : Below(wire, b) /\ Below(bytes, b) => Below(wire', b) /\ Below(writing', b)
    BY <2>1, <2>2, <2>4, WriteOnOrder DEF SentInv
  <2>6. BoundInv'
    BY <1>0, <1>1, <2>1, <2>5, TakenChunkOrder DEF BoundInv
  <2>7. QED
    BY <2>3, <2>5, <2>6
<1>2. ASSUME WritePoll, write_buf = <<>> PROVE OrderInv'
  <2>1. /\ UNCHANGED <<write_buf, chunks>> /\ WriteOn(<<>>, ShutdownNow(write_buf))
        /\ ShutdownNow(write_buf) \in BOOLEAN
    BY <1>2 DEF WritePoll, ShutdownNow, TypeInv, FlagType
  <2>2. Increasing(<<>>) /\ Before(wire, <<>>) /\ \A b \in Nat : Below(<<>>, b)
    BY DEF Increasing, Before, Below
  <2>3. SentInv' /\ \A b \in Nat : Below(wire, b) => Below(wire', b) /\ Below(writing', b)
    BY <1>0, <2>1, <2>2, WriteOnOrder DEF SentInv
  <2>4. WrittenInv' /\ BoundInv'
    BY <1>0, <1>2, <2>1, <2>3 DEF WrittenInv, BoundInv
  <2>5. QED
    BY <2>3, <2>4
<1>3. CASE WriteResume
  <2>1. UNCHANGED <<write_buf, chunks>> /\ WriteOn(writing, shutting)
    BY <1>3 DEF WriteResume
  <2>2. /\ SentInv'
        /\ \A b \in Nat : Below(wire, b) /\ Below(writing, b) => Below(wire', b) /\ Below(writing', b)
    BY <1>0, <2>1, WriteOnOrder DEF SentInv
  <2>3. \A i \in DOMAIN write_buf : (write_buf[i] - 1) * ChunkLen \in Nat
    <3>1. ASSUME NEW i \in DOMAIN write_buf PROVE write_buf[i] - 1 \in Nat
      <4>1. write_buf \in Seq(1..MaxWrites) /\ MaxWrites \in Nat
        BY TransportConstants DEF TypeInv, OutputType
      <4>2. write_buf[i] \in 1..MaxWrites
        BY <4>1
      <4>3. QED
        BY <4>1, <4>2
    <3>2. QED
      BY <3>1, ChunksGrow
  <2>4. WrittenInv' /\ BoundInv'
    BY <1>0, <2>1, <2>2, <2>3 DEF WrittenInv, BoundInv
  <2>5. QED
    BY <2>2, <2>4
<1>4. ASSUME UNCHANGED <<write_buf, chunks, wire>>, writing' = writing \/ writing' = <<>>
      PROVE  OrderInv'
  BY <1>4 DEF WrittenInv, SentInv, BoundInv, Increasing, Before, Below
<1>5. CASE IoTask /\ ~WritePoll /\ ~WriteResume
  <2>1. UNCHANGED <<write_buf, chunks, wire>> /\ (writing' = writing \/ writing' = <<>>)
    BY <1>5 DEF IoTask, IoTop, ReadData, ReadEof, ReadError, SelectSleep, CallbackReturns, IoAfter,
       ConnectionLost, DropWrite, state, out, future
  <2>2. QED
    BY <1>4, <2>1
<1>6. ASSUME NEW c \in Callers, WritePush(c) PROVE OrderInv'
  <2>1. /\ chunks' = chunks + 1 /\ write_buf' = Append(write_buf, chunks + 1)
        /\ UNCHANGED <<wire, writing>>
    BY <1>6 DEF WritePush, UnchangedByCalls, future, out
  <2>2. /\ write_buf \in Seq(Nat) /\ Len(write_buf') = Len(write_buf) + 1 /\ DOMAIN write_buf' = 1..(Len(write_buf) + 1)
        /\ \A i \in 1..Len(write_buf) : write_buf'[i] = write_buf[i]
        /\ write_buf'[Len(write_buf) + 1] = chunks + 1
    <3>1. write_buf \in Seq(1..MaxWrites)
      BY DEF TypeInv, OutputType
    <3>2. write_buf \in Seq(Nat)
      BY <3>1, NumberedData, SeqMonotonic
    <3>3. QED
      BY <1>0, <2>1, <3>2, AppendProperties
  <2>3. WrittenInv'
    <3>1. /\ chunks \in Nat /\ Len(write_buf) \in Nat
          /\ \A i \in 1..Len(write_buf) : write_buf[i] \in Nat /\ write_buf[i] <= chunks
          /\ \A i, j \in 1..Len(write_buf) : i < j => write_buf[i] < write_buf[j]
      BY <1>0, <2>2 DEF WrittenInv, Increasing, Below
    <3>2. Increasing(write_buf')
      <4> SUFFICES ASSUME NEW i \in 1..(Len(write_buf) + 1), NEW j \in 1..(Len(write_buf) + 1), i < j
                   PROVE  write_buf'[i] < write_buf'[j]
        BY <2>2 DEF Increasing
      <4>1. i \in 1..Len(write_buf) /\ write_buf'[i] = write_buf[i]
        BY <2>2, <3>1
      <4>2. CASE j \in 1..Len(write_buf)
        BY <2>2, <3>1, <4>1, <4>2
      <4>3. CASE j = Len(write_buf) + 1
        BY <2>2, <3>1, <4>1, <4>3
      <4>4. QED
        BY <3>1, <4>2, <4>3
    <3>3. Below(write_buf', chunks')
      BY <2>1, <2>2, <3>1 DEF Below
    <3>4. QED
      BY <3>2, <3>3 DEF WrittenInv
  <2>4. SentInv'
    BY <2>1 DEF SentInv
  <2>5. \A q \in {wire, writing} : Below(q, chunks * ChunkLen) => Below(q, chunks' * ChunkLen)
    <3>1. chunks * ChunkLen <= chunks' * ChunkLen /\ chunks' * ChunkLen \in Nat
      BY <1>0, <2>1, ChunksGrow
    <3>2. wire \in Seq(ByteNumbers) /\ writing \in Seq(ByteNumbers)
      BY DEF TypeInv, OutputType
    <3>3. /\ \A i \in DOMAIN wire : wire[i] \in Nat
          /\ \A i \in DOMAIN writing : writing[i] \in Nat
      BY <1>0, <3>2, NumberSequence
    <3>4. QED
      BY <1>0, <3>1, <3>3 DEF Below
  <2>6. BoundInv'
    <3>1. ((chunks + 1) - 1) * ChunkLen = chunks * ChunkLen
      BY <1>0
    <3>2. QED
      BY <1>0, <2>1, <2>2, <2>5, <3>1 DEF BoundInv
  <2>7. QED
    BY <2>3, <2>4, <2>6
<1>7. ASSUME NEW c \in Callers, Begin(c) \/ Finish(c), ~WritePush(c) PROVE OrderInv'
  <2>1. UNCHANGED <<chunks, wire, writing>> /\ (write_buf' = write_buf \/ write_buf' = <<>>)
    BY <1>7 DEF Begin, Finish, Write, WriteEof, PauseReading, ResumeReading, Close, WriteEofSet,
       PauseReadingSet, ResumeReadingSet, CloseSet, UnchangedByCalls, future, out
  <2>2. QED
    BY <2>1 DEF WrittenInv, SentInv, BoundInv, Increasing, Below
<1>8. CASE Attach \/ ConnectionMadeReturns \/ Peer \/ UNCHANGED vars
  <2>1. UNCHANGED <<write_buf, chunks, wire, writing>>
    BY <1>8 DEF Attach, ConnectionMadeReturns, Peer, PeerSends, PeerShutsDown, PeerResets, PeerReads,
       vars, state, future, out
  <2>2. QED
    BY <1>4, <2>1
<1>9. QED
  BY <1>1, <1>2, <1>3, <1>5, <1>6, <1>7, <1>8 DEF Next

\* What reaches the wire is in the order in which it was written, and nothing
\* is sent twice, although the write branch of select! is dropped in the
\* middle of a chunk: for chunks and send buffers of every size.
THEOREM WireInOrder == Spec => []WireOrdered
<1>1. Init => OrderInv
  BY DEF Init, OrderInv, WrittenInv, SentInv, BoundInv, Increasing, Before, Below
<1>2. TypeInv /\ OrderInv /\ [Next]_vars => OrderInv'
  BY OrderNext
<1>3. OrderInv => WireOrdered
  BY DEF OrderInv, SentInv, Increasing, WireOrdered
<1>4. QED
  BY <1>1, <1>2, <1>3, TypesInvariant, PTL DEF Spec
-----------------------------------------------------------------------------
(***************************************************************************)
(* With a GIL a method runs from its atomic flag to the locked state       *)
(* without another method in between.  The flags and the state then differ *)
(* by the method in progress and by nothing else.                          *)
(***************************************************************************)
OneCall == \A c, d \in Callers : call[c] # "none" /\ call[d] # "none" => c = d
Busy(methods) == \E c \in Callers : call[c] \in methods

ClosingInv == (closing => aclosing) /\ (aclosing /\ ~closing <=> Busy({"close", "abort"}))
PausedInv == (apaused /\ ~paused <=> Busy({"pause"})) /\ (~apaused /\ paused <=> Busy({"resume"}))
WeofInv == (weof => aweof) /\ (aweof /\ ~weof <=> Busy({"write_eof"}))
CallInv == OneCall /\ ClosingInv /\ PausedInv /\ WeofInv

\* write_eof() refuses later writes, and FIN waits for the earlier ones: when
\* the shutdown is decided on, no byte is left and no write is in progress.
FinInv ==
  /\ aweof => ~Busy({"write"})
  /\ shutting => weof /\ write_buf = <<>>
  /\ write_shutdown_done => weof /\ write_buf = <<>> /\ writing = <<>>

\* A method that begins or returns under a GIL is the only one in progress.
LEMMA CallsOneByOne ==
  ASSUME GIL = TRUE, TypeInv, OneCall, NEW c \in Callers
  PROVE  /\ \A m \in Methods, methods \in SUBSET Methods :
              Enter(c, m) /\ m # "none" =>
                /\ OneCall' /\ \A d \in Callers : call[d] = "none"
                /\ "none" \notin methods => (Busy(methods)' <=> m \in methods) /\ ~Busy(methods)
         /\ \A m \in Methods, methods \in SUBSET Methods :
              Leave(c, m) /\ m # "none" =>
                /\ OneCall'
                /\ "none" \notin methods => ~Busy(methods)' /\ (Busy(methods) <=> m \in methods)
<1>1. call \in [Callers -> Methods]
  BY DEF TypeInv, ControlType
<1>2. ASSUME NEW m \in Methods, NEW methods \in SUBSET Methods, Enter(c, m), m # "none"
      PROVE  /\ OneCall' /\ \A d \in Callers : call[d] = "none"
             /\ "none" \notin methods => (Busy(methods)' <=> m \in methods) /\ ~Busy(methods)
  <2>1. call' = [call EXCEPT ![c] = m] /\ \A d \in Callers : call[d] = "none"
    BY <1>2 DEF Enter, InPython
  <2>2. QED
    BY <1>1, <1>2, <2>1 DEF OneCall, Busy
<1>3. ASSUME NEW m \in Methods, NEW methods \in SUBSET Methods, Leave(c, m), m # "none"
      PROVE  /\ OneCall'
             /\ "none" \notin methods => ~Busy(methods)' /\ (Busy(methods) <=> m \in methods)
  <2>1. call[c] = m /\ call' = [call EXCEPT ![c] = "none"]
    BY <1>3 DEF Leave
  <2>2. \A d \in Callers : d # c => call[d] = "none"
    BY <1>3, <2>1 DEF OneCall
  <2>3. QED
    BY <1>1, <1>3, <2>1, <2>2 DEF OneCall, Busy
<1>4. QED
  BY <1>2, <1>3

\* The first half of a method keeps the account of flags and state.
LEMMA BeginKeepsAccount ==
  ASSUME GIL = TRUE, TypeInv, CallInv, FinInv, NEW c \in Callers, Begin(c)
  PROVE  CallInv' /\ FinInv'
<1> DEFINE Entered(m) ==
      /\ OneCall'
      /\ \A methods \in {{"write"}, {"write_eof"}, {"pause"}, {"resume"}, {"close", "abort"}} :
           (Busy(methods)' <=> m \in methods) /\ ~Busy(methods)
<1>1. \A m \in Methods \ {"none"} : Enter(c, m) => Entered(m)
  BY CallsOneByOne DEF CallInv, Methods
<1> HIDE DEF Entered
<1>2. UNCHANGED <<shutting, write_shutdown_done, writing, write_buf>>
  BY DEF Begin, Write, WriteEof, PauseReading, ResumeReading, Close, UnchangedByCalls, future
<1>4. CASE Write(c)
  <2>1. Entered("write") /\ UNCHANGED <<flags, closing, paused, weof>> /\ ~aweof
    BY <1>1, <1>4 DEF Write, Methods
  <2>2. QED
    BY <1>2, <2>1 DEF Entered, CallInv, ClosingInv, PausedInv, WeofInv, FinInv, flags
<1>5. CASE WriteEof(c)
  <2>1. /\ Entered("write_eof") /\ UNCHANGED <<aclosing, apaused, closing, paused, weof>>
        /\ ~aweof /\ aweof'
    BY <1>1, <1>5 DEF WriteEof, Methods
  <2>2. QED
    BY <1>2, <2>1 DEF Entered, CallInv, ClosingInv, PausedInv, WeofInv, FinInv
<1>6. CASE PauseReading(c)
  <2>1. /\ Entered("pause") /\ UNCHANGED <<aclosing, aweof, closing, paused, weof>>
        /\ ~apaused /\ apaused'
    BY <1>1, <1>6 DEF PauseReading, Methods
  <2>2. QED
    BY <1>2, <2>1 DEF Entered, CallInv, ClosingInv, PausedInv, WeofInv, FinInv
<1>7. CASE ResumeReading(c)
  <2>1. /\ Entered("resume") /\ UNCHANGED <<aclosing, aweof, closing, paused, weof>>
        /\ apaused /\ ~apaused'
    BY <1>1, <1>7 DEF ResumeReading, Methods
  <2>2. QED
    BY <1>2, <2>1 DEF Entered, CallInv, ClosingInv, PausedInv, WeofInv, FinInv
<1>8. ASSUME NEW m \in {"close", "abort"}, Close(c, m) PROVE CallInv' /\ FinInv'
  <2>1. /\ Entered(m) /\ UNCHANGED <<apaused, aweof, closing, paused, weof>>
        /\ ~aclosing /\ aclosing'
    BY <1>1, <1>8 DEF Close, Methods
  <2>2. QED
    BY <1>2, <2>1 DEF Entered, CallInv, ClosingInv, PausedInv, WeofInv, FinInv
<1>9. QED
  BY <1>4, <1>5, <1>6, <1>7, <1>8 DEF Begin

\* The second half settles it.
LEMMA FinishKeepsAccount ==
  ASSUME GIL = TRUE, TypeInv, CallInv, FinInv, NEW c \in Callers, Finish(c)
  PROVE  CallInv' /\ FinInv'
<1> DEFINE Left(m) ==
      /\ OneCall'
      /\ \A methods \in {{"write"}, {"write_eof"}, {"pause"}, {"resume"}, {"close", "abort"}} :
           ~Busy(methods)' /\ (Busy(methods) <=> m \in methods)
<1>1. \A m \in Methods \ {"none"} : Leave(c, m) => Left(m)
  BY CallsOneByOne DEF CallInv, Methods
<1> HIDE DEF Left
<1>2. UNCHANGED <<flags, shutting, write_shutdown_done, writing>>
  BY DEF Finish, WritePush, WriteEofSet, PauseReadingSet, ResumeReadingSet, CloseSet,
     UnchangedByCalls, future
<1>4. CASE WritePush(c)
  <2>1. Left("write") /\ UNCHANGED <<closing, paused, weof>>
    BY <1>1, <1>4 DEF WritePush, Methods
  <2>2. CallInv'
    BY <1>2, <2>1 DEF Left, CallInv, ClosingInv, PausedInv, WeofInv, flags
  <2>3. ~aweof /\ ~weof /\ ~shutting /\ ~write_shutdown_done
    BY <2>1 DEF Left, CallInv, WeofInv, FinInv
  <2>4. QED
    BY <1>2, <2>2, <2>3 DEF FinInv, flags
<1>5. CASE WriteEofSet(c)
  <2>1. Left("write_eof") /\ UNCHANGED <<closing, paused, write_buf>> /\ weof'
    BY <1>1, <1>5 DEF WriteEofSet, Methods
  <2>2. QED
    BY <1>2, <2>1 DEF Left, CallInv, ClosingInv, PausedInv, WeofInv, FinInv, flags
<1>6. CASE PauseReadingSet(c)
  <2>1. Left("pause") /\ UNCHANGED <<closing, weof, write_buf>> /\ paused'
    BY <1>1, <1>6 DEF PauseReadingSet, Methods
  <2>2. QED
    BY <1>2, <2>1 DEF Left, CallInv, ClosingInv, PausedInv, WeofInv, FinInv, flags
<1>7. CASE ResumeReadingSet(c)
  <2>1. Left("resume") /\ UNCHANGED <<closing, weof, write_buf>> /\ ~paused'
    BY <1>1, <1>7 DEF ResumeReadingSet, Resumed, Methods
  <2>2. QED
    BY <1>2, <2>1 DEF Left, CallInv, ClosingInv, PausedInv, WeofInv, FinInv, flags
<1>8. ASSUME NEW m \in {"close", "abort"}, CloseSet(c, m) PROVE CallInv' /\ FinInv'
  <2>1. /\ Left(m) /\ UNCHANGED <<paused, weof>> /\ closing'
        /\ (write_buf' = write_buf \/ write_buf' = <<>>)
    BY <1>1, <1>8 DEF CloseSet, Methods
  <2>2. QED
    BY <1>2, <2>1 DEF Left, CallInv, ClosingInv, PausedInv, WeofInv, FinInv, flags
<1>9. QED
  BY <1>4, <1>5, <1>6, <1>7, <1>8 DEF Finish

\* The I/O task and the peer change no flag; write_all ends with the last
\* byte of its chunk, and FIN follows it.
LEMMA CallNext ==
  ASSUME GIL = TRUE, TypeInv, CallInv, FinInv, [Next]_vars
  PROVE  CallInv' /\ FinInv'
<1>1. ASSUME UNCHANGED <<call, flags, closing, paused, weof>> PROVE CallInv'
  BY <1>1 DEF CallInv, OneCall, ClosingInv, PausedInv, WeofInv, Busy, flags
<1>2. ASSUME UNCHANGED <<call, flags, weof, write_buf, write_shutdown_done>>,
             UNCHANGED <<writing, shutting>> \/ (writing' = <<>> /\ shutting' = FALSE)
      PROVE  FinInv'
  BY <1>2 DEF FinInv, Busy, flags
<1>3. ASSUME NEW bytes \in Seq(ByteNumbers), NEW shut \in BOOLEAN, WriteOn(bytes, shut),
             UNCHANGED <<call, flags, closing, paused, weof>>, shut => weof /\ write_buf' = <<>>,
             write_shutdown_done => weof /\ write_buf' = <<>> /\ bytes = <<>>
      PROVE  CallInv' /\ FinInv'
  <2> DEFINE room == SendBuf - (Len(wire) - drained)
             n == IF Len(bytes) <= room THEN Len(bytes) ELSE room
             ends == reset \/ n = Len(bytes)
  <2>1. room \in Nat /\ Len(<<>>) = 0
    BY TransportConstants DEF TypeInv, OutputType
  <2>2. bytes = <<>> => ends
    BY <2>1
  <2> HIDE DEF n
  <2>3. /\ (ends /\ writing' = <<>> /\ shutting' = FALSE) \/ (~ends /\ shutting' = shut)
        /\ write_shutdown_done' = (write_shutdown_done \/ (ends /\ shut))
    BY <1>3 DEF WriteOn, DropWrite, n
  <2> HIDE DEF ends
  <2>4. FinInv'
    <3>1. (aweof => ~Busy({"write"}))'
      BY <1>3 DEF FinInv, Busy, flags
    <3>2. shutting' => weof' /\ write_buf' = <<>>
      BY <1>3, <2>3
    <3>3. write_shutdown_done' => write_shutdown_done \/ (ends /\ shut)
      BY <2>3
    <3>4. write_shutdown_done' => weof' /\ write_buf' = <<>> /\ writing' = <<>>
      BY <1>3, <2>2, <2>3, <3>3
    <3>5. QED
      BY <3>1, <3>2, <3>4 DEF FinInv
  <2>5. QED
    BY <1>1, <1>3, <2>4
<1>4. CASE WritePoll
  <2>1. \A buf : ShutdownNow(buf) \in BOOLEAN
    BY DEF ShutdownNow
  <2>1a. <<>> \in Seq(ByteNumbers)
    OBVIOUS
  <2>2. UNCHANGED <<call, flags, closing, paused, weof>>
    BY <1>4 DEF WritePoll
  <2>3. CASE write_buf # <<>>
    <3>1. WriteOn(Chunk(TakeChunk[1]), ShutdownNow(write_buf')) /\ ~write_shutdown_done
      BY <1>4, <2>3 DEF WritePoll, FinInv
    <3>2. Chunk(TakeChunk[1]) \in Seq(ByteNumbers)
      BY <2>3, TakenChunk
    <3>3. QED
      BY <1>3, <2>1, <2>2, <3>1, <3>2 DEF ShutdownNow
  <2>4. CASE write_buf = <<>>
    <3>1. WriteOn(<<>>, ShutdownNow(write_buf)) /\ UNCHANGED write_buf
      BY <1>4, <2>4 DEF WritePoll
    <3>2. write_shutdown_done => weof
      BY DEF FinInv
    <3>3. QED
      BY <1>3, <2>1, <2>1a, <2>2, <2>4, <3>1, <3>2 DEF ShutdownNow
  <2>5. QED
    BY <2>3, <2>4
<1>5. CASE WriteResume
  <2>1. writing \in Seq(ByteNumbers) /\ shutting \in BOOLEAN
    BY DEF TypeInv, OutputType, FutureType
  <2>2. WriteOn(writing, shutting) /\ UNCHANGED <<call, flags, closing, paused, weof, write_buf>>
    BY <1>5 DEF WriteResume
  <2>3. QED
    BY <1>3, <2>1, <2>2 DEF FinInv
<1>6. CASE IoTask /\ ~WritePoll /\ ~WriteResume
  <2>1. /\ UNCHANGED <<call, flags, closing, paused, weof, write_buf, write_shutdown_done>>
        /\ UNCHANGED <<writing, shutting>> \/ (writing' = <<>> /\ shutting' = FALSE)
    BY <1>6 DEF IoTask, IoTop, ReadData, ReadEof, ReadError, SelectSleep, CallbackReturns, IoAfter,
       ConnectionLost, DropWrite, state, future
  <2>2. QED
    BY <1>1, <1>2, <2>1
<1>7. CASE Attach \/ ConnectionMadeReturns \/ Peer \/ UNCHANGED vars
  <2>1. UNCHANGED <<call, flags, closing, paused, weof, write_buf, write_shutdown_done, writing, shutting>>
    BY <1>7 DEF Attach, ConnectionMadeReturns, Peer, PeerSends, PeerShutsDown, PeerResets, PeerReads,
       vars, state, future
  <2>2. QED
    BY <1>1, <1>2, <2>1
<1>8. QED
  BY <1>4, <1>5, <1>6, <1>7, BeginKeepsAccount, FinishKeepsAccount DEF Next

\* In a build with a GIL, the account of the methods holds whatever they do.
LEMMA CallsAccounted == GIL = TRUE => (Spec => [](CallInv /\ FinInv))
<1> SUFFICES ASSUME GIL = TRUE PROVE Spec => [](CallInv /\ FinInv)
  OBVIOUS
<1>1. Init => CallInv /\ FinInv
  BY DEF Init, CallInv, OneCall, ClosingInv, PausedInv, WeofInv, FinInv, Busy
<1>2. TypeInv /\ CallInv /\ FinInv /\ [Next]_vars => CallInv' /\ FinInv'
  BY CallNext
<1>3. QED
  BY <1>1, <1>2, TypesInvariant, PTL DEF Spec

\* In a build with a GIL, whenever no method is in progress the atomic flags
\* that is_closing, is_reading and can_write_eof report and the state that the
\* I/O task obeys say the same.
THEOREM FlagsInStep == GIL = TRUE => (Spec => []FlagsAgree)
<1> SUFFICES ASSUME GIL = TRUE PROVE Spec => []FlagsAgree
  OBVIOUS
<1>1. TypeInv /\ CallInv => FlagsAgree
  BY DEF TypeInv, FlagType, CallInv, ClosingInv, PausedInv, WeofInv, Busy, FlagsAgree
<1>2. QED
  BY <1>1, TypesInvariant, CallsAccounted, PTL

\* In a build with a GIL, FIN is the last thing the transport sends: a write
\* that write_eof() let pass is on the wire before it, and no other follows.
THEOREM FinComesLast == GIL = TRUE => (Spec => []FinLast)
<1> SUFFICES ASSUME GIL = TRUE PROVE Spec => []FinLast
  OBVIOUS
<1>1. FinInv => FinLast
  BY DEF FinInv, FinLast
<1>2. QED
  BY <1>1, CallsAccounted, PTL
=============================================================================
