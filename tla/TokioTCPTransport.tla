-------------------------- MODULE TokioTCPTransport --------------------------
(***************************************************************************)
(* A TCP transport of TokioLoop: the task io_processing_loop, and the      *)
(* methods of the transport, which are called by two threads: the one of   *)
(* the loop task (connection_made too) and the one of the I/O task, inside *)
(* data_received and eof_received.                                         *)
(*                                                                         *)
(* The I/O task goes through the program points of pc:                     *)
(*   "none"    not spawned           "top"   head of the loop              *)
(*   "select"  inside select!        "data"  inside data_received          *)
(*   "eof"     inside eof_received   "after" about to test should_exit     *)
(*   "exit"    out of the loop       "lost"  connection_lost was called    *)
(*                                                                         *)
(* A method first changes an atomic flag of the transport and then, under  *)
(* the lock, the state that the I/O task reads.  With a GIL no other       *)
(* method runs between the two; in a free-threaded build one may.          *)
(*                                                                         *)
(* The bytes written are numbered: chunk k is (k-1)*ChunkLen+1..k*ChunkLen. *)
(***************************************************************************)
EXTENDS Integers, Sequences

CONSTANTS LoopThread, IoThread, \* the two threads that call methods
          GIL,        \* is there a global interpreter lock?
          ChunkLen,   \* bytes per call of write
          SendBuf,    \* size of the kernel's send buffer, in bytes
          MaxWrites,  \* bound: calls of write
          MaxIn       \* bound: chunks sent by the peer

ASSUME TransportConstants ==
  /\ GIL \in BOOLEAN /\ LoopThread # IoThread
  /\ ChunkLen \in Nat \ {0} /\ SendBuf \in Nat \ {0} /\ MaxWrites \in Nat /\ MaxIn \in Nat

VARIABLES
  pc, made,           \* made: "no", "calling" connection_made, "yes"
  call,               \* the method each thread is in the middle of
  aclosing, apaused, aweof,  \* the AtomicBools closing, paused and weof
  closing, paused, weof, read_eof, write_shutdown_done, write_buf, \* the locked state
  write_on,           \* precondition of the write branch, taken when select! began
  wstate,             \* future of the write branch: "idle", or "pending" in write_all
  writing, shutting,  \* what is left of the chunk it popped; should_shutdown_now
  inq, peer_eof, reset,      \* the peer: chunks to read, its EOF, a reset connection
  wire, drained, fin,        \* bytes accepted by the kernel, how many left it, FIN sent
  chunks, sentin, received, eofs \* counts: writes accepted, peer chunks, callbacks

flags == <<aclosing, apaused, aweof>>
state == <<closing, paused, weof, read_eof, write_shutdown_done, write_buf>>
future == <<write_on, wstate, writing, shutting>>
peer == <<inq, peer_eof, reset, sentin>>
out == <<wire, drained, fin>>
vars == <<pc, made, call, flags, state, future, peer, out, chunks, received, eofs>>

Callers == {LoopThread, IoThread}
Methods == {"none", "write", "write_eof", "pause", "resume", "close", "abort"}
Chunk(k) == [i \in 1..ChunkLen |-> (k - 1) * ChunkLen + i]

Init ==
  /\ pc = "none" /\ made = "no" /\ call = [c \in Callers |-> "none"]
  /\ aclosing = FALSE /\ apaused = FALSE /\ aweof = FALSE
  /\ closing = FALSE /\ paused = FALSE /\ weof = FALSE /\ read_eof = FALSE
  /\ write_shutdown_done = FALSE /\ write_buf = <<>>
  /\ write_on = FALSE /\ wstate = "idle" /\ writing = <<>> /\ shutting = FALSE
  /\ inq = 0 /\ peer_eof = FALSE /\ reset = FALSE /\ sentin = 0
  /\ wire = <<>> /\ drained = 0 /\ fin = FALSE
  /\ chunks = 0 /\ received = 0 /\ eofs = 0
-----------------------------------------------------------------------------
(***************************************************************************)
(* attach: the I/O task is spawned before connection_made is called.       *)
(***************************************************************************)
Attach ==
  /\ made = "no" /\ made' = "calling" /\ pc' = "top"
  /\ UNCHANGED <<call, flags, state, future, peer, out, chunks, received, eofs>>

ConnectionMadeReturns ==
  /\ made = "calling" /\ call[LoopThread] = "none" /\ made' = "yes"
  /\ UNCHANGED <<pc, call, flags, state, future, peer, out, chunks, received, eofs>>
-----------------------------------------------------------------------------
(***************************************************************************)
(* io_processing_loop.                                                     *)
(***************************************************************************)

\* mutation: a paused transport does not look at `closing`
ClosingSeenUnpaused == closing /\ ~paused
ClosingSeen == closing

WriteWanted == write_buf # <<>> \/ (weof /\ ~write_shutdown_done)

\* a paused transport sleeps and comes back here
IoTop ==
  /\ pc = "top"
  /\ \/ ClosingSeen /\ pc' = "exit" /\ UNCHANGED write_on
     \/ ~ClosingSeen /\ ~paused /\ pc' = "select" /\ write_on' = WriteWanted
  /\ UNCHANGED <<made, call, flags, state, wstate, writing, shutting, peer, out, chunks, received,
                 eofs>>

\* select! drops the futures of the branches that did not win
DropWrite == wstate' = "idle" /\ writing' = <<>> /\ shutting' = FALSE

\* write_all got as far as the send buffer allows; after the whole chunk,
\* shutdown if it was decided on.  Errors are logged and end the write.
WriteOn(bytes, shut) ==
  LET room == SendBuf - (Len(wire) - drained)
      n == IF Len(bytes) <= room THEN Len(bytes) ELSE room
      ends == reset \/ n = Len(bytes)
  IN /\ wire' = IF reset THEN wire ELSE wire \o SubSeq(bytes, 1, n)
     /\ \/ ends /\ pc' = "after" /\ DropWrite
        \/ /\ ~ends /\ pc' = pc /\ wstate' = "pending"
           /\ writing' = SubSeq(bytes, n + 1, Len(bytes)) /\ shutting' = shut
     /\ fin' = (fin \/ (ends /\ shut)) /\ drained' = drained
     /\ write_shutdown_done' = (write_shutdown_done \/ (ends /\ shut))

\* mutations: the last chunk goes first; shutdown does not wait for the buffer
TakeChunkLast == <<write_buf[Len(write_buf)], SubSeq(write_buf, 1, Len(write_buf) - 1)>>
TakeChunk == <<Head(write_buf), Tail(write_buf)>>
ShutdownEarly(buf) == weof /\ ~write_shutdown_done
ShutdownNow(buf) == weof /\ buf = <<>> /\ ~write_shutdown_done

\* the first poll of the write branch: pop under the lock, then write
WritePoll ==
  /\ pc = "select" /\ write_on /\ wstate = "idle"
  /\ \/ /\ write_buf # <<>> /\ write_buf' = TakeChunk[2]
        /\ WriteOn(Chunk(TakeChunk[1]), ShutdownNow(write_buf'))
     \/ /\ write_buf = <<>> /\ UNCHANGED write_buf
        /\ WriteOn(<<>>, ShutdownNow(write_buf))
  /\ UNCHANGED <<made, call, flags, closing, paused, weof, read_eof, write_on, peer, chunks, received,
                 eofs>>

\* the send buffer has room again
WriteResume ==
  /\ pc = "select" /\ wstate = "pending" /\ (Len(wire) - drained < SendBuf \/ reset)
  /\ WriteOn(writing, shutting)
  /\ UNCHANGED <<made, call, flags, closing, paused, weof, read_eof, write_buf, write_on, peer,
                 chunks, received, eofs>>

\* mutation: the socket is read again after its end
ReadOnAlways == pc = "select"
ReadOn == pc = "select" /\ ~read_eof

ReadData ==
  /\ ReadOn /\ inq > 0 /\ inq' = inq - 1
  /\ pc' = "data" /\ received' = received + 1 /\ DropWrite
  /\ UNCHANGED <<made, call, flags, state, write_on, peer_eof, reset, sentin, out, chunks, eofs>>

ReadEof ==
  /\ ReadOn /\ inq = 0 /\ peer_eof /\ ~reset
  /\ pc' = "eof" /\ read_eof' = TRUE /\ eofs' = eofs + 1 /\ DropWrite
  /\ UNCHANGED <<made, call, flags, closing, paused, weof, write_shutdown_done, write_buf, write_on,
                 peer, out, chunks, received>>

ReadError ==
  /\ ReadOn /\ reset /\ pc' = "exit" /\ DropWrite
  /\ UNCHANGED <<made, call, flags, state, write_on, peer, out, chunks, received, eofs>>

\* the sleep of a millisecond, once the write branch has been polled
SelectSleep ==
  /\ pc = "select" /\ (write_on => wstate = "pending") /\ pc' = "after" /\ DropWrite
  /\ UNCHANGED <<made, call, flags, state, write_on, peer, out, chunks, received, eofs>>

CallbackReturns ==
  /\ pc \in {"data", "eof"} /\ call[IoThread] = "none" /\ pc' = "after"
  /\ UNCHANGED <<made, call, flags, state, future, peer, out, chunks, received, eofs>>

\* mutation: only a transport that shut its own side down leaves
ShouldExitShutdown == read_eof /\ write_shutdown_done /\ write_buf = <<>>
ShouldExit == read_eof /\ write_buf = <<>>

IoAfter ==
  /\ pc = "after" /\ pc' = IF ShouldExit THEN "exit" ELSE "top"
  /\ UNCHANGED <<made, call, flags, state, future, peer, out, chunks, received, eofs>>

ConnectionLost ==
  /\ pc = "exit" /\ pc' = "lost"
  /\ UNCHANGED <<made, call, flags, state, future, peer, out, chunks, received, eofs>>
-----------------------------------------------------------------------------
(***************************************************************************)
(* The methods of the transport: the first half tests or swaps the atomic  *)
(* flag, the second changes the locked state.                              *)
(***************************************************************************)
InPython(c) ==
  /\ c = LoopThread => made # "no"
  /\ c = IoThread => pc \in {"data", "eof"}
  /\ call[c] = "none"
  /\ GIL => \A d \in Callers : call[d] = "none"

Enter(c, m) == InPython(c) /\ call' = [call EXCEPT ![c] = m]
Leave(c, m) == call[c] = m /\ call' = [call EXCEPT ![c] = "none"]
UnchangedByCalls == UNCHANGED <<pc, made, future, peer, out, read_eof, write_shutdown_done, received, eofs>>

\* the calls of write, those in progress too
InWrite(c) == IF call[c] = "write" THEN 1 ELSE 0
WritesBegun == chunks + InWrite(LoopThread) + InWrite(IoThread)

\* write raises after write_eof; it does not look at `closing`
Write(c) ==
  /\ ~aweof /\ WritesBegun < MaxWrites /\ Enter(c, "write")
  /\ UNCHANGED <<flags, closing, paused, weof, write_buf, chunks>> /\ UnchangedByCalls

WritePush(c) ==
  /\ Leave(c, "write")
  /\ chunks' = chunks + 1 /\ write_buf' = Append(write_buf, chunks + 1)
  /\ UNCHANGED <<flags, closing, paused, weof>> /\ UnchangedByCalls

WriteEof(c) ==
  /\ ~aclosing /\ ~aweof /\ aweof' = TRUE /\ Enter(c, "write_eof")
  /\ UNCHANGED <<aclosing, apaused, closing, paused, weof, write_buf, chunks>> /\ UnchangedByCalls

WriteEofSet(c) ==
  /\ Leave(c, "write_eof") /\ weof' = TRUE
  /\ UNCHANGED <<flags, closing, paused, write_buf, chunks>> /\ UnchangedByCalls

PauseReading(c) ==
  /\ ~aclosing /\ ~apaused /\ apaused' = TRUE /\ Enter(c, "pause")
  /\ UNCHANGED <<aclosing, aweof, closing, paused, weof, write_buf, chunks>> /\ UnchangedByCalls

PauseReadingSet(c) ==
  /\ Leave(c, "pause") /\ paused' = TRUE
  /\ UNCHANGED <<flags, closing, weof, write_buf, chunks>> /\ UnchangedByCalls

ResumeReading(c) ==
  /\ ~aclosing /\ apaused /\ apaused' = FALSE /\ Enter(c, "resume")
  /\ UNCHANGED <<aclosing, aweof, closing, paused, weof, write_buf, chunks>> /\ UnchangedByCalls

\* mutation: the locked state is not reset
ResumedKept == paused
Resumed == FALSE

ResumeReadingSet(c) ==
  /\ Leave(c, "resume") /\ paused' = Resumed
  /\ UNCHANGED <<flags, closing, weof, write_buf, chunks>> /\ UnchangedByCalls

\* close and abort, when they are the first of them
Close(c, m) ==
  /\ m \in {"close", "abort"} /\ ~aclosing /\ aclosing' = TRUE /\ Enter(c, m)
  /\ UNCHANGED <<apaused, aweof, closing, paused, weof, write_buf, chunks>> /\ UnchangedByCalls

CloseSet(c, m) ==
  /\ m \in {"close", "abort"} /\ Leave(c, m) /\ closing' = TRUE
  /\ write_buf' = IF m = "abort" THEN <<>> ELSE write_buf
  /\ UNCHANGED <<flags, paused, weof, chunks>> /\ UnchangedByCalls
-----------------------------------------------------------------------------
(***************************************************************************)
(* The peer and the kernel.                                                *)
(***************************************************************************)
PeerSends ==
  /\ ~peer_eof /\ ~reset /\ sentin < MaxIn /\ sentin' = sentin + 1 /\ inq' = inq + 1
  /\ UNCHANGED <<pc, made, call, flags, state, future, peer_eof, reset, out, chunks, received, eofs>>

PeerShutsDown ==
  /\ ~peer_eof /\ ~reset /\ peer_eof' = TRUE
  /\ UNCHANGED <<pc, made, call, flags, state, future, inq, reset, sentin, out, chunks, received, eofs>>

PeerResets ==
  /\ ~reset /\ reset' = TRUE
  /\ UNCHANGED <<pc, made, call, flags, state, future, inq, peer_eof, sentin, out, chunks, received,
                 eofs>>

PeerReads ==
  /\ drained < Len(wire) /\ ~reset /\ drained' = drained + 1
  /\ UNCHANGED <<pc, made, call, flags, state, future, peer, wire, fin, chunks, received, eofs>>
-----------------------------------------------------------------------------
IoTask ==
  \/ IoTop \/ WritePoll \/ WriteResume \/ ReadData \/ ReadEof \/ ReadError \/ SelectSleep
  \/ CallbackReturns \/ IoAfter \/ ConnectionLost

Finish(c) ==
  \/ WritePush(c) \/ WriteEofSet(c) \/ PauseReadingSet(c) \/ ResumeReadingSet(c)
  \/ CloseSet(c, "close") \/ CloseSet(c, "abort")

Begin(c) ==
  \/ Write(c) \/ WriteEof(c) \/ PauseReading(c) \/ ResumeReading(c)
  \/ Close(c, "close") \/ Close(c, "abort")

Peer == PeerSends \/ PeerShutsDown \/ PeerResets \/ PeerReads

Next ==
  \/ Attach \/ ConnectionMadeReturns \/ IoTask \/ Peer
  \/ \E c \in Callers : Begin(c) \/ Finish(c)

\* tokio runs a task that is ready; callbacks and methods return; a branch
\* of select! that is ready again and again is taken, as it begins at random
Fairness ==
  /\ WF_vars(IoTask) /\ WF_vars(ConnectionMadeReturns)
  /\ SF_vars(WritePoll)
  /\ \A c \in Callers : WF_vars(Finish(c))

Spec == Init /\ [][Next]_vars /\ Fairness
-----------------------------------------------------------------------------
(***************************************************************************)
(* Properties.                                                             *)
(***************************************************************************)

\* The state has its type.
TypeOK ==
  /\ pc \in {"none", "top", "select", "data", "eof", "after", "exit", "lost"}
  /\ made \in {"no", "calling", "yes"} /\ call \in [Callers -> Methods]
  /\ {aclosing, apaused, aweof, closing, paused, weof, read_eof, write_shutdown_done, write_on,
      shutting, peer_eof, reset, fin} \subseteq BOOLEAN
  /\ write_buf \in Seq(1..MaxWrites) /\ wstate \in {"idle", "pending"}
  /\ writing \in Seq(1..MaxWrites * ChunkLen) /\ wire \in Seq(1..MaxWrites * ChunkLen)
  /\ inq \in 0..MaxIn /\ sentin \in 0..MaxIn /\ received \in 0..MaxIn
  /\ drained \in 0..Len(wire) /\ chunks \in 0..MaxWrites /\ eofs \in 0..1

\* The bytes that reach the wire are in the order in which they were written,
\* none twice.
WireOrdered == \A i, j \in DOMAIN wire : i < j => wire[i] < wire[j]

\* FIN is the last thing the transport sends: once it is sent, nothing waits
\* in the buffer, and nothing can enter it any more.
FinLast == write_shutdown_done => write_buf = <<>> /\ writing = <<>>

\* Whenever no method is in progress, the atomic flags, which is_reading,
\* is_closing and can_write_eof report, and the state that the I/O task obeys
\* say the same.
FlagsAgree ==
  (\A c \in Callers : call[c] = "none") =>
    aclosing = closing /\ apaused = paused /\ aweof = weof

\* The I/O task calls the protocol as a stream transport has to.
Protocol ==
  INSTANCE StreamProtocol
    WITH state <- IF pc = "lost" THEN "CLOSED" ELSE IF read_eof THEN "EOF" ELSE "CONNECTED",
         lost <- IF pc = "lost" THEN 1 ELSE 0
CallbackOrder == Protocol!Spec

\* close() and abort() lead to connection_lost, in a paused transport too.
CloseEnds == aclosing ~> (pc = "lost")

\* After the EOF of the peer the connection ends, unless reading is paused.
EofEnds == read_eof ~> (pc = "lost" \/ apaused)

\* What the peer reads is what was written, as the echo test asserts: before
\* the transport is closed, and without an error, no byte is left out.
WireFaithful == ~aclosing /\ ~reset => \A i \in DOMAIN wire : wire[i] = i
=============================================================================
