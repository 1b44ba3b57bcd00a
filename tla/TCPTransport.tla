----------------------------- MODULE TCPTransport -----------------------------
(***************************************************************************)
(* A TCP transport of RLoop, plain or TLS, accepted or connected: the      *)
(* methods of TCPTransport, the read and write handles, the registration   *)
(* of its descriptor with the edge-triggered poller.  All of it runs on    *)
(* the thread of the loop; what interleaves are the callbacks of a batch,  *)
(* the methods that protocol callbacks call, the kernel and the peer.      *)
(*                                                                         *)
(* pc is where the loop is:                                                *)
(*   "idle"     between handles: any callback of the batch may run         *)
(*   "reading"  TCPReadHandle is about to read the socket                  *)
(*   "data"     inside data_received; "dataeof" with an EOF read as well   *)
(*   "eof"      inside eof_received     "resume"  inside resume_writing    *)
(*   "wrote", "failed"  TCPWriteHandle, after its write                    *)
(*   "aborted"  a panic ended the process, or left run_forever             *)
(*                                                                         *)
(* Output is a sequence of bytes, numbered as they are written; 0 stands   *)
(* for a flight of the TLS handshake and -1 for an alert.  With TLS each   *)
(* of them is a record.  Input is a sequence of "data", "hs" and "alert".  *)
(***************************************************************************)
EXTENDS Integers, Sequences, FiniteSets

CONSTANTS Roles,      \* subset of {"accepted", "connected"}
          TLS,        \* subset of BOOLEAN: plain connections, TLS connections
          Buffered,   \* subset of BOOLEAN: may the protocol be a BufferedProtocol?
          ChunkLen,   \* bytes per call of write
          SendBuf,    \* size of the kernel's send buffer
          Marks,      \* arguments of set_write_buffer_limits
          HighWater,  \* the default high mark (64 KiB in the code)
          TlsLimit,   \* what rustls holds of the output (64 KiB)
          TlsChunks,  \* records that one write_tls hands out (64)
          MaxWrites, MaxIn, MaxLost, MaxEofs \* bounds: writes, input, repeated callbacks

ASSUME TCPConstants ==
  /\ Roles \subseteq {"accepted", "connected"} /\ Roles # {}
  /\ TLS \subseteq BOOLEAN /\ TLS # {} /\ Buffered \subseteq BOOLEAN /\ Buffered # {}
  /\ Marks \subseteq Nat /\ HighWater \in Nat
  /\ {ChunkLen, SendBuf, TlsLimit, TlsChunks} \subseteq Nat \ {0}
  /\ MaxWrites \in Nat /\ MaxIn \in Nat /\ MaxLost \in Nat /\ MaxEofs \in Nat

VARIABLES
  role, tls,   \* how the connection came to be, and has it a tls_conn?
  t,           \* the fields of TCPTransport and TCPTransportState
  io,          \* entry of handles_io ({} for none), on the poller's ready list?
  bound,       \* is it in tcp_transports?
  queued,      \* handle the last poll put in the batch: "none", "read", "write"
  pc,
  net,         \* the kernel and the peer
  proto        \* calls of the protocol so far

vars == <<role, tls, t, io, bound, queued, pc, net, proto>>

R == {"READABLE"}
W == {"WRITABLE"}
Flights == 2   \* flights of the peer in a TLS 1.2 handshake
Min2(a, b) == IF a <= b THEN a ELSE b
Bytes(k) == [i \in 1..ChunkLen |-> (k - 1) * ChunkLen + i]
Count(s, x) == Cardinality({i \in DOMAIN s : s[i] = x})
-----------------------------------------------------------------------------
(***************************************************************************)
(* The kernel: a reset makes one call fail, later reads find the end.      *)
(***************************************************************************)
ReadEnds(n) == n.peer_eof \/ n.reset = "seen"
WriteFails(n) == n.reset # "no" \/ n.fin
Accepted(n, bytes) == IF WriteFails(n) THEN 0
                      ELSE Min2(Len(bytes), SendBuf - (Len(n.wire) - n.drained))
Send(n, bytes, k) == [n EXCEPT !.wire = @ \o SubSeq(bytes, 1, k),
                               !.reset = IF @ = "no" THEN @ ELSE "seen"]

Readable(n) == n.inq # <<>> \/ n.peer_eof \/ n.reset # "no"
Writable(n) == n.reset # "no" \/ n.fin \/ Len(n.wire) - n.drained < SendBuf
Ready(n, interest) == (R \subseteq interest /\ Readable(n)) \/ (W \subseteq interest /\ Writable(n))

(***************************************************************************)
(* tcp_stream_add, tcp_stream_rem: to register or to change the interest   *)
(* puts a descriptor that is ready on the ready list again.                *)
(***************************************************************************)
Registered(n, s, interest) ==
  [interest |-> interest, armed |-> interest # {} /\ (s.armed \/ Ready(n, interest))]

\* mutation: an interest is only removed with its entry
RemWhole(n, s, i) == IF s.interest = i THEN Registered(n, s, {}) ELSE s
tcp_stream_add(n, s, i) == IF s.interest = i THEN s ELSE Registered(n, s, s.interest \cup i)
tcp_stream_rem(n, s, i) == IF s.interest = {} THEN s ELSE Registered(n, s, s.interest \ i)

\* connection_lost is called, tcp_stream_close drops the transport
Lost(p) == [p EXCEPT !.lost = @ + 1]
Drop == bound' = FALSE
SetClosing(tt) == [tt EXCEPT !.closing = TRUE]

NewTransport ==
  [closing |-> FALSE, paused |-> FALSE, weof |-> FALSE, proto_paused |-> FALSE,
   write_buf |-> <<>>, write_buf_dsize |-> 0, water_lo |-> HighWater \div 4, water_hi |-> HighWater,
   handshake_complete |-> FALSE, tls_out |-> <<>>, tls_close_sent |-> FALSE,
   tls_pending_close |-> FALSE, proto_buffered |-> FALSE,
   \* histories: calls of write; has rustls missed input that was read, was it
   \* at a limit?
   written |-> 0, tls_missed |-> FALSE, tls_full |-> FALSE]

NewNet ==
  [inq |-> <<>>, peer_eof |-> FALSE, reset |-> "no", wire |-> <<>>, drained |-> 0, fin |-> FALSE,
   sent |-> 0, hs |-> 0, alert |-> FALSE]

\* initialize_tls_client: a client begins the handshake
FirstFlight == IF tls /\ role = "connected" THEN <<0>> ELSE <<>>

\* with TLS connection_made waits for the handshake; new_stream puts it in the
\* batch, attach calls it
FirstCall == CASE tls -> "no" [] ~tls /\ role = "accepted" -> "queued" [] OTHER -> "calling"

\* an accepted connection (handle_io_tcpl) is bound and registered at once,
\* _tcp_conn does so when attach has returned
Init ==
  /\ role \in Roles /\ tls \in TLS
  /\ net = NewNet /\ pc = "idle" /\ queued = "none"
  /\ \E b \in Buffered : t = [NewTransport EXCEPT !.tls_out = FirstFlight, !.proto_buffered = b]
  /\ proto = [made |-> FirstCall, received |-> 0, eofs |-> 0, lost |-> 0]
  /\ bound = (proto.made # "calling")
  /\ io = IF ~bound THEN [interest |-> {}, armed |-> FALSE]
          ELSE IF role = "connected" THEN [interest |-> R \cup W, armed |-> TRUE]
          ELSE [interest |-> R, armed |-> FALSE]

\* the end of _tcp_conn, once connection_made returned
Bind ==
  /\ pc = "idle" /\ proto.made = "calling" /\ proto' = [proto EXCEPT !.made = "yes"]
  /\ bound' = TRUE /\ io' = tcp_stream_add(net, io, R)
  /\ UNCHANGED <<role, tls, t, queued, pc, net>>

\* the handle of connection_made comes before the handles of later polls
ConnectionMade ==
  /\ pc = "idle" /\ proto.made = "queued" /\ proto' = [proto EXCEPT !.made = "yes"]
  /\ UNCHANGED <<role, tls, t, io, bound, queued, pc, net>>
-----------------------------------------------------------------------------
(***************************************************************************)
(* The poller and the batch.                                               *)
(***************************************************************************)

CanRead(interest) == R \subseteq interest /\ Readable(net)
CanWrite(interest) == W \subseteq interest /\ Writable(net)

\* mutation: writable is looked at first.  The second of the two is dropped
HandleWriteFirst(interest) ==
  IF CanWrite(interest) THEN "write" ELSE IF CanRead(interest) THEN "read" ELSE "none"
handle_io_tcps(interest) ==
  IF CanRead(interest) THEN "read" ELSE IF CanWrite(interest) THEN "write" ELSE "none"

Poll ==
  /\ pc = "idle" /\ queued = "none" /\ proto.made # "calling" /\ io.armed
  /\ io' = [io EXCEPT !.armed = FALSE] /\ queued' = handle_io_tcps(io.interest)
  /\ UNCHANGED <<role, tls, t, bound, pc, net, proto>>

Turn(kind) == pc = "idle" /\ proto.made # "queued" /\ queued = kind /\ queued' = "none"

\* a handle whose transport was dropped returns
HandleDropped ==
  /\ ~bound /\ (Turn("read") \/ Turn("write"))
  /\ UNCHANGED <<role, tls, t, io, bound, pc, net, proto>>

(***************************************************************************)
(* TCPReadHandle.                                                          *)
(***************************************************************************)
ReadHandle ==
  /\ bound /\ Turn("read") /\ pc' = "reading"
  /\ UNCHANGED <<role, tls, t, io, bound, net, proto>>

\* recv_eof, up to the call of eof_received
CallEofReceived(p) ==
  /\ pc' = "eof" /\ proto' = [p EXCEPT !.eofs = @ + 1]
  /\ io' = tcp_stream_rem(net', io, R)

\* read_into: until the buffer is full, the end, or an error, which ends the
\* loop as EWOULDBLOCK does
Reads(k, full) == IF full THEN k > 0 ELSE k = Len(net.inq)
Read(k, full) ==
  LET rest == SubSeq(net.inq, k + 1, Len(net.inq))
      fails == ~full /\ net.reset = "pending" /\ ~net.peer_eof
  IN [net EXCEPT !.inq = rest, !.reset = IF fails THEN "seen" ELSE @]

\* mutation: one read per event
NextReadOnce == "idle"
NextRead == "reading"

\* mutation: a full buffer hides that there is more
EofSeenFull(full) == ReadEnds(net)
EofSeen(full) == ~full /\ ReadEnds(net)

\* recv_direct without TLS; recv_buffered, which gives a BufferedProtocol the
\* bytes of the socket, and rustls none, although the connection has TLS
Raw == ~tls \/ t.proto_buffered
RecvPlain ==
  /\ pc = "reading" /\ Raw
  /\ \E k \in 0..Len(net.inq), full \in BOOLEAN :
       /\ Reads(k, full) /\ net' = Read(k, full)
       /\ LET eof == EofSeen(full)
              p == [proto EXCEPT !.received = @ + IF tls THEN 0 ELSE k]
          IN \/ k > 0 /\ pc' = (IF eof THEN "dataeof" ELSE "data") /\ proto' = p /\ UNCHANGED io
             \/ k = 0 /\ eof /\ CallEofReceived(p)
             \/ k = 0 /\ ~eof /\ pc' = "idle" /\ UNCHANGED <<proto, io>>
  /\ UNCHANGED <<role, tls, t, bound, queued>>

\* mutation: only an established connection asks for what rustls has to send
WantsWriteLate(out) == net.inq # <<>> /\ out # <<>> /\ t.handshake_complete
WantsWrite(out) == net.inq # <<>> /\ out # <<>>

\* read_tls is called once and takes some 4 KiB, the rest of what was read is
\* dropped; a full buffer is more than it takes.  Behind a gap rustls finds no
\* record, or an error
ReadTls(k, m, full) == (full => m < k) /\ (t.tls_missed => m = 0)

\* recv_direct with TLS: after an alert (or a TLS error) what was decrypted
\* before it is not looked at, and the end of the socket is not seen at all
RecvTLS ==
  /\ pc = "reading" /\ ~Raw
  /\ \E k \in 0..Len(net.inq), full, error \in BOOLEAN : \E m \in 0..k :
       /\ Reads(k, full) /\ ReadTls(k, m, full) /\ net' = Read(k, full)
       /\ error => t.tls_missed /\ k > 0
       /\ LET got == SubSeq(net.inq, 1, m)
              hs == Count(got, "hs")
              d == Count(got, "data")
              complete == net.hs = Flights /\ m > 0 /\ hs = Count(net.inq, "hs")
              reply == [i \in 1..(IF complete /\ role = "connected" THEN 0 ELSE hs) |-> 0]
              ends == error \/ Count(got, "alert") > 0
              out == t.tls_out \o (IF ends THEN <<-1>> ELSE reply)
              done == complete /\ ~t.handshake_complete
              tt == [t EXCEPT !.tls_out = out, !.tls_missed = @ \/ m < k]
              p == [proto EXCEPT !.made = IF done THEN "queued" ELSE @, !.received = @ + d]
          IN \/ ends /\ t' = tt /\ CallEofReceived(proto)
             \/ /\ ~ends /\ t' = [tt EXCEPT !.handshake_complete = @ \/ done]
                /\ LET s == IF WantsWrite(out) THEN tcp_stream_add(net', io, W) ELSE io
                   IN \/ d > 0 /\ pc' = "data" /\ proto' = p /\ io' = s
                      \/ /\ d = 0 /\ t.tls_close_sent /\ pc' = "eof"
                         /\ proto' = [p EXCEPT !.eofs = @ + 1] /\ io' = tcp_stream_rem(net', s, R)
                      \/ d = 0 /\ ~t.tls_close_sent /\ pc' = "idle" /\ proto' = p /\ io' = s
  /\ UNCHANGED <<role, tls, bound, queued>>

\* the loop goes on whatever data_received did to the transport
DataReturns ==
  /\ UNCHANGED <<role, tls, t, bound, queued, net>>
  /\ \/ pc = "data" /\ pc' = NextRead /\ UNCHANGED <<io, proto>>
     \/ pc = "dataeof" /\ CallEofReceived(proto)

\* close_from_read_handle: the close() it calls for TLS finds `closing` set and
\* returns
CloseFromRead ==
  \/ t.closing /\ UNCHANGED <<t, io, bound, proto>>
  \/ /\ ~t.closing /\ t' = SetClosing(t)
     /\ \/ tls /\ Drop /\ UNCHANGED <<io, proto>>
        \/ ~tls /\ t.write_buf # <<>> /\ UNCHANGED <<io, bound, proto>>
        \/ /\ ~tls /\ t.write_buf = <<>> /\ proto' = Lost(proto) /\ Drop
           /\ io' = tcp_stream_rem(net, io, W)

\* the rest of recv_eof, and of the handle
EofReturns ==
  /\ pc = "eof" /\ pc' = "idle"
  /\ LET waits == tls /\ t.tls_close_sent
     IN \/ UNCHANGED <<t, io, bound, proto>> \* eof_received returned true
        \/ waits /\ proto' = Lost(proto) /\ Drop /\ UNCHANGED <<t, io>>
        \/ ~waits /\ CloseFromRead
  /\ UNCHANGED <<role, tls, queued, net>>

(***************************************************************************)
(* TCPWriteHandle.                                                         *)
(***************************************************************************)

\* mutations: what the kernel did not take goes behind the rest; the size goes
\* down twice by what was written
RestLast(buf, n) == IF n = Len(buf) THEN <<>> ELSE SubSeq(buf, n + 2, Len(buf)) \o <<buf[n + 1]>>
Rest(buf, n) == SubSeq(buf, n + 1, Len(buf))
SizeLeftTwice(size, buf, n) == size - 2 * n
SizeLeft(size, buf, n) == size - n

\* mutation: the protocol is resumed strictly below the low mark
ResumesBelow(size, lo) == size < lo
Resumes(size, lo) == size <= lo

\* written bytes (ret) bring the buffer down: write_buf_size_decr
Written(tt, ret) ==
  LET resume == ret > 0 /\ Resumes(tt.write_buf_dsize, tt.water_lo) /\ tt.proto_paused
  IN /\ t' = [tt EXCEPT !.proto_paused = @ /\ ~resume]
     /\ pc' = IF resume THEN "resume" ELSE "wrote"

WritePlain ==
  LET n == Accepted(net, t.write_buf)
      fails == t.write_buf # <<>> /\ WriteFails(net)
  IN /\ net' = IF t.write_buf = <<>> THEN net ELSE Send(net, t.write_buf, n)
     /\ \/ fails /\ pc' = "failed" /\ t' = [t EXCEPT !.write_buf = <<>>, !.write_buf_dsize = 0]
        \/ ~fails /\ Written([t EXCEPT !.write_buf = Rest(@, n), !.write_buf_dsize = SizeLeft(@, t.write_buf, n)],
                             n)

\* write_tls hands out so many records, rustls holds so many
Handed(out) == SubSeq(out, 1, Min2(Len(out), TlsChunks))
Kept(out) == Rest(out, Min2(Len(out), TlsChunks))
Room(out) == IF Len(out) < TlsLimit THEN TlsLimit - Len(out) ELSE 0

\* one write of the records handed out: those that the kernel does not take
\* are gone, a partial write of them is a failure
Sent(n, b) == IF b = <<>> THEN n ELSE Send(n, b, Accepted(n, b))
Failed(n, b) == b # <<>> /\ (WriteFails(n) \/ Accepted(n, b) \in 1..(Len(b) - 1))

\* the bytes of the chunks that fit
Whole(fits) == fits - (fits % ChunkLen)

\* first what rustls holds, then the buffer encrypted chunk by chunk.  A chunk
\* for which rustls has no room fails the write: it stays whole at the head of
\* the buffer, its first bytes in rustls
WriteTLS ==
  LET b1 == Handed(t.tls_out)
      kept == Kept(t.tls_out)
      net1 == Sent(net, b1)
      encrypts == t.handshake_complete /\ Accepted(net, b1) = Len(b1)
      plain == IF encrypts THEN t.write_buf ELSE <<>>
      fits == Min2(Len(plain), Room(kept))
      refused == fits < Len(plain)
      n == IF refused THEN Whole(fits) ELSE fits
      out == kept \o SubSeq(plain, 1, fits)
      again == encrypts /\ ~refused
      b2 == IF again THEN Handed(out) ELSE <<>>
      rest == IF again THEN Kept(out) ELSE out
      fails == Failed(net, b1) \/ refused \/ Failed(net1, b2)
      tt == [t EXCEPT !.tls_out = rest, !.write_buf = Rest(@, n), !.write_buf_dsize = @ - n,
                      !.tls_full = @ \/ refused \/ kept # <<>> \/ rest # <<>>]
  IN /\ net' = Sent(net1, b2)
     /\ \/ fails /\ pc' = "failed" /\ t' = tt
        \/ ~fails /\ Written(tt, n)

WriteHandle ==
  /\ bound /\ Turn("write") /\ ((~tls /\ WritePlain) \/ (tls /\ WriteTLS))
  /\ UNCHANGED <<role, tls, io, bound, proto>>

\* the peer did not answer the close alert in ssl_close_timeout
CloseTimeout ==
  /\ bound /\ Turn("write") /\ tls /\ t.tls_close_sent
  /\ io' = tcp_stream_rem(net, tcp_stream_rem(net, io, R), W)
  /\ proto' = Lost(proto) /\ Drop
  /\ UNCHANGED <<role, tls, t, pc, net>>

ResumeReturns ==
  /\ pc = "resume" /\ pc' = "wrote"
  /\ UNCHANGED <<role, tls, t, io, bound, queued, net, proto>>

\* the alert goes out behind what rustls holds, as far as one write_tls and the
\* kernel take it
Alert(tt) ==
  LET kept == Kept(Append(tt.tls_out, -1))
  IN [tt EXCEPT !.tls_close_sent = TRUE, !.tls_pending_close = FALSE, !.tls_out = kept,
                !.tls_full = @ \/ kept # <<>>]
SendAlert == net' = Sent(net, Handed(Append(t.tls_out, -1)))

\* mutation: shutdown does not wait for the buffer
BufferSentEarly == pc = "failed" \/ t.weof \/ t.write_buf = <<>>
BufferSent == pc = "failed" \/ t.write_buf = <<>>

\* mutation: a half-closed transport is not closed
ClosesOpen == t.closing /\ ~t.weof
Closes == t.closing

\* the rest of run, and close_from_write_handle: a failed write of a
\* transport that is not closing closes nothing
WriteHandleEnds ==
  /\ pc \in {"wrote", "failed"} /\ pc' = "idle"
  /\ io' = IF t.write_buf = <<>> THEN tcp_stream_rem(net, io, W) ELSE io
  /\ LET pending == pc = "wrote" /\ t.tls_pending_close
     IN \/ ~BufferSent /\ UNCHANGED <<t, bound, net, proto>>
        \/ BufferSent /\ pending /\ SendAlert /\ t' = Alert(t) /\ Drop /\ UNCHANGED proto
        \/ BufferSent /\ ~pending /\ Closes /\ proto' = Lost(proto) /\ Drop /\ UNCHANGED <<t, net>>
        \/ /\ BufferSent /\ ~pending /\ ~Closes
           /\ net' = [net EXCEPT !.fin = @ \/ t.weof] /\ UNCHANGED <<t, bound, proto>>
  /\ UNCHANGED <<role, tls, queued>>
-----------------------------------------------------------------------------
(***************************************************************************)
(* The methods, called by any callback that has the transport: not from    *)
(* inside pause_writing, where the state is borrowed.  create_connection   *)
(* returns a TLS transport before the handshake; a server closes and       *)
(* aborts the connections it accepted.                                     *)
(***************************************************************************)
InPython == pc \in {"idle", "data", "dataeof", "eof", "resume"}
HasTransport == proto.made \in {"calling", "yes"} \/ (tls /\ role = "connected")
App == InPython /\ HasTransport
AppOrServer == App \/ (pc = "idle" /\ role = "accepted")

\* mutation: WRITABLE is asked for when the buffer was not empty
RegistersLater(rest) == rest # <<>> /\ t.write_buf_dsize > 0
Registers(rest) == rest # <<>> /\ t.write_buf_dsize = 0

\* try_write, write and writelines: `closing` is not looked at.  n = 0 is
\* EWOULDBLOCK or EINTR
Write ==
  /\ App /\ ~t.weof /\ t.written < MaxWrites
  /\ LET bytes == Bytes(t.written + 1)
         direct == ~tls /\ t.write_buf_dsize = 0
     IN \E n \in {0} \cup (IF direct THEN {Accepted(net, bytes)} ELSE {}) :
          LET rest == Rest(bytes, n)
              size == t.write_buf_dsize + Len(rest)
          IN /\ direct => ~WriteFails(net)
             /\ net' = IF direct THEN Send(net, bytes, n) ELSE net
             /\ io' = IF Registers(rest) THEN tcp_stream_add(net', io, W) ELSE io
             /\ t' = [t EXCEPT !.write_buf = @ \o rest, !.write_buf_dsize = size,
                               !.written = @ + 1,
                               !.proto_paused = @ \/ (rest # <<>> /\ size > t.water_hi)]
  /\ UNCHANGED <<role, tls, bound, queued, pc, proto>>

\* a direct write fails: connection_lost is called and the transport dropped
\* with its state still borrowed, so tcp_stream_close panics at is_tls() if it
\* found the transport.  That ends a release build; otherwise it leaves
\* run_forever as a PanicException, unless a task or the protocol catches it
WriteError ==
  /\ App /\ ~t.weof /\ t.written < MaxWrites /\ ~tls /\ t.write_buf_dsize = 0 /\ WriteFails(net)
  /\ net' = Send(net, <<>>, 0)
  /\ t' = [SetClosing(t) EXCEPT !.written = @ + 1]
  /\ io' = IF t.closing THEN io ELSE tcp_stream_rem(net', io, R)
  /\ proto' = Lost(proto) /\ Drop
  /\ pc' = pc \/ (bound /\ pc' = "aborted")
  /\ UNCHANGED <<role, tls, queued>>

WriteEof ==
  /\ App /\ ~t.closing /\ ~t.weof /\ t' = [t EXCEPT !.weof = TRUE]
  /\ net' = [net EXCEPT !.fin = @ \/ t.write_buf_dsize = 0]
  /\ UNCHANGED <<role, tls, io, bound, queued, pc, proto>>

Close ==
  /\ AppOrServer /\ ~t.closing
  /\ LET tt == SetClosing(t)
         s == tcp_stream_rem(net, io, R)
     IN \/ /\ tls /\ t.write_buf # <<>> /\ t' = [tt EXCEPT !.tls_pending_close = TRUE]
           /\ UNCHANGED <<io, bound, net, proto>>
        \/ /\ tls /\ t.write_buf = <<>> /\ SendAlert /\ t' = Alert(tt)
           /\ io' = tcp_stream_rem(net', io, W) /\ UNCHANGED <<bound, proto>>
        \/ /\ ~tls /\ t.write_buf_dsize = 0 /\ t' = tt /\ UNCHANGED net
           /\ io' = tcp_stream_rem(net, s, W) /\ proto' = Lost(proto) /\ Drop
        \/ ~tls /\ t.write_buf_dsize > 0 /\ t' = tt /\ io' = s /\ UNCHANGED <<bound, net, proto>>
  /\ UNCHANGED <<role, tls, queued, pc>>

\* connection_lost is called each time
Abort ==
  /\ AppOrServer /\ proto.lost < MaxLost
  /\ LET s == IF t.write_buf_dsize > 0 THEN tcp_stream_rem(net, io, W) ELSE io
     IN io' = IF t.closing THEN s ELSE tcp_stream_rem(net, s, R)
  /\ t' = SetClosing(t) /\ proto' = Lost(proto) /\ Drop
  /\ UNCHANGED <<role, tls, queued, pc, net>>

PauseReading ==
  /\ App /\ ~t.closing /\ ~t.paused /\ t' = [t EXCEPT !.paused = TRUE]
  /\ io' = tcp_stream_rem(net, io, R)
  /\ UNCHANGED <<role, tls, bound, queued, pc, net, proto>>

ResumeReading ==
  /\ App /\ ~t.closing /\ t.paused /\ proto.eofs < MaxEofs /\ t' = [t EXCEPT !.paused = FALSE]
  /\ io' = tcp_stream_add(net, io, R)
  /\ UNCHANGED <<role, tls, bound, queued, pc, net, proto>>

\* an absent argument is derived from the other, or is the default
SetWriteBufferLimits ==
  /\ App
  /\ \E high, low \in Marks \cup {-1} :
       LET hi == CASE high >= 0 -> high [] high < 0 /\ low >= 0 -> low * 4 [] OTHER -> HighWater
           lo == IF low >= 0 THEN low ELSE hi \div 4
       IN /\ hi >= lo
          /\ t' = [t EXCEPT !.water_hi = hi, !.water_lo = lo,
                            !.proto_paused = @ \/ t.write_buf_dsize > hi]
  /\ UNCHANGED <<role, tls, io, bound, queued, pc, net, proto>>
-----------------------------------------------------------------------------
(***************************************************************************)
(* The peer.  It follows TLS 1.2; its data comes after the handshake.      *)
(***************************************************************************)
Arrives(n, i) ==
  /\ net' = n /\ io' = [io EXCEPT !.armed = @ \/ io.interest \cap i # {}]
  /\ UNCHANGED <<role, tls, t, bound, queued, pc, proto>>

PeerOpen == ~net.peer_eof /\ net.reset = "no" /\ ~net.alert
OurFlights == Count(net.wire, 0)

PeerHandshakes ==
  /\ PeerOpen /\ tls /\ net.hs < Flights /\ Count(net.wire, -1) = 0
  /\ OurFlights >= net.hs + (IF role = "connected" THEN 1 ELSE 0)
  /\ Arrives([net EXCEPT !.hs = @ + 1, !.inq = Append(@, "hs")], R)

PeerReady == tls => net.hs = Flights /\ (role = "accepted" => OurFlights >= Flights)

PeerSends ==
  /\ PeerOpen /\ PeerReady /\ net.sent < MaxIn
  /\ Arrives([net EXCEPT !.sent = @ + 1, !.inq = Append(@, "data")], R)

PeerCloses == \* the close_notify alert
  /\ PeerOpen /\ PeerReady /\ tls
  /\ Arrives([net EXCEPT !.alert = TRUE, !.inq = Append(@, "alert")], R)

PeerShutsDown ==
  /\ ~net.peer_eof /\ net.reset = "no" /\ Arrives([net EXCEPT !.peer_eof = TRUE], R)

PeerResets ==
  /\ net.reset = "no" /\ Arrives([net EXCEPT !.reset = "pending"], R \cup W)

\* room in a full send buffer is an edge
PeerReads ==
  /\ net.reset = "no" /\ net.drained < Len(net.wire)
  /\ Arrives([net EXCEPT !.drained = @ + 1],
             IF Len(net.wire) - net.drained = SendBuf THEN W ELSE {})
-----------------------------------------------------------------------------
Loop ==
  \/ Bind \/ ConnectionMade \/ Poll \/ HandleDropped \/ ReadHandle \/ RecvPlain \/ RecvTLS
  \/ DataReturns \/ EofReturns \/ WriteHandle \/ CloseTimeout \/ ResumeReturns \/ WriteHandleEnds

Methods ==
  \/ Write \/ WriteError \/ WriteEof \/ Close \/ Abort \/ PauseReading \/ ResumeReading
  \/ SetWriteBufferLimits

Peer ==
  \/ PeerHandshakes \/ PeerSends \/ PeerCloses \/ PeerShutsDown \/ PeerResets \/ PeerReads

Next == Loop \/ Methods \/ Peer

\* the loop goes on and callbacks return; the peer reads what it is sent and
\* goes on with the handshake
Spec == Init /\ [][Next]_vars /\ WF_vars(Loop) /\ WF_vars(PeerReads) /\ WF_vars(PeerHandshakes)
-----------------------------------------------------------------------------
(***************************************************************************)
(* Properties.                                                             *)
(***************************************************************************)

\* The state has its type.
TypeOK ==
  /\ role \in Roles /\ tls \in TLS /\ bound \in BOOLEAN
  /\ queued \in {"none", "read", "write"}
  /\ pc \in {"idle", "reading", "data", "dataeof", "eof", "resume", "wrote", "failed", "aborted"}
  /\ io.interest \subseteq R \cup W /\ io.armed \in BOOLEAN
  /\ {t.closing, t.paused, t.weof, t.proto_paused, t.handshake_complete, t.tls_close_sent,
      t.tls_pending_close, t.proto_buffered, t.tls_missed, t.tls_full, net.peer_eof, net.fin,
      net.alert} \subseteq BOOLEAN
  /\ t.write_buf \in Seq(1..MaxWrites * ChunkLen) /\ t.write_buf_dsize \in Nat
  /\ t.water_lo \in Nat /\ t.water_hi \in Nat /\ t.written \in 0..MaxWrites
  /\ net.reset \in {"no", "pending", "seen"} /\ net.drained \in 0..Len(net.wire)
  /\ proto.made \in {"no", "queued", "calling", "yes"} /\ proto.received \in 0..MaxIn
  /\ proto.eofs \in Nat /\ proto.lost \in Nat

\* What goes out is what was written: never out of order, never twice, and on
\* a plain connection without an error nothing is left out.  With TLS this is
\* so while rustls is below its limits, 64 KiB held and 64 records per
\* write_tls: a chunk that fits in part is sent again from its start.
WireFaithful ==
  LET s == net.wire \o t.write_buf
  IN /\ ~t.tls_full => \A i, j \in DOMAIN s : i < j /\ s[i] > 0 /\ s[j] > 0 => s[i] < s[j]
     /\ ~tls /\ net.reset = "no" => Len(s) = t.written * ChunkLen

\* write_buf_dsize, which get_write_buffer_size reports, is the size of the
\* buffer.  The protocol is told to pause when it exceeds the high mark, and a
\* paused protocol is told to resume: it never waits for a buffer that is empty.
FlowControl ==
  /\ t.write_buf_dsize = Len(t.write_buf)
  /\ ~t.proto_paused => t.write_buf_dsize <= t.water_hi
  /\ ~tls /\ net.reset = "no" /\ t.proto_paused => t.write_buf # <<>>

\* What waits to be sent by a live transport is polled for: its buffer, and
\* what rustls holds (the flights of the handshake above all) while rustls is
\* below its limits.  Records that one write_tls left behind, and the alerts
\* that end a connection, are not.
OutputPolled ==
  bound => /\ proto.lost = 0 /\ t.write_buf # <<>> => W \subseteq io.interest
           /\ t.tls_out # <<>> /\ ~net.alert /\ ~t.tls_missed /\ ~t.tls_full => W \subseteq io.interest

\* No input is left behind by the edge-triggered poller: whatever is unread is
\* still to be announced, or its handle is in the batch.  With TLS this is so
\* while rustls took all that was read: otherwise it decrypts nothing, and the
\* read loop ends there.
InputAnnounced ==
  bound /\ pc = "idle" /\ queued # "read" /\ R \subseteq io.interest /\ net.reset = "no"
        /\ ~t.tls_missed /\ (net.inq # <<>> \/ (Raw /\ net.peer_eof)) => io.armed

\* A transport leaves tcp_transports only when it is closing, so that the
\* transport that close() looks up there is found.  If it is not TLS, its
\* protocol knows that the connection is lost; if it was accepted and lost
\* before the EOF of the peer, it is no longer polled either, but for what was
\* written after it was lost.
Dropped ==
  ~bound /\ proto.made # "calling" =>
    /\ t.closing
    /\ ~tls => proto.lost > 0
    /\ ~tls /\ role = "accepted" /\ proto.eofs = 0 /\ pc = "idle" =>
         ~(R \subseteq io.interest) /\ (W \subseteq io.interest => t.write_buf # <<>>)

\* FIN is sent after all that was written.
FinLast == ~tls /\ net.fin => t.write_buf = <<>>

\* Without TLS, eof_received comes after all that the peer sent was delivered.
DataBeforeEof == ~tls /\ proto.eofs > 0 => proto.received = net.sent

\* Without TLS, close() of an accepted connection, and the EOF of its peer, end
\* in connection_lost.  (A connected transport that writes and closes inside
\* connection_made has READABLE registered again by Bind, and may then wait as
\* in WritesProceed.)
CloseEnds == (~tls /\ role = "accepted" /\ t.closing) ~> (proto.lost > 0)

\* With a peer that takes part in it the TLS handshake ends, unless the
\* connection does: no flight is lost between the two handles.  It takes flights
\* that read_tls takes at once, and a protocol that is not a BufferedProtocol:
\* that one gets the flights itself.
HandshakeEnds ==
  (tls /\ ~t.proto_buffered)
    ~> (t.handshake_complete \/ t.closing \/ t.weof \/ t.paused \/ ~PeerOpen \/ t.tls_missed)

\* Bytes that wait because the send buffer is full are sent, as the peer reads.
WritesProceed ==
  (~tls /\ t.write_buf # <<>> /\ Len(net.wire) - net.drained = SendBuf)
    ~> (t.write_buf = <<>> \/ proto.lost > 0 \/ net.reset # "no")
=============================================================================
