-------------------------- MODULE TCPTransportProofs --------------------------
(***************************************************************************)
(* Proofs about TCPTransport, for plain and TLS connections, accepted and  *)
(* connected, and for chunks, send buffers, marks and inputs of any size.  *)
(***************************************************************************)
EXTENDS TCPTransport, SequenceTheorems, FiniteSetTheorems, TLAPS

Numbers == 1..(MaxWrites * ChunkLen)
Control == {0, -1}  \* flights and the close alert
Items == {"data", "hs", "alert"}

Transports ==
  [closing : BOOLEAN, paused : BOOLEAN, weof : BOOLEAN, proto_paused : BOOLEAN,
   write_buf : Seq(Numbers), write_buf_dsize : Nat, water_lo : Nat, water_hi : Nat,
   handshake_complete : BOOLEAN, tls_out : Seq(Numbers \cup Control), tls_close_sent : BOOLEAN,
   tls_pending_close : BOOLEAN, proto_buffered : BOOLEAN, written : 0..MaxWrites, tls_missed : BOOLEAN,
   tls_full : BOOLEAN]
Nets ==
  [inq : Seq(Items), peer_eof : BOOLEAN, reset : {"no", "pending", "seen"}, wire : Seq(Numbers \cup Control),
   drained : Nat, fin : BOOLEAN, sent : 0..MaxIn, hs : Nat, alert : BOOLEAN]
Entries == [interest : SUBSET (R \cup W), armed : BOOLEAN]
Calls == [made : {"no", "queued", "calling", "yes"}, received : Nat, eofs : Nat, lost : Nat]

\* the send buffer holds what the peer has not read
Holds(n) == n.drained <= Len(n.wire) /\ Len(n.wire) - n.drained <= SendBuf

LoopType ==
  /\ role \in Roles /\ tls \in BOOLEAN /\ tls \in TLS /\ bound \in BOOLEAN
  /\ queued \in {"none", "read", "write"}
  /\ pc \in {"idle", "reading", "data", "dataeof", "eof", "resume", "wrote", "failed", "aborted"}
NetType == net \in Nets /\ Holds(net)

\* get_write_buffer_size and the marks
BufferInv ==
  /\ t.write_buf_dsize = Len(t.write_buf) /\ t.water_lo <= t.water_hi
  /\ ~t.proto_paused => t.write_buf_dsize <= t.water_hi
  /\ ~tls /\ net.reset = "no" /\ t.proto_paused => t.write_buf # <<>>

PlainInv == ~tls => t.tls_out = <<>> /\ ~t.tls_close_sent /\ ~t.tls_pending_close /\ ~t.tls_full /\ ~t.tls_missed

\* below its limits rustls holds no bytes between two calls of the write handle
HeldInv == ~t.tls_full => t.tls_out \in Seq(Control)

\* who may send FIN, and when
FinInv ==
  /\ net.fin => t.weof
  /\ ~tls /\ (net.fin \/ pc = "failed") => t.write_buf = <<>>

\* a handle runs alone; attach runs before the first poll
BatchInv ==
  /\ pc \notin {"idle", "aborted"} \/ proto.made = "calling" => queued = "none"
  /\ proto.made = "calling" => pc = "idle" /\ ~bound /\ ~tls /\ role = "connected"

InputInv ==
  /\ proto.received + Count(net.inq, "data") <= net.sent
  /\ (\E i \in DOMAIN net.inq : net.inq[i] = "alert") => net.alert
  /\ ~tls => /\ proto.received + Len(net.inq) = net.sent
             /\ pc = "dataeof" \/ proto.eofs > 0 => ReadEnds(net) /\ net.inq = <<>>

InWriteHandle == pc \in {"resume", "wrote", "failed"}
InReadHandle == pc \in {"reading", "data", "dataeof"}

PolledInv ==
  /\ proto.lost = 0 /\ t.write_buf # <<>> => W \subseteq io.interest
  /\ bound /\ t.tls_out # <<>> /\ ~net.alert /\ ~t.tls_missed /\ ~t.tls_full => W \subseteq io.interest
  /\ InWriteHandle /\ ~t.tls_full => t.tls_out = <<>>

DropInv ==
  /\ pc = "eof" => proto.eofs > 0
  /\ t.tls_close_sent \/ t.tls_pending_close => t.closing
  /\ ~bound /\ proto.made # "calling" => t.closing /\ (~tls => proto.lost > 0)
  /\ ~tls /\ role = "accepted" =>
       /\ t.closing /\ proto.eofs = 0 => ~(R \subseteq io.interest)
       /\ ~InWriteHandle /\ pc # "aborted" /\ W \subseteq io.interest => t.write_buf # <<>>

AnnounceInv ==
  /\ bound \/ proto.made = "calling"
  /\ ~InReadHandle /\ queued # "read" /\ R \subseteq io.interest /\ net.reset = "no"
  /\ ~t.tls_missed /\ (net.inq # <<>> \/ (Raw /\ net.peer_eof))
  => io.armed

TypeInv == LoopType /\ t \in Transports /\ NetType /\ io \in Entries /\ proto \in Calls
IInv ==
  /\ TypeInv /\ BufferInv /\ PlainInv /\ HeldInv /\ FinInv /\ BatchInv /\ InputInv /\ PolledInv /\ DropInv
  /\ AnnounceInv
-----------------------------------------------------------------------------
(***************************************************************************)
(* The operators.                                                          *)
(***************************************************************************)

\* An interest is added: a readable descriptor whose interest changes is on
\* the ready list.
LEMMA StreamAdd ==
  ASSUME NEW n, NEW s \in Entries, NEW i \in SUBSET (R \cup W)
  PROVE  /\ tcp_stream_add(n, s, i) \in Entries /\ tcp_stream_add(n, s, i).interest = s.interest \cup i
         /\ R \subseteq s.interest \cup i /\ Readable(n) =>
              tcp_stream_add(n, s, i).armed \/ (R \subseteq s.interest /\ tcp_stream_add(n, s, i) = s)
<1>1. CASE s.interest = i
  <2>1. tcp_stream_add(n, s, i) = s
    BY <1>1 DEF tcp_stream_add
  <2>2. QED
    BY <1>1, <2>1 DEF Entries
<1>2. CASE s.interest # i
  <2>1. PICK j : j = s.interest \cup i
    OBVIOUS
  <2>2. tcp_stream_add(n, s, i) = Registered(n, s, j)
    BY <1>2, <2>1 DEF tcp_stream_add
  <2>3. j \subseteq R \cup W
    BY <2>1 DEF Entries
  <2>4. Registered(n, s, j) \in Entries /\ Registered(n, s, j).interest = j
    BY <2>3 DEF Registered, Entries
  <2>5. R \subseteq j /\ Readable(n) => Registered(n, s, j).armed
    BY DEF Registered, Ready, R
  <2>6. QED
    BY <2>1, <2>2, <2>4, <2>5
<1>3. QED
  BY <1>1, <1>2

\* An interest is removed.
LEMMA StreamRem ==
  ASSUME NEW n, NEW s \in Entries, NEW i \in SUBSET (R \cup W)
  PROVE  /\ tcp_stream_rem(n, s, i) \in Entries /\ tcp_stream_rem(n, s, i).interest = s.interest \ i
         /\ R \subseteq s.interest \ i /\ Readable(n) => tcp_stream_rem(n, s, i).armed
<1>1. CASE s.interest = {}
  <2>1. tcp_stream_rem(n, s, i) = s
    BY <1>1 DEF tcp_stream_rem
  <2>2. QED
    BY <1>1, <2>1 DEF Entries, R
<1>2. CASE s.interest # {}
  <2>1. PICK j : j = s.interest \ i
    OBVIOUS
  <2>2. tcp_stream_rem(n, s, i) = Registered(n, s, j)
    BY <1>2, <2>1 DEF tcp_stream_rem
  <2>3. j \subseteq R \cup W
    BY <2>1 DEF Entries
  <2>4. Registered(n, s, j) \in Entries /\ Registered(n, s, j).interest = j
    BY <2>3 DEF Registered, Entries
  <2>5. R \subseteq j /\ Readable(n) => Registered(n, s, j).armed
    BY DEF Registered, Ready, R
  <2>6. QED
    BY <2>1, <2>2, <2>4, <2>5
<1>3. QED
  BY <1>1, <1>2

\* READABLE is added.
LEMMA AddRead ==
  ASSUME NEW n, NEW s \in Entries
  PROVE  /\ tcp_stream_add(n, s, R) \in Entries /\ tcp_stream_add(n, s, R).interest = s.interest \cup R
         /\ R \subseteq s.interest \cup R /\ Readable(n) =>
              tcp_stream_add(n, s, R).armed \/ (R \subseteq s.interest /\ tcp_stream_add(n, s, R) = s)
<1>1. PICK i \in SUBSET (R \cup W) : i = R
  OBVIOUS
<1>2. QED
  BY <1>1, StreamAdd

\* WRITABLE is added.
LEMMA AddWrite ==
  ASSUME NEW n, NEW s \in Entries
  PROVE  /\ tcp_stream_add(n, s, W) \in Entries /\ tcp_stream_add(n, s, W).interest = s.interest \cup W
         /\ R \subseteq s.interest \cup W /\ Readable(n) =>
              tcp_stream_add(n, s, W).armed \/ (R \subseteq s.interest /\ tcp_stream_add(n, s, W) = s)
<1>1. PICK i \in SUBSET (R \cup W) : i = W
  OBVIOUS
<1>2. QED
  BY <1>1, StreamAdd

\* READABLE is removed.
LEMMA RemRead ==
  ASSUME NEW n, NEW s \in Entries
  PROVE  /\ tcp_stream_rem(n, s, R) \in Entries /\ tcp_stream_rem(n, s, R).interest = s.interest \ R
         /\ R \subseteq s.interest \ R /\ Readable(n) => tcp_stream_rem(n, s, R).armed
<1>1. PICK i \in SUBSET (R \cup W) : i = R
  OBVIOUS
<1>2. QED
  BY <1>1, StreamRem

\* WRITABLE is removed.
LEMMA RemWrite ==
  ASSUME NEW n, NEW s \in Entries
  PROVE  /\ tcp_stream_rem(n, s, W) \in Entries /\ tcp_stream_rem(n, s, W).interest = s.interest \ W
         /\ R \subseteq s.interest \ W /\ Readable(n) => tcp_stream_rem(n, s, W).armed
<1>1. PICK i \in SUBSET (R \cup W) : i = W
  OBVIOUS
<1>2. QED
  BY <1>1, StreamRem

\* Both interests are removed.
LEMMA RemBoth ==
  ASSUME NEW n, NEW s \in Entries
  PROVE  /\ tcp_stream_rem(n, tcp_stream_rem(n, s, R), W) \in Entries
         /\ tcp_stream_rem(n, tcp_stream_rem(n, s, R), W).interest = {}
<1>1. PICK r : r = tcp_stream_rem(n, s, R)
  OBVIOUS
<1>2. r \in Entries /\ r.interest = s.interest \ R
  BY <1>1, RemRead
<1>3. tcp_stream_rem(n, r, W) \in Entries /\ tcp_stream_rem(n, r, W).interest = r.interest \ W
  BY <1>2, RemWrite
<1>4. r.interest \ W = {}
  BY <1>2 DEF Entries
<1>5. QED
  BY <1>1, <1>3, <1>4

\* The kernel takes what it has room for.
LEMMA AcceptedRange ==
  ASSUME NEW n \in Nets, Holds(n), NEW S, NEW bytes \in Seq(S)
  PROVE  /\ Accepted(n, bytes) \in 0..Len(bytes) /\ Accepted(n, bytes) <= SendBuf - (Len(n.wire) - n.drained)
         /\ WriteFails(n) => Accepted(n, bytes) = 0
<1>1. Len(n.wire) \in Nat /\ n.drained \in Nat /\ Len(bytes) \in Nat /\ SendBuf \in Nat
  BY LenProperties, TCPConstants DEF Nets
<1>2. QED
  BY <1>1 DEF Accepted, Min2, Holds

\* Bytes go out: the send buffer is not overfilled, and a reset was seen.
LEMMA SendNet ==
  ASSUME NEW n \in Nets, Holds(n), NEW bytes \in Seq(Numbers \cup Control), NEW k \in 0..Len(bytes),
         k <= SendBuf - (Len(n.wire) - n.drained)
  PROVE  /\ Send(n, bytes, k) \in Nets /\ Holds(Send(n, bytes, k))
         /\ Send(n, bytes, k).wire = n.wire \o SubSeq(bytes, 1, k)
         /\ Send(n, bytes, k).reset = "no" <=> n.reset = "no"
         /\ Send(n, bytes, k).inq = n.inq /\ Send(n, bytes, k).peer_eof = n.peer_eof
         /\ Send(n, bytes, k).drained = n.drained /\ Send(n, bytes, k).fin = n.fin
         /\ Send(n, bytes, k).sent = n.sent /\ Send(n, bytes, k).hs = n.hs /\ Send(n, bytes, k).alert = n.alert
         /\ ReadEnds(n) => ReadEnds(Send(n, bytes, k))
<1>1. Len(n.wire) \in Nat /\ n.drained \in Nat /\ Len(bytes) \in Nat /\ SendBuf \in Nat /\ n.wire \in Seq(Numbers \cup Control)
  BY LenProperties, TCPConstants DEF Nets
<1>2. /\ SubSeq(bytes, 1, k) \in Seq(Numbers \cup Control) /\ Len(SubSeq(bytes, 1, k)) = k
  BY <1>1, SubSeqProperties
<1>3. PICK w, z : w = n.wire \o z /\ z = SubSeq(bytes, 1, k)
  OBVIOUS
<1>4. w \in Seq(Numbers \cup Control) /\ Len(w) = Len(n.wire) + k
  <2>1. PICK D : D = Numbers \cup Control
    OBVIOUS
  <2>2. z \in Seq(D) /\ Len(z) = k /\ n.wire \in Seq(D)
    BY <1>1, <1>2, <1>3, <2>1
  <2>3. n.wire \o z \in Seq(D) /\ Len(n.wire \o z) = Len(n.wire) + Len(z)
    BY <2>2, ConcatProperties
  <2>4. QED
    BY <1>3, <2>1, <2>2, <2>3
<1>5. PICK r : r = IF n.reset = "no" THEN n.reset ELSE "seen"
  OBVIOUS
<1>6. Send(n, bytes, k) = [n EXCEPT !.wire = w, !.reset = r]
  BY <1>3, <1>5 DEF Send
<1>7. r \in {"no", "pending", "seen"} /\ (r = "no" <=> n.reset = "no") /\ (n.reset = "seen" => r = "seen")
  BY <1>5 DEF Nets
<1>8. PICK m : m = [n EXCEPT !.wire = w, !.reset = r]
  OBVIOUS
<1>9. /\ m \in Nets /\ m.wire = w /\ m.reset = r /\ m.inq = n.inq /\ m.peer_eof = n.peer_eof /\ m.drained = n.drained
      /\ m.fin = n.fin /\ m.sent = n.sent /\ m.hs = n.hs /\ m.alert = n.alert
  BY <1>4, <1>7, <1>8 DEF Nets
<1>10. Holds(m) /\ (ReadEnds(n) => ReadEnds(m))
  BY <1>1, <1>4, <1>7, <1>9 DEF Holds, ReadEnds
<1>11. QED
  BY <1>3, <1>6, <1>7, <1>8, <1>9, <1>10

\* What the kernel did not take stays.
LEMMA RestSeq ==
  ASSUME NEW S, NEW buf \in Seq(S), NEW n \in 0..Len(buf)
  PROVE  /\ Rest(buf, n) \in Seq(S) /\ Len(Rest(buf, n)) = Len(buf) - n
         /\ \A i \in 1..(Len(buf) - n) : Rest(buf, n)[i] = buf[i + n]
         /\ Rest(buf, n) = <<>> <=> n = Len(buf)
<1>1. Len(buf) \in Nat
  BY LenProperties
<1>2. /\ Rest(buf, n) \in Seq(S) /\ Len(Rest(buf, n)) = Len(buf) - n
      /\ \A i \in 1..(Len(buf) - n) : Rest(buf, n)[i] = buf[i + n]
  <2>1. CASE n < Len(buf)
    <3>1. n + 1 \in 1..(Len(buf) + 1) /\ Len(buf) \in (n + 1 - 1)..Len(buf)
      BY <1>1
    <3>2. /\ SubSeq(buf, n + 1, Len(buf)) \in Seq(S) /\ Len(SubSeq(buf, n + 1, Len(buf))) = Len(buf) - (n + 1) + 1
          /\ \A i \in 1..(Len(buf) - (n + 1) + 1) : SubSeq(buf, n + 1, Len(buf))[i] = buf[n + 1 + i - 1]
      BY <1>1, <2>1, SubSeqProperties
    <3>3. QED
      BY <1>1, <3>2 DEF Rest
  <2>2. CASE n = Len(buf)
    <3>1. SubSeq(buf, n + 1, Len(buf)) = <<>>
      BY <1>1, <2>2, SubSeqProperties
    <3>2. QED
      BY <1>1, <2>2, <3>1 DEF Rest
  <2>3. QED
    BY <1>1, <2>1, <2>2
<1>3. Rest(buf, n) = <<>> <=> Len(Rest(buf, n)) = 0
  BY <1>2, EmptySeq
<1>4. QED
  BY <1>1, <1>2, <1>3

\* write_tls hands out the first records, and all of them if it keeps none.
LEMMA HandedKept ==
  ASSUME NEW S, NEW o \in Seq(S)
  PROVE  Handed(o) \in Seq(S) /\ Kept(o) \in Seq(S) /\ (Kept(o) = <<>> => Handed(o) = o)
<1>1. Len(o) \in Nat /\ TlsChunks \in Nat /\ \A i \in 1..Len(o) : o[i] \in S
  BY LenProperties, ElementOfSeq, TCPConstants
<1>2. PICK k : k = Min2(Len(o), TlsChunks)
  OBVIOUS
<1>3. k \in 0..Len(o) /\ k \in Int
  BY <1>1, <1>2 DEF Min2
<1>4. \A i \in 1..k : o[i] \in S
  BY <1>1, <1>3
<1>5. SubSeq(o, 1, k) \in Seq(S)
  BY <1>3, <1>4, SubSeqProperties
<1>6. Rest(o, k) \in Seq(S) /\ (Rest(o, k) = <<>> <=> k = Len(o))
  BY <1>3, RestSeq
<1>7. SubSeq(o, 1, Len(o)) = o
  BY SubSeqFull
<1>8. QED
  BY <1>2, <1>5, <1>6, <1>7 DEF Handed, Kept

\* The bytes of a call of write are new.
LEMMA BytesSeq ==
  ASSUME NEW k \in 1..MaxWrites
  PROVE  /\ Bytes(k) \in Seq(Numbers) /\ Len(Bytes(k)) = ChunkLen
         /\ \A i \in 1..ChunkLen : Bytes(k)[i] = (k - 1) * ChunkLen + i
<1>1. ChunkLen \in Nat /\ ChunkLen # 0 /\ MaxWrites \in Nat
  BY TCPConstants
<1>2. (k - 1) * ChunkLen \in Nat /\ k * ChunkLen = (k - 1) * ChunkLen + ChunkLen
  BY <1>1
<1>3. k * ChunkLen <= MaxWrites * ChunkLen /\ MaxWrites * ChunkLen \in Nat
  <2>1. PICK d \in Nat : MaxWrites = k + d
    <3>1. MaxWrites - k \in Nat /\ MaxWrites = k + (MaxWrites - k)
      BY <1>1
    <3>2. QED
      BY <3>1
  <2>2. MaxWrites * ChunkLen = k * ChunkLen + d * ChunkLen
    BY <1>1, <2>1
  <2>3. d * ChunkLen \in Nat /\ k * ChunkLen \in Nat
    BY <1>1
  <2>4. QED
    BY <2>2, <2>3
<1>4. \A i \in 1..ChunkLen : (k - 1) * ChunkLen + i \in Numbers
  BY <1>1, <1>2, <1>3 DEF Numbers
<1>5. Bytes(k) \in [1..ChunkLen -> Numbers] /\ \A i \in 1..ChunkLen : Bytes(k)[i] = (k - 1) * ChunkLen + i
  BY <1>4 DEF Bytes
<1>6. QED
  BY <1>1, <1>5, IsASeq, LenProperties
-----------------------------------------------------------------------------
(***************************************************************************)
(* Steps of the loop that leave the transport and the kernel alone.        *)
(***************************************************************************)

\* Bind ends attach.
LEMMA BindStep == IInv /\ Bind => IInv'
<1> SUFFICES ASSUME IInv, Bind PROVE IInv'
  OBVIOUS
<1>1. PICK s : s = tcp_stream_add(net, io, R)
  OBVIOUS
<1>2. /\ s \in Entries /\ s.interest = io.interest \cup R
      /\ Readable(net) => s.armed \/ (R \subseteq io.interest /\ s = io)
  BY <1>1, AddRead DEF IInv, TypeInv
<1>3. /\ proto.made = "calling" /\ proto' = [proto EXCEPT !.made = "yes"] /\ bound' = TRUE /\ io' = s
      /\ UNCHANGED <<role, tls, t, queued, pc, net>>
  BY <1>1 DEF Bind
<1>4. /\ proto' \in Calls /\ proto'.made = "yes" /\ proto'.received = proto.received /\ proto'.eofs = proto.eofs
      /\ proto'.lost = proto.lost
  BY <1>3 DEF IInv, TypeInv, Calls
<1>5. TypeInv'
  BY <1>2, <1>3, <1>4 DEF IInv, TypeInv, LoopType, NetType
<1>6. BufferInv' /\ PlainInv' /\ HeldInv' /\ FinInv' /\ BatchInv' /\ InputInv'
  BY <1>3, <1>4 DEF IInv, BufferInv, PlainInv, HeldInv, FinInv, BatchInv, InputInv
<1>7. PolledInv' /\ DropInv'
  BY <1>2, <1>3, <1>4 DEF IInv, PolledInv, DropInv, BatchInv, PlainInv, HeldInv, InWriteHandle
<1>8. AnnounceInv'
  BY <1>2, <1>3, <1>4 DEF IInv, AnnounceInv, Raw, InReadHandle, Readable
<1>9. QED
  BY <1>5, <1>6, <1>7, <1>8 DEF IInv

\* The handle of connection_made, and handles that begin, return or find their
\* transport dropped.
LEMMA QuietStep ==
  IInv /\ (UNCHANGED vars \/ ConnectionMade \/ HandleDropped \/ ReadHandle \/ ResumeReturns) => IInv'
<1> SUFFICES ASSUME IInv, UNCHANGED vars \/ ConnectionMade \/ HandleDropped \/ ReadHandle \/ ResumeReturns PROVE IInv'
  OBVIOUS
<1>1. UNCHANGED <<role, tls, t, io, bound, net>>
  BY DEF vars, ConnectionMade, HandleDropped, ReadHandle, ResumeReturns
<1>2. /\ proto' \in Calls /\ proto'.received = proto.received /\ proto'.eofs = proto.eofs /\ proto'.lost = proto.lost
      /\ proto'.made = proto.made \/ (proto.made = "queued" /\ proto'.made = "yes")
  BY DEF IInv, TypeInv, Calls, vars, ConnectionMade, HandleDropped, ReadHandle, ResumeReturns
<1>3. \/ UNCHANGED <<pc, queued>>
      \/ ~bound /\ pc = "idle" /\ queued \in {"read", "write"} /\ queued' = "none" /\ UNCHANGED <<pc, proto>>
      \/ pc = "idle" /\ queued = "read" /\ queued' = "none" /\ pc' = "reading" /\ UNCHANGED proto
      \/ pc = "resume" /\ pc' = "wrote" /\ UNCHANGED <<queued, proto>>
  BY DEF vars, ConnectionMade, HandleDropped, ReadHandle, ResumeReturns, Turn
<1>4. TypeInv'
  BY <1>1, <1>2, <1>3 DEF IInv, TypeInv, LoopType, NetType
<1>5. BufferInv' /\ PlainInv' /\ HeldInv' /\ FinInv' /\ BatchInv'
  BY <1>1, <1>2, <1>3 DEF IInv, BufferInv, PlainInv, HeldInv, FinInv, BatchInv
<1>6. InputInv'
  BY <1>1, <1>2, <1>3 DEF IInv, InputInv
<1>7. PolledInv' /\ DropInv'
  BY <1>1, <1>2, <1>3 DEF IInv, PolledInv, DropInv, InWriteHandle
<1>8. AnnounceInv'
  BY <1>1, <1>2, <1>3 DEF IInv, AnnounceInv, Raw, BatchInv, InReadHandle
<1>9. QED
  BY <1>4, <1>5, <1>6, <1>7, <1>8 DEF IInv

\* A poll puts the read handle in the batch if there is something to read.
LEMMA PollStep == IInv /\ Poll => IInv'
<1> SUFFICES ASSUME IInv, Poll PROVE IInv'
  OBVIOUS
<1>1. /\ UNCHANGED <<role, tls, t, bound, pc, net, proto>> /\ pc = "idle" /\ proto.made # "calling"
      /\ io' = [io EXCEPT !.armed = FALSE] /\ queued' = handle_io_tcps(io.interest)
  BY DEF Poll
<1>2. io' \in Entries /\ io'.interest = io.interest
  BY <1>1 DEF IInv, TypeInv, Entries
<1>3. queued' \in {"none", "read", "write"} /\ (R \subseteq io.interest /\ Readable(net) => queued' = "read")
  BY <1>1 DEF handle_io_tcps, CanRead
<1>4. TypeInv'
  BY <1>1, <1>2, <1>3 DEF IInv, TypeInv, LoopType, NetType
<1>5. BufferInv' /\ PlainInv' /\ HeldInv' /\ FinInv' /\ BatchInv' /\ InputInv'
  BY <1>1, <1>2 DEF IInv, BufferInv, PlainInv, HeldInv, FinInv, BatchInv, InputInv
<1>6. PolledInv' /\ DropInv'
  BY <1>1, <1>2 DEF IInv, PolledInv, DropInv, InWriteHandle
<1>7. AnnounceInv'
  BY <1>1, <1>2, <1>3 DEF IInv, AnnounceInv, Raw, InReadHandle, Readable
<1>8. QED
  BY <1>4, <1>5, <1>6, <1>7 DEF IInv

\* data_received returns: the handle reads on, or goes on to eof_received.
LEMMA DataReturnsStep == IInv /\ DataReturns => IInv'
<1> SUFFICES ASSUME IInv, DataReturns PROVE IInv'
  OBVIOUS
<1>1. UNCHANGED <<role, tls, t, bound, queued, net>>
  BY DEF DataReturns
<1>2. CASE pc = "data" /\ pc' = "reading" /\ UNCHANGED <<io, proto>>
  <2>1. TypeInv'
    BY <1>1, <1>2 DEF IInv, TypeInv, LoopType, NetType
  <2>2. BufferInv' /\ PlainInv' /\ HeldInv' /\ FinInv' /\ BatchInv' /\ InputInv'
    BY <1>1, <1>2 DEF IInv, BufferInv, PlainInv, HeldInv, FinInv, BatchInv, InputInv
  <2>3. PolledInv' /\ DropInv' /\ AnnounceInv'
    BY <1>1, <1>2 DEF IInv, PolledInv, DropInv, AnnounceInv, Raw, InWriteHandle, InReadHandle
  <2>4. QED
    BY <2>1, <2>2, <2>3 DEF IInv
<1>3. CASE pc = "dataeof" /\ CallEofReceived(proto)
  <2>1. PICK s : s = tcp_stream_rem(net, io, R)
    OBVIOUS
  <2>2. s \in Entries /\ s.interest = io.interest \ R
    BY <2>1, RemRead DEF IInv, TypeInv
  <2>3. pc' = "eof" /\ io' = s /\ proto' = [proto EXCEPT !.eofs = @ + 1]
    BY <1>1, <1>3, <2>1 DEF CallEofReceived
  <2>4. /\ proto' \in Calls /\ proto'.received = proto.received /\ proto'.eofs = proto.eofs + 1
        /\ proto'.lost = proto.lost /\ proto'.made = proto.made /\ proto.eofs \in Nat
    BY <2>3 DEF IInv, TypeInv, Calls
  <2>5. TypeInv'
    BY <1>1, <2>2, <2>3, <2>4 DEF IInv, TypeInv, LoopType, NetType
  <2>6. BufferInv' /\ PlainInv' /\ HeldInv' /\ FinInv' /\ BatchInv'
    BY <1>1, <1>3, <2>3, <2>4 DEF IInv, BufferInv, PlainInv, HeldInv, FinInv, BatchInv
  <2>7. InputInv'
    BY <1>1, <1>3, <2>3, <2>4 DEF IInv, InputInv
  <2>8. PolledInv' /\ DropInv'
    BY <1>1, <1>3, <2>2, <2>3, <2>4 DEF IInv, PolledInv, DropInv, InWriteHandle, R, W
  <2>9. AnnounceInv'
    BY <1>1, <2>2, <2>3 DEF AnnounceInv, Raw, R
  <2>10. QED
    BY <2>5, <2>6, <2>7, <2>8, <2>9 DEF IInv
<1>4. QED
  BY <1>2, <1>3 DEF DataReturns, NextRead

\* The close of a TLS connection gives up.
LEMMA CloseTimeoutStep == IInv /\ CloseTimeout => IInv'
<1> SUFFICES ASSUME IInv, CloseTimeout PROVE IInv'
  OBVIOUS
<1>1. PICK s : s = tcp_stream_rem(net, tcp_stream_rem(net, io, R), W)
  OBVIOUS
<1>2. s \in Entries /\ s.interest = {}
  BY <1>1, RemBoth DEF IInv, TypeInv
<1>3. /\ tls /\ t.tls_close_sent /\ pc = "idle" /\ queued' = "none" /\ io' = s /\ bound' = FALSE
      /\ proto' = [proto EXCEPT !.lost = @ + 1] /\ UNCHANGED <<role, tls, t, pc, net>>
  BY <1>1 DEF CloseTimeout, Turn, Drop, Lost
<1>4. /\ proto' \in Calls /\ proto'.received = proto.received /\ proto'.eofs = proto.eofs
      /\ proto'.lost = proto.lost + 1 /\ proto'.made = proto.made /\ proto.lost \in Nat
  BY <1>3 DEF IInv, TypeInv, Calls
<1>5. TypeInv'
  BY <1>2, <1>3, <1>4 DEF IInv, TypeInv, LoopType, NetType
<1>6. BufferInv' /\ PlainInv' /\ HeldInv' /\ FinInv' /\ BatchInv' /\ InputInv'
  BY <1>3, <1>4 DEF IInv, BufferInv, PlainInv, HeldInv, FinInv, BatchInv, InputInv
<1>7. PolledInv' /\ DropInv'
  BY <1>2, <1>3, <1>4 DEF IInv, PolledInv, DropInv, InWriteHandle
<1>8. AnnounceInv'
  BY <1>2, <1>3 DEF AnnounceInv, Raw, R
<1>9. QED
  BY <1>5, <1>6, <1>7, <1>8 DEF IInv
-----------------------------------------------------------------------------
(***************************************************************************)
(* The peer.                                                               *)
(***************************************************************************)

\* How often a message occurs in the input.
LEMMA CountRange ==
  ASSUME NEW S, NEW q \in Seq(S), NEW x
  PROVE  Count(q, x) \in 0..Len(q) /\ (Count(q, x) > 0 => \E i \in DOMAIN q : q[i] = x)
<1>1. Len(q) \in Nat /\ DOMAIN q = 1..Len(q)
  BY LenProperties
<1>2. IsFiniteSet(1..Len(q)) /\ Cardinality(1..Len(q)) = Len(q)
  BY <1>1, FS_Interval
<1>3. PICK I : I = {i \in DOMAIN q : q[i] = x}
  OBVIOUS
<1>4. IsFiniteSet(I) /\ Cardinality(I) \in Nat /\ Cardinality(I) <= Len(q)
  BY <1>1, <1>2, <1>3, FS_Subset, FS_CardinalityType
<1>5. Cardinality(I) > 0 => I # {}
  BY <1>4, FS_EmptySet
<1>6. QED
  BY <1>1, <1>3, <1>4, <1>5 DEF Count

\* One more message.
LEMMA CountAppend ==
  ASSUME NEW S, NEW q \in Seq(S), NEW e \in S, NEW x
  PROVE  Count(Append(q, e), x) <= Count(q, x) + (IF e = x THEN 1 ELSE 0)
<1>1. PICK r : r = Append(q, e)
  OBVIOUS
<1>2. Len(q) \in Nat /\ DOMAIN q = 1..Len(q) /\ DOMAIN r = 1..(Len(q) + 1) /\ r[Len(q) + 1] = e
      /\ \A i \in 1..Len(q) : r[i] = q[i]
  BY <1>1, AppendProperties, LenProperties
<1>3. PICK I, J : I = {i \in DOMAIN q : q[i] = x} /\ J = {i \in DOMAIN r : r[i] = x}
  OBVIOUS
<1>4. IsFiniteSet(I) /\ Len(q) + 1 \notin I
  <2>1. IsFiniteSet(1..Len(q)) /\ I \subseteq 1..Len(q)
    BY <1>2, <1>3, FS_Interval
  <2>2. IsFiniteSet(I)
    BY <2>1, FS_Subset
  <2>3. QED
    BY <1>2, <2>1, <2>2
<1>5. J = IF e = x THEN I \cup {Len(q) + 1} ELSE I
  BY <1>2, <1>3
<1>6. Cardinality(I) \in Nat /\ Cardinality(I \cup {Len(q) + 1}) = Cardinality(I) + 1
  BY <1>4, FS_CardinalityType, FS_AddElement
<1>7. Count(q, x) = Cardinality(I) /\ Count(r, x) = Cardinality(J)
  BY <1>3 DEF Count
<1>8. QED
  BY <1>1, <1>5, <1>6, <1>7

\* What every arrival has in common: it only adds to what is ready.
LEMMA ArrivesKeeps ==
  ASSUME IInv, NEW n \in Nets, NEW i \in SUBSET (R \cup W), Arrives(n, i), Holds(n),
         n.fin = net.fin, net.alert => n.alert, n.reset = "no" => net.reset = "no", InputInv',
         net.inq # n.inq \/ net.peer_eof # n.peer_eof => R \subseteq i
  PROVE  IInv'
<1>1. /\ net' = n /\ io' = [io EXCEPT !.armed = @ \/ io.interest \cap i # {}]
      /\ UNCHANGED <<role, tls, t, bound, queued, pc, proto>>
  BY DEF Arrives
<1>2. /\ io' \in Entries /\ io'.interest = io.interest /\ (io.armed \/ io.interest \cap i # {} => io'.armed)
  BY <1>1 DEF IInv, TypeInv, Entries
<1>3. TypeInv'
  BY <1>1, <1>2 DEF IInv, TypeInv, LoopType, NetType
<1>4. BufferInv' /\ PlainInv' /\ HeldInv' /\ FinInv' /\ BatchInv'
  BY <1>1 DEF IInv, BufferInv, PlainInv, HeldInv, FinInv, BatchInv
<1>5. PolledInv' /\ DropInv'
  BY <1>1, <1>2 DEF IInv, PolledInv, DropInv, InWriteHandle
<1>6. AnnounceInv'
  <2>1. CASE UNCHANGED <<net>> \/ (net.inq = n.inq /\ net.peer_eof = n.peer_eof)
    BY <1>1, <1>2, <2>1 DEF IInv, AnnounceInv, Raw, InReadHandle
  <2>2. CASE R \subseteq i
    BY <1>1, <1>2, <2>2 DEF AnnounceInv, Raw, R
  <2>3. QED
    BY <2>1, <2>2
<1>7. QED
  BY <1>3, <1>4, <1>5, <1>6 DEF IInv

\* A message arrives: it is counted among what the peer sent if it is data.
LEMMA MessageArrives ==
  ASSUME IInv, NEW x \in Items, NEW n \in Nets, n.inq = Append(net.inq, x), Arrives(n, R), Holds(n),
         n.fin = net.fin, net.alert => n.alert, x = "alert" => n.alert, n.reset = net.reset, n.peer_eof = net.peer_eof,
         PeerOpen, ~tls => x = "data", n.sent = net.sent + (IF x = "data" THEN 1 ELSE 0)
  PROVE  IInv'
<1>0. net' = n /\ UNCHANGED <<proto, pc, tls>>
  BY DEF Arrives
<1>1. /\ net.inq \in Seq(Items) /\ proto.received \in Nat /\ net.sent \in Nat /\ proto.eofs \in Nat
  <2>1. net \in Nets /\ proto \in Calls /\ MaxIn \in Nat
    BY TCPConstants DEF IInv, TypeInv, NetType
  <2>2. QED
    BY <2>1 DEF Nets, Calls
<1>2. /\ n.inq \in Seq(Items) /\ Len(n.inq) = Len(net.inq) + 1 /\ Len(net.inq) \in Nat
      /\ DOMAIN n.inq = 1..(Len(net.inq) + 1) /\ DOMAIN net.inq = 1..Len(net.inq)
      /\ \A i \in 1..Len(net.inq) : n.inq[i] = net.inq[i]
      /\ n.inq[Len(net.inq) + 1] = x
  BY <1>1, AppendProperties, LenProperties
<1>3. Count(n.inq, "data") <= Count(net.inq, "data") + (IF x = "data" THEN 1 ELSE 0)
  BY <1>1, CountAppend
<1>4. Count(n.inq, "data") \in Nat /\ Count(net.inq, "data") \in Nat
  <2>1. Count(n.inq, "data") \in 0..Len(n.inq) /\ Count(net.inq, "data") \in 0..Len(net.inq)
    BY <1>1, <1>2, CountRange
  <2>2. QED
    BY <1>2, <2>1
<1>5. proto.received + Count(n.inq, "data") <= n.sent
  <2>1. proto.received + Count(net.inq, "data") <= net.sent
    BY DEF IInv, InputInv
  <2>2. QED
    BY <1>1, <1>3, <1>4, <2>1
<1>6. (\E i \in DOMAIN n.inq : n.inq[i] = "alert") => n.alert
  <2>1. (\E i \in DOMAIN net.inq : net.inq[i] = "alert") => net.alert
    BY DEF IInv, InputInv
  <2>2. QED
    BY <1>2, <2>1
<1>7. ~tls => /\ proto.received + Len(n.inq) = n.sent
              /\ pc # "dataeof" /\ ~(proto.eofs > 0)
  <2> SUFFICES ASSUME ~tls PROVE proto.received + Len(n.inq) = n.sent /\ pc # "dataeof" /\ ~(proto.eofs > 0)
    OBVIOUS
  <2>1. /\ proto.received + Len(net.inq) = net.sent
        /\ pc = "dataeof" \/ proto.eofs > 0 => ReadEnds(net)
    BY DEF IInv, InputInv
  <2>2. ~ReadEnds(net)
    BY DEF PeerOpen, ReadEnds
  <2>3. n.sent = net.sent + 1
    OBVIOUS
  <2>4. Len(n.inq) = Len(net.inq) + 1 /\ Len(net.inq) \in Nat
    BY <1>2
  <2>5. proto.received + Len(n.inq) = n.sent
    BY <1>1, <2>1, <2>3, <2>4
  <2>6. QED
    BY <2>1, <2>2, <2>5
<1>8. InputInv'
  BY <1>0, <1>5, <1>6, <1>7 DEF InputInv
<1>9. QED
  BY <1>8, ArrivesKeeps

\* The peer does something.
LEMMA PeerStep == IInv /\ Peer => IInv'
<1> SUFFICES ASSUME IInv, Peer PROVE IInv'
  OBVIOUS
<1>0. net \in Nets /\ Holds(net) /\ MaxIn \in Nat
  BY TCPConstants DEF IInv, TypeInv, NetType
<1>1. ASSUME NEW x \in Items, NEW n, n.inq = Append(net.inq, x), Append(net.inq, x) \in Seq(Items) => n \in Nets,
             Arrives(n, R), n.wire = net.wire, n.drained = net.drained, n.fin = net.fin, net.alert => n.alert,
             x = "alert" => n.alert, n.reset = net.reset, n.peer_eof = net.peer_eof, PeerOpen, ~tls => x = "data",
             n.sent = net.sent + (IF x = "data" THEN 1 ELSE 0)
      PROVE  IInv'
  <2>1. Append(net.inq, x) \in Seq(Items)
    <3>1. net.inq \in Seq(Items)
      BY <1>0 DEF Nets
    <3>2. QED
      BY <3>1, AppendProperties
  <2>2. n \in Nets /\ Holds(n)
    BY <1>0, <1>1, <2>1 DEF Holds
  <2>3. QED
    BY <1>1, <2>2, MessageArrives
<1>2. CASE PeerHandshakes
  <2>1. PICK q : q = Append(net.inq, "hs")
    OBVIOUS
  <2>2. PICK n : n = [net EXCEPT !.hs = @ + 1, !.inq = q]
    OBVIOUS
  <2>3. /\ n.inq = q /\ n.wire = net.wire /\ n.drained = net.drained /\ n.fin = net.fin /\ n.alert = net.alert
        /\ n.reset = net.reset /\ n.peer_eof = net.peer_eof /\ n.sent = net.sent /\ net.sent \in Nat
    BY <1>0, <2>2 DEF Nets
  <2>4. q \in Seq(Items) => n \in Nets
    <3>1. net.hs + 1 \in Nat
      BY <1>0 DEF Nets
    <3>2. QED
      BY <1>0, <2>2, <3>1 DEF Nets
  <2>5. Arrives(n, R) /\ PeerOpen /\ tls
    BY <1>2, <2>1, <2>2 DEF PeerHandshakes
  <2>6. "hs" \in Items /\ n.sent = net.sent + 0
    BY <2>3 DEF Items
  <2>7. QED
    BY <1>1, <2>1, <2>3, <2>4, <2>5, <2>6
<1>3. CASE PeerSends
  <2>1. PICK q : q = Append(net.inq, "data")
    OBVIOUS
  <2>2. PICK n : n = [net EXCEPT !.sent = @ + 1, !.inq = q]
    OBVIOUS
  <2>3. /\ n.inq = q /\ n.wire = net.wire /\ n.drained = net.drained /\ n.fin = net.fin /\ n.alert = net.alert
        /\ n.reset = net.reset /\ n.peer_eof = net.peer_eof /\ n.sent = net.sent + 1
    BY <1>0, <2>2 DEF Nets
  <2>4. q \in Seq(Items) => n \in Nets
    <3>1. net.sent + 1 \in 0..MaxIn
      BY <1>0, <1>3 DEF PeerSends, Nets
    <3>2. QED
      BY <1>0, <2>2, <3>1 DEF Nets
  <2>5. Arrives(n, R) /\ PeerOpen
    BY <1>3, <2>1, <2>2 DEF PeerSends
  <2>6. "data" \in Items
    BY DEF Items
  <2>7. QED
    BY <1>1, <2>1, <2>3, <2>4, <2>5, <2>6
<1>4. CASE PeerCloses
  <2>1. PICK q : q = Append(net.inq, "alert")
    OBVIOUS
  <2>2. PICK n : n = [net EXCEPT !.alert = TRUE, !.inq = q]
    OBVIOUS
  <2>3. /\ n.inq = q /\ n.wire = net.wire /\ n.drained = net.drained /\ n.fin = net.fin /\ n.alert
        /\ n.reset = net.reset /\ n.peer_eof = net.peer_eof /\ n.sent = net.sent /\ net.sent \in Nat
    BY <1>0, <2>2 DEF Nets
  <2>4. q \in Seq(Items) => n \in Nets
    BY <1>0, <2>2 DEF Nets
  <2>5. Arrives(n, R) /\ PeerOpen /\ tls
    BY <1>4, <2>1, <2>2 DEF PeerCloses
  <2>6. "alert" \in Items /\ n.sent = net.sent + 0
    BY <2>3 DEF Items
  <2>7. QED
    BY <1>1, <2>1, <2>3, <2>4, <2>5, <2>6
<1>5. ASSUME NEW n \in Nets, NEW i \in SUBSET (R \cup W), Arrives(n, i), Holds(n), n.inq = net.inq, n.sent = net.sent,
             n.alert = net.alert, n.fin = net.fin, n.reset = "no" => net.reset = "no", net.reset = "seen" => n.reset = "seen",
             net.peer_eof => n.peer_eof, n.peer_eof # net.peer_eof => R \subseteq i
      PROVE  IInv'
  <2>1. net' = n /\ UNCHANGED <<proto, pc, tls>>
    BY <1>5 DEF Arrives
  <2>2. InputInv'
    BY <1>5, <2>1 DEF IInv, InputInv, ReadEnds
  <2>3. QED
    BY <1>5, <2>2, ArrivesKeeps
<1>6. CASE PeerShutsDown
  <2>1. PICK n : n = [net EXCEPT !.peer_eof = TRUE]
    OBVIOUS
  <2>2. /\ n \in Nets /\ n.inq = net.inq /\ n.wire = net.wire /\ n.drained = net.drained /\ n.fin = net.fin
        /\ n.alert = net.alert /\ n.reset = net.reset /\ n.peer_eof /\ n.sent = net.sent
    BY <1>0, <2>1 DEF Nets
  <2>3. Arrives(n, R) /\ Holds(n)
    BY <1>0, <1>6, <2>1, <2>2 DEF PeerShutsDown, Holds
  <2>4. QED
    BY <1>5, <2>2, <2>3
<1>7. CASE PeerResets
  <2>1. PICK n : n = [net EXCEPT !.reset = "pending"]
    OBVIOUS
  <2>2. /\ n \in Nets /\ n.inq = net.inq /\ n.wire = net.wire /\ n.drained = net.drained /\ n.fin = net.fin
        /\ n.alert = net.alert /\ n.reset = "pending" /\ n.peer_eof = net.peer_eof /\ n.sent = net.sent
    BY <1>0, <2>1 DEF Nets
  <2>3. Arrives(n, R \cup W) /\ Holds(n) /\ net.reset = "no"
    BY <1>0, <1>7, <2>1, <2>2 DEF PeerResets, Holds
  <2>4. QED
    BY <1>5, <2>2, <2>3
<1>8. CASE PeerReads
  <2>1. PICK n : n = [net EXCEPT !.drained = @ + 1]
    OBVIOUS
  <2>2. /\ n \in Nets /\ n.inq = net.inq /\ n.wire = net.wire /\ n.drained = net.drained + 1 /\ n.fin = net.fin
        /\ n.alert = net.alert /\ n.reset = net.reset /\ n.peer_eof = net.peer_eof /\ n.sent = net.sent
        /\ net.drained \in Nat /\ Len(net.wire) \in Nat
    <3>1. net.wire \in Seq(Numbers \cup Control) /\ net.drained \in Nat
      BY <1>0 DEF Nets
    <3>2. Len(net.wire) \in Nat
      BY <3>1, LenProperties
    <3>3. net.drained + 1 \in Nat
      BY <3>1
    <3>4. QED
      BY <1>0, <2>1, <3>1, <3>2, <3>3 DEF Nets
  <2>3. PICK i \in SUBSET (R \cup W) : Arrives(n, i)
    BY <1>8, <2>1 DEF PeerReads
  <2>4. Holds(n)
    <3>1. SendBuf \in Nat /\ net.drained < Len(net.wire)
      BY <1>8, TCPConstants DEF PeerReads
    <3>2. QED
      BY <1>0, <2>2, <3>1 DEF Holds
  <2>5. QED
    BY <1>5, <2>2, <2>3, <2>4
<1>9. QED
  BY <1>2, <1>3, <1>4, <1>6, <1>7, <1>8 DEF Peer
-----------------------------------------------------------------------------
(***************************************************************************)
(* The methods.                                                            *)
(***************************************************************************)

\* the buffer and its marks stay
SameBuffer ==
  /\ t'.write_buf = t.write_buf /\ t'.write_buf_dsize = t.write_buf_dsize /\ t'.water_lo = t.water_lo
  /\ t'.water_hi = t.water_hi /\ t'.proto_paused = t.proto_paused

\* what rustls holds stays
SameTls ==
  /\ t'.tls_out = t.tls_out /\ t'.tls_close_sent = t.tls_close_sent /\ t'.tls_pending_close = t.tls_pending_close
  /\ t'.proto_buffered = t.proto_buffered /\ t'.tls_missed = t.tls_missed /\ t'.tls_full = t.tls_full

\* the kernel took bytes, or refused them
SentOnly ==
  /\ (net'.reset = "no" <=> net.reset = "no") /\ net'.inq = net.inq /\ net'.peer_eof = net.peer_eof
  /\ net'.fin = net.fin /\ net'.sent = net.sent /\ net'.alert = net.alert
  /\ ReadEnds(net) => ReadEnds(net)'

\* pause_reading and resume_reading.
LEMMA PauseResumeStep == IInv /\ (PauseReading \/ ResumeReading) => IInv'
<1> SUFFICES ASSUME IInv, PauseReading \/ ResumeReading PROVE IInv'
  OBVIOUS
<1>1. /\ ~t.closing /\ InPython /\ UNCHANGED <<role, tls, bound, queued, pc, net, proto>>
      /\ \E b \in BOOLEAN : t' = [t EXCEPT !.paused = b]
  BY DEF PauseReading, ResumeReading, App
<1>2. /\ t' \in Transports /\ SameBuffer /\ SameTls /\ t'.closing = t.closing /\ t'.weof = t.weof
  BY <1>1 DEF IInv, TypeInv, Transports, SameBuffer, SameTls
<1>3. /\ io' \in Entries /\ (W \subseteq io'.interest <=> W \subseteq io.interest)
      /\ R \subseteq io'.interest /\ Readable(net) => io'.armed \/ (R \subseteq io.interest /\ io' = io)
  <2>0. io \in Entries
    BY DEF IInv, TypeInv
  <2>1. CASE io' = tcp_stream_rem(net, io, R)
    <3>1. PICK s : s = tcp_stream_rem(net, io, R)
      OBVIOUS
    <3>2. s \in Entries /\ s.interest = io.interest \ R
      BY <2>0, <3>1, RemRead
    <3>3. QED
      BY <2>1, <3>1, <3>2 DEF R, W
  <2>2. CASE io' = tcp_stream_add(net, io, R)
    <3>1. PICK s : s = tcp_stream_add(net, io, R)
      OBVIOUS
    <3>2. /\ s \in Entries /\ s.interest = io.interest \cup R
          /\ Readable(net) => s.armed \/ (R \subseteq io.interest /\ s = io)
      BY <2>0, <3>1, AddRead
    <3>3. QED
      BY <2>2, <3>1, <3>2 DEF R, W
  <2>3. QED
    BY <2>1, <2>2 DEF PauseReading, ResumeReading
<1>4. TypeInv'
  BY <1>1, <1>2, <1>3 DEF IInv, TypeInv, LoopType, NetType
<1>5. BufferInv' /\ PlainInv' /\ HeldInv' /\ FinInv' /\ BatchInv' /\ InputInv'
  BY <1>1, <1>2 DEF IInv, BufferInv, PlainInv, HeldInv, FinInv, BatchInv, InputInv, SameBuffer, SameTls
<1>6. PolledInv' /\ DropInv'
  BY <1>1, <1>2, <1>3 DEF IInv, PolledInv, DropInv, InWriteHandle, SameBuffer, SameTls
<1>7. AnnounceInv'
  BY <1>1, <1>3 DEF IInv, AnnounceInv, Raw, InReadHandle, Readable
<1>8. QED
  BY <1>4, <1>5, <1>6, <1>7 DEF IInv

\* set_write_buffer_limits.
LEMMA LimitsStep == IInv /\ SetWriteBufferLimits => IInv'
<1> SUFFICES ASSUME IInv, SetWriteBufferLimits PROVE IInv'
  OBVIOUS
<1>1. UNCHANGED <<role, tls, io, bound, queued, pc, net, proto>>
  BY DEF SetWriteBufferLimits
<1>2. PICK hi \in Nat, lo \in Nat :
        /\ hi >= lo
        /\ t' = [t EXCEPT !.water_hi = hi, !.water_lo = lo, !.proto_paused = @ \/ t.write_buf_dsize > hi]
  <2>1. PICK high \in Marks \cup {-1}, low \in Marks \cup {-1} :
          LET hi == CASE high >= 0 -> high [] high < 0 /\ low >= 0 -> low * 4 [] OTHER -> HighWater
              lo == IF low >= 0 THEN low ELSE hi \div 4
          IN /\ hi >= lo
             /\ t' = [t EXCEPT !.water_hi = hi, !.water_lo = lo, !.proto_paused = @ \/ t.write_buf_dsize > hi]
    BY DEF SetWriteBufferLimits
  <2>2. PICK hi : hi = CASE high >= 0 -> high [] high < 0 /\ low >= 0 -> low * 4 [] OTHER -> HighWater
    OBVIOUS
  <2>3. PICK lo : lo = IF low >= 0 THEN low ELSE hi \div 4
    OBVIOUS
  <2>4. high \in Int /\ low \in Int /\ HighWater \in Nat
    BY TCPConstants
  <2>5. hi \in Nat
    BY <2>2, <2>4
  <2>6. lo \in Nat
    BY <2>3, <2>4, <2>5
  <2>7. /\ hi >= lo
        /\ t' = [t EXCEPT !.water_hi = hi, !.water_lo = lo, !.proto_paused = @ \/ t.write_buf_dsize > hi]
    BY <2>1, <2>2, <2>3
  <2>8. QED
    BY <2>5, <2>6, <2>7
<1>3. PICK b : b = (t.proto_paused \/ t.write_buf_dsize > hi)
  OBVIOUS
<1>4. b \in BOOLEAN /\ (b <=> t.proto_paused \/ t.write_buf_dsize > hi)
  BY <1>3
<1>5. t' = [t EXCEPT !.water_hi = hi, !.water_lo = lo, !.proto_paused = b]
  BY <1>2, <1>3
<1>6. /\ t' \in Transports /\ SameTls /\ t'.closing = t.closing /\ t'.weof = t.weof /\ t'.water_hi = hi /\ t'.water_lo = lo
      /\ t'.write_buf = t.write_buf /\ t'.write_buf_dsize = t.write_buf_dsize /\ t'.proto_paused = b
  BY <1>4, <1>5 DEF IInv, TypeInv, Transports, SameTls
<1>7. TypeInv'
  BY <1>1, <1>6 DEF IInv, TypeInv, LoopType, NetType
<1>8. BufferInv'
  <2>1. t.write_buf_dsize \in Nat /\ t.write_buf \in Seq(Numbers) /\ Len(<<>>) = 0
    BY DEF IInv, TypeInv, Transports
  <2>2. t.write_buf_dsize > hi => t.write_buf # <<>>
    BY <1>2, <2>1 DEF IInv, BufferInv
  <2>3. QED
    BY <1>1, <1>2, <1>4, <1>6, <2>1, <2>2 DEF IInv, BufferInv
<1>9. PlainInv' /\ HeldInv' /\ FinInv' /\ BatchInv' /\ InputInv'
  BY <1>1, <1>6 DEF IInv, PlainInv, HeldInv, FinInv, BatchInv, InputInv, SameTls
<1>10. PolledInv' /\ DropInv' /\ AnnounceInv'
  BY <1>1, <1>6 DEF IInv, PolledInv, DropInv, AnnounceInv, Raw, InWriteHandle, InReadHandle, SameTls
<1>11. QED
  BY <1>7, <1>8, <1>9, <1>10 DEF IInv

\* write_eof: FIN now if nothing waits.
LEMMA WriteEofStep == IInv /\ WriteEof => IInv'
<1> SUFFICES ASSUME IInv, WriteEof PROVE IInv'
  OBVIOUS
<1>1. /\ UNCHANGED <<role, tls, io, bound, queued, pc, proto>> /\ t' = [t EXCEPT !.weof = TRUE]
      /\ net' = [net EXCEPT !.fin = @ \/ t.write_buf_dsize = 0]
  BY DEF WriteEof
<1>2. /\ t' \in Transports /\ SameBuffer /\ SameTls /\ t'.closing = t.closing /\ t'.weof
  BY <1>1 DEF IInv, TypeInv, Transports, SameBuffer, SameTls
<1>3. PICK b : b = (net.fin \/ t.write_buf_dsize = 0)
  OBVIOUS
<1>4. b \in BOOLEAN /\ (b <=> net.fin \/ t.write_buf_dsize = 0)
  BY <1>3
<1>5. net' = [net EXCEPT !.fin = b]
  BY <1>1, <1>3
<1>6. /\ net' \in Nets /\ net'.fin = b /\ net'.inq = net.inq /\ net'.peer_eof = net.peer_eof /\ net'.reset = net.reset
      /\ net'.wire = net.wire /\ net'.drained = net.drained /\ net'.sent = net.sent /\ net'.alert = net.alert
  BY <1>4, <1>5 DEF IInv, TypeInv, NetType, Nets
<1>7. TypeInv'
  BY <1>1, <1>2, <1>6 DEF IInv, TypeInv, LoopType, NetType, Holds
<1>8. BufferInv' /\ PlainInv' /\ HeldInv' /\ BatchInv' /\ InputInv'
  BY <1>1, <1>2, <1>6 DEF IInv, BufferInv, PlainInv, HeldInv, BatchInv, InputInv, SameBuffer, SameTls, ReadEnds
<1>9. FinInv'
  <2>1. t.write_buf_dsize = 0 => t.write_buf = <<>>
    BY EmptySeq DEF IInv, BufferInv, TypeInv, Transports
  <2>2. QED
    BY <1>1, <1>2, <1>4, <1>6, <2>1 DEF IInv, FinInv, SameBuffer
<1>10. PolledInv' /\ DropInv' /\ AnnounceInv'
  BY <1>1, <1>2, <1>6 DEF IInv, PolledInv, DropInv, AnnounceInv, Raw, InWriteHandle, InReadHandle, SameBuffer, SameTls
<1>11. QED
  BY <1>7, <1>8, <1>9, <1>10 DEF IInv

\* abort.
LEMMA AbortStep == IInv /\ Abort => IInv'
<1> SUFFICES ASSUME IInv, Abort PROVE IInv'
  OBVIOUS
<1>0. io \in Entries /\ proto \in Calls /\ t \in Transports
  BY DEF IInv, TypeInv
<1>1. /\ UNCHANGED <<role, tls, queued, pc, net>> /\ t' = [t EXCEPT !.closing = TRUE]
      /\ proto' = [proto EXCEPT !.lost = @ + 1] /\ bound' = FALSE
  BY DEF Abort, SetClosing, Lost, Drop
<1>2. /\ t' \in Transports /\ SameBuffer /\ SameTls /\ t'.closing /\ t'.weof = t.weof
  BY <1>0, <1>1 DEF Transports, SameBuffer, SameTls
<1>3. /\ proto' \in Calls /\ proto'.received = proto.received /\ proto'.eofs = proto.eofs
      /\ proto'.lost = proto.lost + 1 /\ proto'.made = proto.made /\ proto.lost \in Nat
  BY <1>0, <1>1 DEF Calls
<1>4. PICK s : s = IF t.write_buf_dsize > 0 THEN tcp_stream_rem(net, io, W) ELSE io
  OBVIOUS
<1>5. /\ s \in Entries /\ s.interest \subseteq io.interest
      /\ R \subseteq s.interest /\ Readable(net) => s.armed \/ s = io
      /\ t.write_buf_dsize > 0 => ~(W \subseteq s.interest)
  <2>1. CASE t.write_buf_dsize > 0
    BY <1>0, <1>4, <2>1, RemWrite DEF W
  <2>2. CASE ~(t.write_buf_dsize > 0)
    BY <1>0, <1>4, <2>2
  <2>3. QED
    BY <2>1, <2>2
<1>6. /\ io' \in Entries /\ io'.interest \subseteq s.interest
      /\ R \subseteq io'.interest /\ Readable(net) => io'.armed \/ io' = io
      /\ ~t.closing => ~(R \subseteq io'.interest)
  <2>1. PICK r : r = tcp_stream_rem(net, s, R)
    OBVIOUS
  <2>2. r \in Entries /\ r.interest = s.interest \ R
    BY <1>5, <2>1, RemRead
  <2>3. io' = IF t.closing THEN s ELSE r
    BY <1>4, <2>1 DEF Abort
  <2>4. QED
    BY <1>5, <2>2, <2>3 DEF R
<1>7. TypeInv'
  BY <1>1, <1>2, <1>3, <1>6 DEF IInv, TypeInv, LoopType, NetType
<1>8. BufferInv' /\ PlainInv' /\ HeldInv' /\ FinInv' /\ BatchInv' /\ InputInv'
  BY <1>1, <1>2, <1>3 DEF IInv, BufferInv, PlainInv, HeldInv, FinInv, BatchInv, InputInv, SameBuffer, SameTls
<1>9. PolledInv'
  BY <1>1, <1>2, <1>3 DEF IInv, PolledInv, InWriteHandle, SameBuffer, SameTls
<1>10. DropInv'
  <2>1. t.write_buf_dsize > 0 \/ t.write_buf = <<>>
    BY <1>0, EmptySeq DEF IInv, BufferInv, Transports
  <2>2. W \subseteq io'.interest => W \subseteq io.interest /\ t.write_buf = <<>>
    BY <1>5, <1>6, <2>1 DEF W
  <2>3. R \subseteq io'.interest => R \subseteq io.interest /\ t.closing
    BY <1>5, <1>6
  <2>4. QED
    BY <1>1, <1>2, <1>3, <2>2, <2>3 DEF IInv, DropInv, InWriteHandle, SameBuffer, SameTls
<1>11. AnnounceInv'
  BY <1>1, <1>3, <1>6 DEF IInv, AnnounceInv, Raw, InReadHandle, Readable
<1>12. QED
  BY <1>7, <1>8, <1>9, <1>10, <1>11 DEF IInv

\* A direct write that fails.
LEMMA WriteErrorStep == IInv /\ WriteError => IInv'
<1> SUFFICES ASSUME IInv, WriteError PROVE IInv'
  OBVIOUS
<1>0. io \in Entries /\ proto \in Calls /\ t \in Transports /\ net \in Nets /\ Holds(net)
  BY DEF IInv, TypeInv, NetType
<1>1. /\ UNCHANGED <<role, tls, queued>> /\ t' = [SetClosing(t) EXCEPT !.written = @ + 1] /\ net' = Send(net, <<>>, 0)
      /\ (pc' = pc \/ (bound /\ pc' = "aborted")) /\ InPython
      /\ proto' = [proto EXCEPT !.lost = @ + 1] /\ bound' = FALSE
      /\ io' = IF t.closing THEN io ELSE tcp_stream_rem(net', io, R)
      /\ ~tls /\ t.write_buf_dsize = 0 /\ t.written < MaxWrites
  BY DEF WriteError, App, Lost, Drop
<1>2. /\ t' \in Transports /\ SameBuffer /\ SameTls /\ t'.closing /\ t'.weof = t.weof
  <2>1. PICK k : k = t.written + 1
    OBVIOUS
  <2>2. k \in 0..MaxWrites
    BY <1>0, <1>1, <2>1, TCPConstants DEF Transports
  <2>3. t' = [t EXCEPT !.closing = TRUE, !.written = k]
    BY <1>0, <1>1, <2>1 DEF SetClosing, Transports
  <2>4. QED
    BY <1>0, <2>2, <2>3 DEF Transports, SameBuffer, SameTls
<1>3. /\ proto' \in Calls /\ proto'.received = proto.received /\ proto'.eofs = proto.eofs
      /\ proto'.lost = proto.lost + 1 /\ proto'.made = proto.made /\ proto.lost \in Nat
  BY <1>0, <1>1 DEF Calls
<1>4. net' \in Nets /\ Holds(net') /\ SentOnly
  <2>1. PICK e : e = <<>>
    OBVIOUS
  <2>6. PICK m : m = Send(net, e, 0)
    OBVIOUS
  <2>2. e \in Seq(Numbers \cup Control) /\ 0 \in 0..Len(e) /\ 0 <= SendBuf - (Len(net.wire) - net.drained)
    <3>1. Len(net.wire) \in Nat /\ net.drained \in Nat /\ SendBuf \in Nat
      BY <1>0, LenProperties, TCPConstants DEF Nets
    <3>2. QED
      BY <1>0, <2>1, <3>1 DEF Holds
  <2>3. /\ m \in Nets /\ Holds(m) /\ (m.reset = "no" <=> net.reset = "no") /\ m.inq = net.inq
        /\ m.peer_eof = net.peer_eof /\ m.fin = net.fin /\ m.sent = net.sent /\ m.alert = net.alert
        /\ (ReadEnds(net) => ReadEnds(m))
    BY <1>0, <2>2, <2>6, SendNet
  <2>4. net' = m
    BY <1>1, <2>1, <2>6
  <2>5. QED
    BY <2>3, <2>4 DEF ReadEnds, SentOnly
<1>5. /\ io' \in Entries /\ io'.interest \subseteq io.interest
      /\ R \subseteq io'.interest => io' = io /\ t.closing
  <2>1. PICK m, r : m = net' /\ r = tcp_stream_rem(m, io, R)
    OBVIOUS
  <2>2. r \in Entries /\ r.interest = io.interest \ R
    BY <1>0, <2>1, RemRead
  <2>3. io' = IF t.closing THEN io ELSE r
    BY <1>1, <2>1
  <2>4. QED
    BY <1>0, <2>2, <2>3 DEF R
<1>6. TypeInv'
  BY <1>1, <1>2, <1>3, <1>4, <1>5 DEF IInv, TypeInv, LoopType, NetType
<1>7. BufferInv' /\ PlainInv' /\ HeldInv' /\ FinInv' /\ BatchInv' /\ InputInv'
  <2>1. BufferInv'
    BY <1>1, <1>2, <1>4 DEF IInv, BufferInv, SameBuffer, SentOnly
  <2>2. PlainInv' /\ HeldInv'
    BY <1>1, <1>2 DEF IInv, PlainInv, HeldInv, SameTls
  <2>3. FinInv'
    BY <1>1, <1>2, <1>4 DEF IInv, FinInv, SameBuffer, SentOnly
  <2>4. BatchInv'
    BY <1>1, <1>3 DEF IInv, BatchInv
  <2>5. InputInv'
    BY <1>1, <1>3, <1>4 DEF IInv, InputInv, SentOnly
  <2>6. QED
    BY <2>1, <2>2, <2>3, <2>4, <2>5
<1>8. PolledInv'
  BY <1>1, <1>2, <1>3 DEF IInv, PolledInv, InWriteHandle, SameBuffer, SameTls
<1>9. DropInv'
  <2>1. W \subseteq io'.interest => W \subseteq io.interest
    BY <1>5
  <2>2. QED
    BY <1>1, <1>2, <1>3, <1>5, <2>1 DEF IInv, DropInv, InWriteHandle, SameBuffer, SameTls
<1>10. AnnounceInv'
  <2>1. proto'.made = "calling" => pc' = pc
    BY <1>1, <1>3 DEF IInv, BatchInv
  <2>2. QED
    BY <1>1, <1>2, <1>3, <1>4, <1>5, <2>1 DEF IInv, AnnounceInv, Raw, InReadHandle, SentOnly, SameTls
<1>11. QED
  BY <1>6, <1>7, <1>8, <1>9, <1>10 DEF IInv

\* n became m by a send
SentTo(n, m) ==
  /\ m.reset = "no" <=> n.reset = "no"
  /\ m.inq = n.inq /\ m.peer_eof = n.peer_eof /\ m.fin = n.fin /\ m.sent = n.sent /\ m.alert = n.alert
  /\ ReadEnds(n) => ReadEnds(m)

\* What there is is sent, as far as the kernel takes it.
LEMMA SendPart ==
  ASSUME NEW n \in Nets, Holds(n), NEW bytes \in Seq(Numbers \cup Control), NEW a, a = Accepted(n, bytes),
         NEW m, m = Sent(n, bytes)
  PROVE  /\ m \in Nets /\ Holds(m) /\ SentTo(n, m) /\ a \in 0..Len(bytes)
         /\ m.wire = n.wire \o SubSeq(bytes, 1, a)
<1>1. a \in 0..Len(bytes) /\ a <= SendBuf - (Len(n.wire) - n.drained) /\ n.wire \in Seq(Numbers \cup Control)
  BY AcceptedRange DEF Nets
<1>2. CASE bytes = <<>>
  <2>1. SubSeq(bytes, 1, a) = <<>>
    BY <1>1, <1>2, SubSeqProperties
  <2>2. n.wire \o <<>> = n.wire
    BY <1>1, ConcatEmptySeq
  <2>3. QED
    BY <1>1, <1>2, <2>1, <2>2 DEF SentTo, Sent
<1>3. CASE bytes # <<>>
  <2>1. m = Send(n, bytes, a)
    BY <1>3 DEF Sent
  <2>2. PICK u : u = Send(n, bytes, a)
    OBVIOUS
  <2>3. /\ u \in Nets /\ Holds(u) /\ (u.reset = "no" <=> n.reset = "no") /\ u.inq = n.inq
        /\ u.peer_eof = n.peer_eof /\ u.fin = n.fin /\ u.sent = n.sent /\ u.alert = n.alert
        /\ (ReadEnds(n) => ReadEnds(u)) /\ u.wire = n.wire \o SubSeq(bytes, 1, a)
    BY <1>1, <2>2, SendNet
  <2>4. m = u
    BY <2>1, <2>2
  <2>5. QED
    BY <1>1, <2>3, <2>4 DEF SentTo
<1>4. QED
  BY <1>2, <1>3

\* The close alert goes out, behind what rustls holds.
LEMMA AlertSent ==
  ASSUME IInv, SendAlert
  PROVE  /\ net' \in Nets /\ Holds(net') /\ SentOnly
         /\ ~t.tls_full => \E z \in Seq(Control) : net'.wire = net.wire \o z
<1>0. net \in Nets /\ Holds(net) /\ t.tls_out \in Seq(Numbers \cup Control)
  BY DEF IInv, TypeInv, NetType, Transports
<1>1. PICK e, b : e = Append(t.tls_out, -1) /\ b = Handed(e)
  OBVIOUS
<1>2. -1 \in Control /\ -1 \in Numbers \cup Control
  BY DEF Control
<1>3. b \in Seq(Numbers \cup Control)
  <2>1. PICK S : S = Numbers \cup Control
    OBVIOUS
  <2>2. e \in Seq(S)
    BY <1>0, <1>1, <1>2, <2>1, AppendProperties
  <2>3. QED
    BY <1>1, <2>1, <2>2, HandedKept
<1>4. PICK k, m : k = Accepted(net, b) /\ m = Sent(net, b)
  OBVIOUS
<1>5. /\ m \in Nets /\ Holds(m) /\ SentTo(net, m) /\ k \in 0..Len(b)
      /\ m.wire = net.wire \o SubSeq(b, 1, k)
  BY <1>0, <1>3, <1>4, SendPart
<1>6. net' = m
  BY <1>1, <1>4 DEF SendAlert
<1>7. ASSUME ~t.tls_full PROVE SubSeq(b, 1, k) \in Seq(Control)
  <2>1. e \in Seq(Control)
    BY <1>1, <1>2, <1>7, AppendProperties DEF IInv, HeldInv
  <2>2. b \in Seq(Control)
    BY <1>1, <2>1, HandedKept
  <2>3. Len(b) \in Nat /\ \A i \in 1..Len(b) : b[i] \in Control
    BY <2>2, LenProperties, ElementOfSeq
  <2>4. k \in Int /\ \A i \in 1..k : b[i] \in Control
    BY <1>5, <2>3
  <2>5. QED
    BY <2>4, SubSeqProperties
<1>8. QED
  BY <1>5, <1>6, <1>7 DEF SentOnly, SentTo, ReadEnds

\* The alert is queued: what is left of the records counts as a limit met.
LEMMA AlertQueued ==
  ASSUME NEW u \in Transports, NEW v, v = Alert(u)
  PROVE  /\ v \in Transports /\ v.closing = u.closing /\ v.weof = u.weof /\ v.written = u.written
         /\ v.write_buf = u.write_buf /\ v.write_buf_dsize = u.write_buf_dsize /\ v.water_lo = u.water_lo
         /\ v.water_hi = u.water_hi /\ v.proto_paused = u.proto_paused /\ v.proto_buffered = u.proto_buffered
         /\ v.tls_missed = u.tls_missed /\ (~v.tls_full => v.tls_out = <<>> /\ ~u.tls_full)
<1>1. PICK e, b : e = Kept(Append(u.tls_out, -1)) /\ b = (u.tls_full \/ e # <<>>)
  OBVIOUS
<1>2. e \in Seq(Numbers \cup Control) /\ b \in BOOLEAN
  <2>1. PICK S : S = Numbers \cup Control
    OBVIOUS
  <2>2. u.tls_out \in Seq(S) /\ -1 \in S
    BY <2>1 DEF Transports, Control
  <2>3. Append(u.tls_out, -1) \in Seq(S)
    BY <2>2, AppendProperties
  <2>4. QED
    BY <1>1, <2>1, <2>3, HandedKept
<1>3. v = [u EXCEPT !.tls_close_sent = TRUE, !.tls_pending_close = FALSE, !.tls_out = e, !.tls_full = b]
  BY <1>1 DEF Alert
<1>4. QED
  BY <1>1, <1>2, <1>3 DEF Transports

\* close: at once, behind the buffer, or with an alert.
LEMMA CloseStep == IInv /\ Close => IInv'
<1> SUFFICES ASSUME IInv, Close PROVE IInv'
  OBVIOUS
<1>0. io \in Entries /\ proto \in Calls /\ t \in Transports /\ net \in Nets /\ Holds(net)
  BY DEF IInv, TypeInv, NetType
<1>1. UNCHANGED <<role, tls, queued, pc>> /\ InPython /\ ~t.closing
  BY DEF Close, AppOrServer, App, InPython
<1>2. CASE tls /\ t.write_buf # <<>> /\ t' = [SetClosing(t) EXCEPT !.tls_pending_close = TRUE] /\ UNCHANGED <<io, bound, net, proto>>
  <2>1. t' = [t EXCEPT !.closing = TRUE, !.tls_pending_close = TRUE]
    BY <1>0, <1>2 DEF SetClosing, Transports
  <2>2. /\ t' \in Transports /\ SameBuffer /\ t'.closing /\ t'.weof = t.weof /\ t'.tls_out = t.tls_out
        /\ t'.proto_buffered = t.proto_buffered /\ t'.tls_missed = t.tls_missed /\ t'.tls_full = t.tls_full
    BY <1>0, <2>1 DEF Transports, SameBuffer
  <2>3. TypeInv'
    BY <1>1, <1>2, <2>2 DEF IInv, TypeInv, LoopType, NetType
  <2>4. BufferInv' /\ PlainInv' /\ HeldInv' /\ FinInv' /\ BatchInv' /\ InputInv'
    BY <1>1, <1>2, <2>2 DEF IInv, BufferInv, PlainInv, HeldInv, FinInv, BatchInv, InputInv, SameBuffer
  <2>5. PolledInv' /\ DropInv' /\ AnnounceInv'
    BY <1>1, <1>2, <2>2 DEF IInv, PolledInv, DropInv, AnnounceInv, Raw, InWriteHandle, InReadHandle, SameBuffer
  <2>6. QED
    BY <2>3, <2>4, <2>5 DEF IInv
<1>3. CASE /\ tls /\ t.write_buf = <<>> /\ SendAlert /\ t' = Alert(SetClosing(t))
           /\ io' = tcp_stream_rem(net', io, W) /\ UNCHANGED <<bound, proto>>
  <2>1. PICK u : u = SetClosing(t)
    OBVIOUS
  <2>2. /\ t' \in Transports /\ SameBuffer /\ t'.closing /\ t'.weof = t.weof
        /\ t'.proto_buffered = t.proto_buffered /\ t'.tls_missed = t.tls_missed
        /\ ~t'.tls_full => t'.tls_out = <<>>
    <3>1. /\ u \in Transports /\ u.closing /\ u.weof = t.weof /\ u.write_buf = t.write_buf
          /\ u.write_buf_dsize = t.write_buf_dsize /\ u.water_lo = t.water_lo /\ u.water_hi = t.water_hi
          /\ u.proto_paused = t.proto_paused /\ u.proto_buffered = t.proto_buffered /\ u.tls_missed = t.tls_missed
      BY <1>0, <2>1 DEF Transports, SetClosing
    <3>2. PICK v : v = Alert(u)
      OBVIOUS
    <3>3. t' = v
      BY <1>3, <2>1, <3>2
    <3>4. /\ v \in Transports /\ v.closing = u.closing /\ v.weof = u.weof /\ v.write_buf = u.write_buf
          /\ v.write_buf_dsize = u.write_buf_dsize /\ v.water_lo = u.water_lo /\ v.water_hi = u.water_hi
          /\ v.proto_paused = u.proto_paused /\ v.proto_buffered = u.proto_buffered /\ v.tls_missed = u.tls_missed
          /\ ~v.tls_full => v.tls_out = <<>>
      BY <3>1, <3>2, AlertQueued
    <3>5. QED
      BY <3>1, <3>3, <3>4 DEF SameBuffer
  <2>3. net' \in Nets /\ Holds(net') /\ SentOnly
    BY <1>3, AlertSent
  <2>4. /\ io' \in Entries /\ io'.interest = io.interest \ W
        /\ R \subseteq io'.interest /\ Readable(net)' => io'.armed
    <3>1. PICK m, s : m = net' /\ s = tcp_stream_rem(m, io, W)
      OBVIOUS
    <3>2. s \in Entries /\ s.interest = io.interest \ W /\ (R \subseteq io.interest \ W /\ Readable(m) => s.armed)
      BY <1>0, <3>1, RemWrite
    <3>3. QED
      BY <1>3, <3>1, <3>2 DEF Readable
  <2>5. TypeInv'
    BY <1>1, <1>3, <2>2, <2>3, <2>4 DEF IInv, TypeInv, LoopType, NetType
  <2>6. BufferInv' /\ PlainInv' /\ HeldInv' /\ FinInv' /\ BatchInv' /\ InputInv'
    <3>1. HeldInv'
      BY <2>2, EmptySeq DEF HeldInv
    <3>2. BufferInv' /\ PlainInv'
      BY <1>1, <1>3, <2>2, <2>3 DEF IInv, BufferInv, PlainInv, SameBuffer, SentOnly
    <3>3. FinInv' /\ BatchInv' /\ InputInv'
      BY <1>1, <1>3, <2>2, <2>3 DEF IInv, FinInv, BatchInv, InputInv, SameBuffer, SentOnly
    <3>4. QED
      BY <3>1, <3>2, <3>3
  <2>7. PolledInv' /\ DropInv'
    BY <1>1, <1>3, <2>2, <2>3 DEF IInv, PolledInv, DropInv, InWriteHandle, SameBuffer
  <2>8. AnnounceInv'
    BY <2>4 DEF AnnounceInv, Raw, Readable
  <2>9. QED
    BY <2>5, <2>6, <2>7, <2>8 DEF IInv
<1>4. CASE /\ ~tls /\ t.write_buf_dsize = 0 /\ t' = SetClosing(t) /\ UNCHANGED net
           /\ io' = tcp_stream_rem(net, tcp_stream_rem(net, io, R), W) /\ proto' = Lost(proto) /\ Drop
  <2>1. /\ t' \in Transports /\ SameBuffer /\ SameTls /\ t'.closing /\ t'.weof = t.weof
    BY <1>0, <1>4 DEF Transports, SameBuffer, SameTls, SetClosing
  <2>2. /\ proto' \in Calls /\ proto'.received = proto.received /\ proto'.eofs = proto.eofs
        /\ proto'.lost = proto.lost + 1 /\ proto'.made = proto.made /\ proto.lost \in Nat
    BY <1>0, <1>4 DEF Calls, Lost
  <2>3. io' \in Entries /\ io'.interest = {}
    BY <1>0, <1>4, RemBoth
  <2>4. TypeInv'
    BY <1>1, <1>4, <2>1, <2>2, <2>3 DEF IInv, TypeInv, LoopType, NetType, Drop
  <2>5. BufferInv' /\ PlainInv' /\ HeldInv' /\ FinInv' /\ BatchInv' /\ InputInv'
    BY <1>1, <1>4, <2>1, <2>2 DEF IInv, BufferInv, PlainInv, HeldInv, FinInv, BatchInv, InputInv, SameBuffer, SameTls, Drop
  <2>6. PolledInv' /\ DropInv' /\ AnnounceInv'
    BY <1>1, <1>4, <2>1, <2>2, <2>3 DEF IInv, PolledInv, DropInv, AnnounceInv, Raw, InWriteHandle, InReadHandle, SameBuffer,
                                        SameTls, Drop, R, W
  <2>7. QED
    BY <2>4, <2>5, <2>6 DEF IInv
<1>5. CASE ~tls /\ t.write_buf_dsize > 0 /\ t' = SetClosing(t) /\ io' = tcp_stream_rem(net, io, R) /\ UNCHANGED <<bound, net, proto>>
  <2>1. /\ t' \in Transports /\ SameBuffer /\ SameTls /\ t'.closing /\ t'.weof = t.weof
    BY <1>0, <1>5 DEF Transports, SameBuffer, SameTls, SetClosing
  <2>2. io' \in Entries /\ io'.interest = io.interest \ R
    BY <1>0, <1>5, RemRead
  <2>3. TypeInv'
    BY <1>1, <1>5, <2>1, <2>2 DEF IInv, TypeInv, LoopType, NetType
  <2>4. BufferInv' /\ PlainInv' /\ HeldInv' /\ FinInv' /\ BatchInv' /\ InputInv'
    BY <1>1, <1>5, <2>1 DEF IInv, BufferInv, PlainInv, HeldInv, FinInv, BatchInv, InputInv, SameBuffer, SameTls
  <2>5. PolledInv' /\ DropInv' /\ AnnounceInv'
    BY <1>1, <1>5, <2>1, <2>2 DEF IInv, PolledInv, DropInv, AnnounceInv, Raw, InWriteHandle, InReadHandle, SameBuffer,
                                  SameTls, R, W
  <2>6. QED
    BY <2>3, <2>4, <2>5 DEF IInv
<1>6. QED
  BY <1>2, <1>3, <1>4, <1>5 DEF Close
-----------------------------------------------------------------------------
(***************************************************************************)
(* The ends of the handles.                                                *)
(***************************************************************************)

\* eof_received returns, and the transport is closed unless it said otherwise.
LEMMA EofReturnsStep == IInv /\ EofReturns => IInv'
<1> SUFFICES ASSUME IInv, EofReturns PROVE IInv'
  OBVIOUS
<1>0. io \in Entries /\ proto \in Calls /\ t \in Transports /\ proto.eofs > 0 /\ queued = "none"
  BY DEF IInv, TypeInv, DropInv, BatchInv, EofReturns
<1>1. UNCHANGED <<role, tls, queued, net>> /\ pc = "eof" /\ pc' = "idle"
  BY DEF EofReturns
<1>2. /\ \/ UNCHANGED t
         \/ ~t.closing /\ t' = [t EXCEPT !.closing = TRUE]
      /\ \/ UNCHANGED <<t, io, bound, proto>>
         \/ tls /\ t.tls_close_sent /\ proto' = Lost(proto) /\ bound' = FALSE /\ UNCHANGED <<t, io>>
         \/ tls /\ t' = [t EXCEPT !.closing = TRUE] /\ bound' = FALSE /\ UNCHANGED <<io, proto>>
         \/ ~tls /\ t' = [t EXCEPT !.closing = TRUE] /\ UNCHANGED <<io, bound, proto>>
         \/ /\ ~tls /\ t' = [t EXCEPT !.closing = TRUE] /\ proto' = Lost(proto) /\ bound' = FALSE
            /\ io' = tcp_stream_rem(net, io, W)
  BY DEF EofReturns, CloseFromRead, SetClosing, Drop
<1>3. t' \in Transports /\ SameBuffer /\ SameTls /\ t'.weof = t.weof /\ (t.closing => t'.closing)
  BY <1>0, <1>2 DEF Transports, SameBuffer, SameTls
<1>4. /\ \/ UNCHANGED <<t, io, bound, proto>>
         \/ tls /\ t'.closing /\ bound' = FALSE /\ UNCHANGED io
         \/ ~tls /\ t'.closing /\ UNCHANGED <<io, bound, proto>>
         \/ ~tls /\ t'.closing /\ bound' = FALSE /\ proto' = Lost(proto) /\ io' = tcp_stream_rem(net, io, W)
      /\ proto' \in {proto, Lost(proto)}
  <2>1. t.tls_close_sent => t.closing
    BY DEF IInv, DropInv
  <2>2. t' = [t EXCEPT !.closing = TRUE] => t'.closing
    BY <1>0 DEF Transports
  <2>3. QED
    BY <1>2, <2>1, <2>2
<1>5. /\ proto' \in Calls /\ proto'.received = proto.received /\ proto'.eofs = proto.eofs /\ proto'.made = proto.made
      /\ proto'.lost >= proto.lost /\ (proto' = Lost(proto) => proto'.lost > 0) /\ proto'.lost \in Nat /\ proto.lost \in Nat
  BY <1>0, <1>4 DEF Calls, Lost
<1>6. /\ io' \in Entries /\ io'.interest \subseteq io.interest
      /\ R \subseteq io'.interest /\ Readable(net) => io'.armed \/ io' = io
      /\ io' # io => ~(W \subseteq io'.interest) /\ proto'.lost > 0
  <2>1. PICK s : s = tcp_stream_rem(net, io, W)
    OBVIOUS
  <2>2. s \in Entries /\ s.interest = io.interest \ W /\ (R \subseteq io.interest \ W /\ Readable(net) => s.armed)
    BY <1>0, <2>1, RemWrite
  <2>3. QED
    BY <1>0, <1>4, <1>5, <2>1, <2>2 DEF W
<1>7. TypeInv'
  <2>1. bound' \in BOOLEAN
    BY <1>4 DEF IInv, TypeInv, LoopType
  <2>2. QED
    BY <1>1, <1>3, <1>5, <1>6, <2>1 DEF IInv, TypeInv, LoopType, NetType
<1>8. BufferInv' /\ PlainInv' /\ HeldInv' /\ FinInv' /\ BatchInv' /\ InputInv'
  BY <1>0, <1>1, <1>3, <1>5 DEF IInv, BufferInv, PlainInv, HeldInv, FinInv, BatchInv, InputInv, SameBuffer, SameTls
<1>9. PolledInv'
  <2>1. bound' => bound
    BY <1>4
  <2>2. proto'.lost = 0 => proto.lost = 0 /\ io' = io
    BY <1>5, <1>6
  <2>3. bound' => io' = io
    BY <1>4
  <2>4. QED
    BY <1>1, <1>3, <2>1, <2>2, <2>3 DEF IInv, PolledInv, InWriteHandle, SameBuffer, SameTls
<1>10. DropInv'
  <2>1. t'.tls_close_sent \/ t'.tls_pending_close => t'.closing
    BY <1>3 DEF IInv, DropInv, SameTls
  <2>2. ~bound' /\ proto.made # "calling" => t'.closing /\ (~tls => proto'.lost > 0)
    BY <1>3, <1>4, <1>5 DEF IInv, DropInv
  <2>3. W \subseteq io'.interest => W \subseteq io.interest /\ io' = io
    BY <1>6
  <2>4. QED
    BY <1>0, <1>1, <1>3, <1>5, <2>1, <2>2, <2>3 DEF IInv, DropInv, InWriteHandle, SameBuffer
<1>11. AnnounceInv'
  <2>1. bound' => bound
    BY <1>4
  <2>2. QED
    BY <1>0, <1>1, <1>3, <1>5, <1>6, <2>1 DEF IInv, AnnounceInv, Raw, InReadHandle, Readable, SameTls
<1>12. QED
  BY <1>7, <1>8, <1>9, <1>10, <1>11 DEF IInv

\* The write handle ends: FIN, connection_lost or the alert when all is sent.
LEMMA WriteHandleEndsStep == IInv /\ WriteHandleEnds => IInv'
<1> SUFFICES ASSUME IInv, WriteHandleEnds PROVE IInv'
  OBVIOUS
<1>0. /\ io \in Entries /\ proto \in Calls /\ t \in Transports /\ net \in Nets /\ Holds(net) /\ queued = "none"
      /\ ~t.tls_full => t.tls_out = <<>>
  BY DEF IInv, TypeInv, NetType, BatchInv, PolledInv, InWriteHandle, WriteHandleEnds
<1>1. /\ UNCHANGED <<role, tls, queued>> /\ pc \in {"wrote", "failed"} /\ pc' = "idle"
      /\ io' = IF t.write_buf = <<>> THEN tcp_stream_rem(net, io, W) ELSE io
  BY DEF WriteHandleEnds
<1>2. /\ io' \in Entries /\ io'.interest \subseteq io.interest
      /\ R \subseteq io'.interest /\ Readable(net) => io'.armed \/ io' = io
      /\ t.write_buf = <<>> => ~(W \subseteq io'.interest)
      /\ t.write_buf # <<>> => io' = io
  <2>1. PICK s : s = tcp_stream_rem(net, io, W)
    OBVIOUS
  <2>2. s \in Entries /\ s.interest = io.interest \ W /\ (R \subseteq io.interest \ W /\ Readable(net) => s.armed)
    BY <1>0, <2>1, RemWrite
  <2>3. QED
    BY <1>0, <1>1, <2>1, <2>2 DEF W
<1>3. CASE UNCHANGED <<t, bound, net, proto>>
  <2>1. TypeInv'
    BY <1>1, <1>2, <1>3 DEF IInv, TypeInv, LoopType, NetType
  <2>2. BufferInv' /\ PlainInv' /\ HeldInv' /\ FinInv' /\ BatchInv' /\ InputInv'
    BY <1>0, <1>1, <1>3 DEF IInv, BufferInv, PlainInv, HeldInv, FinInv, BatchInv, InputInv
  <2>3. PolledInv' /\ DropInv'
    BY <1>0, <1>1, <1>2, <1>3 DEF IInv, PolledInv, DropInv, InWriteHandle
  <2>4. AnnounceInv'
    BY <1>0, <1>1, <1>2, <1>3 DEF IInv, AnnounceInv, Raw, InReadHandle, Readable
  <2>5. QED
    BY <2>1, <2>2, <2>3, <2>4 DEF IInv
<1>4. CASE t.tls_pending_close /\ SendAlert /\ t' = Alert(t) /\ Drop /\ UNCHANGED proto
  <2>1. /\ t' \in Transports /\ SameBuffer /\ t'.closing = t.closing /\ t'.weof = t.weof
        /\ ~t'.tls_full => t'.tls_out = <<>>
    BY <1>0, <1>4, AlertQueued DEF SameBuffer
  <2>2. net' \in Nets /\ Holds(net') /\ SentOnly
    BY <1>4, AlertSent
  <2>3. tls /\ t.closing /\ bound' = FALSE
    BY <1>4 DEF IInv, PlainInv, HeldInv, DropInv, Drop
  <2>4. TypeInv'
    BY <1>1, <1>2, <1>4, <2>1, <2>2, <2>3 DEF IInv, TypeInv, LoopType, NetType
  <2>5. BufferInv' /\ PlainInv' /\ HeldInv' /\ FinInv' /\ BatchInv' /\ InputInv'
    <3>1. HeldInv'
      BY <2>1, EmptySeq DEF HeldInv
    <3>2. BufferInv' /\ PlainInv'
      BY <1>1, <1>4, <2>1, <2>2, <2>3 DEF IInv, BufferInv, PlainInv, SameBuffer, SentOnly
    <3>3. FinInv' /\ BatchInv' /\ InputInv'
      BY <1>0, <1>1, <1>4, <2>1, <2>2, <2>3 DEF IInv, FinInv, BatchInv, InputInv, SameBuffer, SentOnly
    <3>4. QED
      BY <3>1, <3>2, <3>3
  <2>6. PolledInv' /\ DropInv'
    BY <1>1, <1>2, <1>4, <2>1, <2>3 DEF IInv, PolledInv, DropInv, InWriteHandle, SameBuffer
  <2>7. AnnounceInv'
    BY <1>1, <1>4, <2>3 DEF IInv, AnnounceInv, Raw, BatchInv
  <2>8. QED
    BY <2>4, <2>5, <2>6, <2>7 DEF IInv
<1>5. CASE BufferSent /\ t.closing /\ proto' = Lost(proto) /\ Drop /\ UNCHANGED <<t, net>>
  <2>1. /\ proto' \in Calls /\ proto'.received = proto.received /\ proto'.eofs = proto.eofs
        /\ proto'.lost = proto.lost + 1 /\ proto'.made = proto.made /\ proto.lost \in Nat
    BY <1>0, <1>5 DEF Calls, Lost
  <2>2. ~tls => t.write_buf = <<>>
    BY <1>5 DEF IInv, FinInv, BufferSent
  <2>3. TypeInv'
    BY <1>1, <1>2, <1>5, <2>1 DEF IInv, TypeInv, LoopType, NetType, Drop
  <2>4. BufferInv' /\ PlainInv' /\ HeldInv' /\ FinInv' /\ BatchInv' /\ InputInv'
    BY <1>0, <1>1, <1>5, <2>1 DEF IInv, BufferInv, PlainInv, HeldInv, FinInv, BatchInv, InputInv
  <2>5. PolledInv' /\ DropInv'
    BY <1>0, <1>1, <1>2, <1>5, <2>1, <2>2 DEF IInv, PolledInv, DropInv, InWriteHandle, Drop
  <2>6. AnnounceInv'
    BY <1>0, <1>1, <1>2, <1>5, <2>1 DEF IInv, AnnounceInv, Raw, InReadHandle, Readable, Drop, BatchInv
  <2>7. QED
    BY <2>3, <2>4, <2>5, <2>6 DEF IInv
<1>6. CASE BufferSent /\ net' = [net EXCEPT !.fin = @ \/ t.weof] /\ UNCHANGED <<t, bound, proto>>
  <2>1. PICK b : b = (net.fin \/ t.weof)
    OBVIOUS
  <2>2. b \in BOOLEAN /\ (b <=> net.fin \/ t.weof)
    BY <2>1
  <2>3. /\ net' \in Nets /\ net'.fin = b /\ net'.inq = net.inq /\ net'.peer_eof = net.peer_eof /\ net'.reset = net.reset
        /\ net'.wire = net.wire /\ net'.drained = net.drained /\ net'.sent = net.sent /\ net'.alert = net.alert
    BY <1>0, <1>6, <2>1, <2>2 DEF Nets
  <2>4. ~tls => t.write_buf = <<>>
    BY <1>6 DEF IInv, FinInv, BufferSent
  <2>5. TypeInv'
    BY <1>1, <1>2, <1>6, <2>3 DEF IInv, TypeInv, LoopType, NetType, Holds
  <2>6. BufferInv' /\ PlainInv' /\ HeldInv' /\ FinInv' /\ BatchInv' /\ InputInv'
    BY <1>0, <1>1, <1>6, <2>2, <2>3, <2>4 DEF IInv, BufferInv, PlainInv, HeldInv, FinInv, BatchInv, InputInv, ReadEnds
  <2>7. PolledInv' /\ DropInv'
    BY <1>0, <1>1, <1>2, <1>6, <2>3 DEF IInv, PolledInv, DropInv, InWriteHandle
  <2>8. AnnounceInv'
    BY <1>0, <1>1, <1>2, <1>6, <2>3 DEF IInv, AnnounceInv, Raw, InReadHandle, Readable
  <2>9. QED
    BY <2>5, <2>6, <2>7, <2>8 DEF IInv
<1>7. QED
  BY <1>3, <1>4, <1>5, <1>6 DEF WriteHandleEnds, Closes
-----------------------------------------------------------------------------
(***************************************************************************)
(* Reading.                                                                *)
(***************************************************************************)

\* read_into takes the first k messages.
LEMMA ReadNet ==
  ASSUME net \in Nets, Holds(net), NEW k \in 0..Len(net.inq), NEW full
  PROVE  /\ Read(k, full) \in Nets /\ Holds(Read(k, full)) /\ Read(k, full).inq = Rest(net.inq, k)
         /\ Read(k, full).reset = "no" <=> net.reset = "no"
         /\ Read(k, full).peer_eof = net.peer_eof /\ Read(k, full).wire = net.wire
         /\ Read(k, full).fin = net.fin /\ Read(k, full).sent = net.sent /\ Read(k, full).alert = net.alert
         /\ ReadEnds(net) => ReadEnds(Read(k, full))
<1>1. PICK q, r : /\ q = Rest(net.inq, k)
                  /\ r = IF ~full /\ net.reset = "pending" /\ ~net.peer_eof THEN "seen" ELSE net.reset
  OBVIOUS
<1>2. PICK m : m = [net EXCEPT !.inq = q, !.reset = r]
  OBVIOUS
<1>3. Read(k, full) = m
  BY <1>1, <1>2 DEF Read, Rest
<1>4. q \in Seq(Items)
  <2>1. net.inq \in Seq(Items)
    BY DEF Nets
  <2>2. QED
    BY <1>1, <2>1, RestSeq
<1>5. r \in {"no", "pending", "seen"} /\ (r = "no" <=> net.reset = "no") /\ (net.reset = "seen" => r = "seen")
  BY <1>1 DEF Nets
<1>6. /\ m \in Nets /\ m.inq = q /\ m.reset = r /\ m.peer_eof = net.peer_eof /\ m.wire = net.wire /\ m.drained = net.drained
      /\ m.fin = net.fin /\ m.sent = net.sent /\ m.alert = net.alert
  BY <1>2, <1>4, <1>5 DEF Nets
<1>7. Holds(m) /\ (ReadEnds(net) => ReadEnds(m))
  BY <1>5, <1>6 DEF Holds, ReadEnds
<1>8. QED
  BY <1>1, <1>3, <1>5, <1>6, <1>7

\* A message is taken once: what rustls takes and what stays in the socket are
\* different parts of the input.
LEMMA CountSplit ==
  ASSUME NEW S, NEW q \in Seq(S), NEW k \in 0..Len(q), NEW m \in 0..k, NEW x
  PROVE  /\ SubSeq(q, 1, m) \in Seq(S) /\ \A i \in DOMAIN SubSeq(q, 1, m) : i \in DOMAIN q /\ SubSeq(q, 1, m)[i] = q[i]
         /\ Count(SubSeq(q, 1, m), x) + Count(Rest(q, k), x) <= Count(q, x)
<1>1. Len(q) \in Nat /\ DOMAIN q = 1..Len(q) /\ m \in 0..Len(q) /\ \A i \in 1..Len(q) : q[i] \in S
  BY LenProperties, ElementOfSeq
<1>2. PICK g, r : g = SubSeq(q, 1, m) /\ r = Rest(q, k)
  OBVIOUS
<1>3. g \in Seq(S) /\ DOMAIN g = 1..m /\ \A i \in 1..m : g[i] = q[i]
  <2>1. m \in Int /\ \A i \in 1..m : q[i] \in S
    BY <1>1
  <2>2. g \in Seq(S) /\ Len(g) = m /\ \A i \in 1..m : g[i] = q[i]
    BY <1>1, <1>2, <2>1, SubSeqProperties
  <2>3. QED
    BY <2>2, LenProperties
<1>4. DOMAIN r = 1..(Len(q) - k) /\ \A i \in 1..(Len(q) - k) : r[i] = q[i + k]
  <2>1. r \in Seq(S) /\ Len(r) = Len(q) - k /\ \A i \in 1..(Len(q) - k) : r[i] = q[i + k]
    BY <1>2, RestSeq
  <2>2. QED
    BY <2>1, LenProperties
<1>5. PICK A, B, C, I : /\ A = {i \in DOMAIN g : g[i] = x} /\ B = {i \in DOMAIN r : r[i] = x}
                        /\ C = {i \in (k + 1)..Len(q) : q[i] = x} /\ I = {i \in DOMAIN q : q[i] = x}
  OBVIOUS
<1>6. A \subseteq I /\ C \subseteq I /\ A \cap C = {} /\ I \subseteq 1..Len(q)
  BY <1>1, <1>3, <1>5
<1>7. IsFiniteSet(I) /\ IsFiniteSet(A) /\ IsFiniteSet(C)
  <2>1. IsFiniteSet(1..Len(q))
    BY <1>1, FS_Interval
  <2>2. IsFiniteSet(I)
    BY <1>6, <2>1, FS_Subset
  <2>3. QED
    BY <1>6, <2>2, FS_Subset
<1>8. IsFiniteSet(B) /\ Cardinality(B) <= Cardinality(C)
  <2>1. PICK f : f = [i \in B |-> i + k]
    OBVIOUS
  <2>2. \A i \in B : i \in Int /\ i + k \in C
    BY <1>1, <1>4, <1>5
  <2>3. f \in [B -> C] /\ \A i, j \in B : f[i] = f[j] => i = j
    BY <1>1, <2>1, <2>2
  <2>4. f \in Injection(B, C)
    BY <2>3 DEF Injection, IsInjective
  <2>5. QED
    BY <1>7, <2>4, FS_Injection
<1>9. Cardinality(A \cup C) = Cardinality(A) + Cardinality(C)
  <2>1. Cardinality(A \cup C) = Cardinality(A) + Cardinality(C) - Cardinality(A \cap C)
    BY <1>7, FS_Union
  <2>2. Cardinality(A \cap C) = 0 /\ Cardinality(A) \in Nat /\ Cardinality(C) \in Nat
    BY <1>6, <1>7, FS_EmptySet, FS_CardinalityType
  <2>3. QED
    BY <2>1, <2>2
<1>10. Cardinality(A \cup C) <= Cardinality(I)
  <2>1. A \cup C \in SUBSET I
    BY <1>6
  <2>2. QED
    BY <1>7, <2>1, FS_Subset
<1>11. Cardinality(A) + Cardinality(B) <= Cardinality(I)
  <2>1. /\ Cardinality(A) \in Nat /\ Cardinality(B) \in Nat /\ Cardinality(C) \in Nat /\ Cardinality(I) \in Nat
    BY <1>7, <1>8, FS_CardinalityType
  <2>2. QED
    BY <1>8, <1>9, <1>10, <2>1
<1>12. QED
  <2>1. Count(g, x) = Cardinality(A) /\ Count(r, x) = Cardinality(B) /\ Count(q, x) = Cardinality(I)
    BY <1>5 DEF Count
  <2>2. \A i \in DOMAIN g : i \in DOMAIN q /\ g[i] = q[i]
    BY <1>1, <1>3
  <2>3. QED
    BY <1>2, <1>3, <1>11, <2>1, <2>2

\* read_into leaves the rest of the input.
LEMMA ReadInput ==
  ASSUME net \in Nets, Holds(net), NEW k \in 0..Len(net.inq), NEW full, net' = Read(k, full)
  PROVE  /\ net' \in Nets /\ Holds(net') /\ net'.inq = Rest(net.inq, k) /\ (net'.reset = "no" <=> net.reset = "no")
         /\ net'.peer_eof = net.peer_eof /\ net'.fin = net.fin /\ net'.sent = net.sent /\ net'.alert = net.alert
         /\ ReadEnds(net) => ReadEnds(net)'
         /\ net.inq \in Seq(Items) /\ Len(net.inq) \in Nat /\ Len(net'.inq) = Len(net.inq) - k
         /\ (net'.inq = <<>> <=> k = Len(net.inq)) /\ net'.inq \in Seq(Items)
         /\ \A i \in DOMAIN net'.inq : \E j \in DOMAIN net.inq : net'.inq[i] = net.inq[j]
<1>1. /\ net' \in Nets /\ Holds(net') /\ net'.inq = Rest(net.inq, k) /\ (net'.reset = "no" <=> net.reset = "no")
      /\ net'.peer_eof = net.peer_eof /\ net'.fin = net.fin /\ net'.sent = net.sent /\ net'.alert = net.alert
      /\ ReadEnds(net) => ReadEnds(net)'
  <2>1. PICK m : m = Read(k, full)
    OBVIOUS
  <2>2. /\ m \in Nets /\ Holds(m) /\ m.inq = Rest(net.inq, k) /\ (m.reset = "no" <=> net.reset = "no")
        /\ m.peer_eof = net.peer_eof /\ m.fin = net.fin /\ m.sent = net.sent /\ m.alert = net.alert
        /\ ReadEnds(net) => ReadEnds(m)
    BY <2>1, ReadNet
  <2>3. QED
    BY <2>1, <2>2 DEF ReadEnds
<1>2. net.inq \in Seq(Items) /\ Len(net.inq) \in Nat /\ DOMAIN net.inq = 1..Len(net.inq)
  BY LenProperties DEF Nets
<1>3. PICK b, q : b = net.inq /\ q = Rest(b, k)
  OBVIOUS
<1>4. b \in Seq(Items) /\ k \in 0..Len(b)
  BY <1>2, <1>3
<1>5. /\ q \in Seq(Items) /\ Len(q) = Len(b) - k /\ \A i \in 1..(Len(b) - k) : q[i] = b[i + k]
      /\ q = <<>> <=> k = Len(b)
  <2>1. /\ Rest(b, k) \in Seq(Items) /\ Len(Rest(b, k)) = Len(b) - k
        /\ \A i \in 1..(Len(b) - k) : Rest(b, k)[i] = b[i + k]
        /\ Rest(b, k) = <<>> <=> k = Len(b)
    BY <1>4, RestSeq, Zenon
  <2>2. QED
    BY <1>3, <2>1, Zenon
<1>6. DOMAIN q = 1..(Len(b) - k)
  BY <1>5, LenProperties
<1>7. \A i \in DOMAIN q : i + k \in DOMAIN b /\ q[i] = b[i + k]
  BY <1>2, <1>3, <1>5, <1>6
<1>8. net'.inq = q
  BY <1>1, <1>3
<1>9. QED
  BY <1>1, <1>2, <1>3, <1>5, <1>7, <1>8

\* A read that bypasses rustls.
LEMMA RecvPlainStep == IInv /\ RecvPlain => IInv'
<1> SUFFICES ASSUME IInv, RecvPlain PROVE IInv'
  OBVIOUS
<1>0. /\ io \in Entries /\ proto \in Calls /\ t \in Transports /\ net \in Nets /\ Holds(net) /\ queued = "none"
      /\ proto.made # "calling" /\ pc = "reading"
  BY DEF IInv, TypeInv, NetType, BatchInv, RecvPlain
<1>1. UNCHANGED <<role, tls, t, bound, queued>>
  BY DEF RecvPlain
<1>2. PICK k \in 0..Len(net.inq), full \in BOOLEAN :
        /\ IF full THEN k > 0 ELSE k = Len(net.inq)
        /\ net' = Read(k, full)
        /\ LET eof == EofSeen(full)
               p == [proto EXCEPT !.received = @ + IF tls THEN 0 ELSE k]
           IN \/ k > 0 /\ pc' = (IF eof THEN "dataeof" ELSE "data") /\ proto' = p /\ UNCHANGED io
              \/ k = 0 /\ eof /\ CallEofReceived(p)
              \/ k = 0 /\ ~eof /\ pc' = "idle" /\ UNCHANGED <<proto, io>>
  BY DEF RecvPlain, Reads
<1>3. /\ net' \in Nets /\ Holds(net') /\ net'.inq = Rest(net.inq, k) /\ (net'.reset = "no" <=> net.reset = "no")
      /\ net'.peer_eof = net.peer_eof /\ net'.fin = net.fin /\ net'.sent = net.sent /\ net'.alert = net.alert
      /\ ReadEnds(net) => ReadEnds(net)'
  BY <1>0, <1>2, ReadInput
<1>4. /\ net.inq \in Seq(Items) /\ Len(net.inq) \in Nat /\ Len(net'.inq) = Len(net.inq) - k
      /\ (net'.inq = <<>> <=> k = Len(net.inq)) /\ net'.inq \in Seq(Items)
      /\ \A i \in DOMAIN net'.inq : \E j \in DOMAIN net.inq : net'.inq[i] = net.inq[j]
  BY <1>0, <1>2, ReadInput
<1>5. /\ proto' \in Calls /\ proto'.made = proto.made /\ proto'.lost = proto.lost
      /\ proto'.received = proto.received + (IF tls THEN 0 ELSE k)
      /\ proto.received \in Nat /\ proto.eofs \in Nat /\ k \in Nat
      /\ proto'.eofs = IF pc' = "eof" THEN proto.eofs + 1 ELSE proto.eofs
  <2>1. PICK d : d = IF tls THEN 0 ELSE k
    OBVIOUS
  <2>2. PICK p : p = [proto EXCEPT !.received = @ + d]
    OBVIOUS
  <2>6. k \in Nat /\ d \in Nat /\ (k = 0 => d = 0)
    BY <1>4, <2>1
  <2>3. /\ p \in Calls /\ p.received = proto.received + d /\ p.made = proto.made /\ p.lost = proto.lost /\ p.eofs = proto.eofs
        /\ proto.received \in Nat /\ proto.eofs \in Nat
    BY <1>0, <2>2, <2>6 DEF Calls
  <2>4. \/ proto' = p /\ pc' # "eof"
        \/ pc' = "eof" /\ proto' = [p EXCEPT !.eofs = @ + 1]
        \/ proto' = proto /\ k = 0 /\ pc' # "eof"
    BY <1>2, <2>1, <2>2 DEF CallEofReceived
  <2>7. proto' \in Calls /\ proto'.made = proto.made /\ proto'.lost = proto.lost /\ proto'.received = proto.received + d
        /\ proto'.eofs = IF pc' = "eof" THEN proto.eofs + 1 ELSE proto.eofs
    BY <1>0, <2>3, <2>4, <2>6 DEF Calls
  <2>5. QED
    BY <2>1, <2>3, <2>6, <2>7
<1>6. /\ pc' = "dataeof" \/ pc' = "eof" => ReadEnds(net) /\ k = Len(net.inq)
      /\ pc' = "idle" => ~ReadEnds(net) /\ k = Len(net.inq)
      /\ pc' \in {"data", "dataeof", "eof", "idle"}
  BY <1>2 DEF EofSeen, CallEofReceived
<1>7. /\ io' \in Entries /\ (W \subseteq io'.interest <=> W \subseteq io.interest)
      /\ R \subseteq io'.interest => R \subseteq io.interest /\ pc' # "eof"
  <2>1. PICK m, s : m = net' /\ s = tcp_stream_rem(m, io, R)
    OBVIOUS
  <2>2. s \in Entries /\ s.interest = io.interest \ R
    BY <1>0, <2>1, RemRead
  <2>3. (io' = io /\ pc' # "eof") \/ io' = s
    BY <1>2, <2>1 DEF CallEofReceived
  <2>4. QED
    BY <1>0, <2>2, <2>3 DEF R, W
<1>8. TypeInv'
  BY <1>1, <1>3, <1>5, <1>6, <1>7 DEF IInv, TypeInv, LoopType, NetType
<1>9. BufferInv' /\ PlainInv' /\ HeldInv' /\ FinInv' /\ BatchInv'
  BY <1>0, <1>1, <1>3, <1>5, <1>6 DEF IInv, BufferInv, PlainInv, HeldInv, FinInv, BatchInv
<1>10. InputInv'
  <2>1. ~tls => proto'.received + Len(net'.inq) = net'.sent
    BY <1>1, <1>3, <1>4, <1>5 DEF IInv, InputInv
  <2>2. PICK q \in Seq(Items), r \in Seq(Items) : q = net.inq /\ r = net'.inq /\ r = Rest(q, k) /\ k \in 0..Len(q)
    BY <1>3, <1>4
  <2>3. Count(r, "data") \in 0..Len(r) /\ Count(q, "data") \in 0..Len(q) /\ Len(r) \in Nat /\ Len(q) \in Nat
    BY CountRange, LenProperties
  <2>4. Count(r, "data") <= Count(q, "data")
    <3>1. PICK g : g = SubSeq(q, 1, 0)
      OBVIOUS
    <3>2. 0 \in 0..k
      BY <1>5
    <3>3. g \in Seq(Items) /\ Count(g, "data") + Count(r, "data") <= Count(q, "data")
      BY <2>2, <3>1, <3>2, CountSplit
    <3>4. Count(g, "data") \in Nat
      BY <3>3, CountRange, LenProperties
    <3>5. QED
      BY <2>3, <3>3, <3>4
  <2>5. proto'.received + Count(net'.inq, "data") <= net'.sent
    <3>1. net.sent \in Nat /\ proto.received + Count(q, "data") <= net.sent
      BY <1>0, <2>2, TCPConstants DEF IInv, InputInv, Nets
    <3>2. CASE tls
      BY <1>3, <1>5, <2>2, <2>3, <2>4, <3>1, <3>2
    <3>3. CASE ~tls
      BY <1>3, <1>5, <2>1, <2>2, <2>3, <3>1, <3>3
    <3>4. QED
      BY <3>2, <3>3
  <2>6. (\E i \in DOMAIN net'.inq : net'.inq[i] = "alert") => net'.alert
    BY <1>3, <1>4 DEF IInv, InputInv
  <2>7. ~tls /\ (pc' = "dataeof" \/ proto'.eofs > 0) => ReadEnds(net)' /\ net'.inq = <<>>
    <3>1. CASE pc' = "dataeof" \/ pc' = "eof"
      BY <1>3, <1>4, <1>6, <3>1
    <3>2. CASE ~tls /\ proto.eofs > 0
      <4>1. ReadEnds(net) /\ net.inq = <<>>
        BY <3>2 DEF IInv, InputInv
      <4>2. Len(net.inq) = 0
        BY <4>1
      <4>3. k = Len(net.inq)
        BY <1>5, <4>2
      <4>4. QED
        BY <1>3, <1>4, <4>1, <4>3
    <3>3. QED
      BY <1>5, <1>6, <3>1, <3>2
  <2>8. QED
    BY <1>1, <2>1, <2>5, <2>6, <2>7 DEF InputInv
<1>11. PolledInv' /\ DropInv'
  BY <1>0, <1>1, <1>3, <1>5, <1>6, <1>7 DEF IInv, PolledInv, DropInv, InWriteHandle
<1>12. AnnounceInv'
  BY <1>3, <1>4, <1>6, <1>7 DEF AnnounceInv, Raw, InReadHandle, ReadEnds
<1>13. QED
  BY <1>8, <1>9, <1>10, <1>11, <1>12 DEF IInv

\* one read with TLS: k messages are read, rustls takes m of them
RecvOnce(k, full, error, m) ==
  /\ Reads(k, full) /\ ReadTls(k, m, full) /\ net' = Read(k, full)
  /\ error => t.tls_missed /\ k > 0
  /\ LET got == SubSeq(net.inq, 1, m)
         hs == Count(got, "hs")
         d == Count(got, "data")
         complete == net.hs = Flights /\ m > 0 /\ hs = Count(net.inq, "hs")
         reply == [i \in 1..(IF complete /\ role = "connected" THEN 0 ELSE hs) |-> 0]
         ends == error \/ Count(got, "alert") > 0
         out == t.tls_out \o (IF ends THEN <<-1>> ELSE reply)
         done == complete /\ ~t.handshake_complete
         tt == [t EXCEPT !.tls_out = out, !.tls_missed = @ \/ m < k]
         p == [proto EXCEPT !.made = IF done THEN "queued" ELSE @, !.received = @ + d]
     IN \/ ends /\ t' = tt /\ CallEofReceived(proto)
        \/ /\ ~ends /\ t' = [tt EXCEPT !.handshake_complete = @ \/ done]
           /\ LET s == IF WantsWrite(out) THEN tcp_stream_add(net', io, W) ELSE io
              IN \/ d > 0 /\ pc' = "data" /\ proto' = p /\ io' = s
                 \/ /\ d = 0 /\ t.tls_close_sent /\ pc' = "eof"
                    /\ proto' = [p EXCEPT !.eofs = @ + 1] /\ io' = tcp_stream_rem(net', s, R)
                 \/ d = 0 /\ ~t.tls_close_sent /\ pc' = "idle" /\ proto' = p /\ io' = s


\* A read with TLS: rustls takes the first of what was read, and what it
\* replies is asked for.
LEMMA RecvTLSStep == IInv /\ RecvTLS => IInv'
<1> SUFFICES ASSUME IInv, RecvTLS PROVE IInv'
  OBVIOUS
<1>0. /\ io \in Entries /\ proto \in Calls /\ t \in Transports /\ net \in Nets /\ Holds(net) /\ queued = "none"
      /\ proto.made # "calling" /\ pc = "reading" /\ tls /\ ~t.proto_buffered
  BY DEF IInv, TypeInv, NetType, BatchInv, RecvTLS, Raw
<1>1. UNCHANGED <<role, tls, bound, queued>>
  BY DEF RecvTLS
<1>28. PICK k \in 0..Len(net.inq), full \in BOOLEAN, error \in BOOLEAN : \E m \in 0..k : RecvOnce(k, full, error, m)
  BY DEF RecvTLS, RecvOnce
<1>29. PICK m \in 0..k : RecvOnce(k, full, error, m)
  BY <1>28
<1>2. /\ Reads(k, full) /\ ReadTls(k, m, full) /\ net' = Read(k, full)
      /\ error => t.tls_missed /\ k > 0
  BY <1>29 DEF RecvOnce
<1>3. /\ net' \in Nets /\ Holds(net') /\ net'.inq = Rest(net.inq, k) /\ (net'.reset = "no" <=> net.reset = "no")
      /\ net'.peer_eof = net.peer_eof /\ net'.fin = net.fin /\ net'.sent = net.sent /\ net'.alert = net.alert
      /\ net.inq \in Seq(Items) /\ Len(net.inq) \in Nat /\ (net'.inq = <<>> <=> k = Len(net.inq)) /\ net'.inq \in Seq(Items)
      /\ \A i \in DOMAIN net'.inq : \E j \in DOMAIN net.inq : net'.inq[i] = net.inq[j]
  BY <1>0, <1>2, ReadInput
<1>4. PICK g, hs, d, alerts : /\ g = SubSeq(net.inq, 1, m) /\ hs = Count(g, "hs") /\ d = Count(g, "data")
                              /\ alerts = Count(g, "alert")
  OBVIOUS
<1>5. /\ hs \in Nat /\ d \in Nat /\ (hs > 0 => net.inq # <<>>) /\ (alerts > 0 => net.alert)
      /\ proto.received + d + Count(net'.inq, "data") <= net.sent
      /\ proto.received \in Nat /\ net.sent \in Nat /\ Count(net'.inq, "data") \in Nat
  <2>1. PICK q \in Seq(Items), r \in Seq(Items) : q = net.inq /\ r = net'.inq /\ r = Rest(q, k) /\ k \in 0..Len(q)
    BY <1>3
  <2>2. /\ g \in Seq(Items) /\ (\A i \in DOMAIN g : i \in DOMAIN q /\ g[i] = q[i])
        /\ d + Count(r, "data") <= Count(q, "data")
    BY <1>4, <2>1, CountSplit
  <2>3. /\ hs \in 0..Len(g) /\ d \in 0..Len(g) /\ Len(g) \in Nat
        /\ hs > 0 => \E i \in DOMAIN g : g[i] = "hs"
        /\ alerts > 0 => \E i \in DOMAIN g : g[i] = "alert"
    <3>1. /\ Len(g) \in Nat /\ Count(g, "hs") \in 0..Len(g) /\ Count(g, "data") \in 0..Len(g)
          /\ Count(g, "hs") > 0 => \E i \in DOMAIN g : g[i] = "hs"
          /\ Count(g, "alert") > 0 => \E i \in DOMAIN g : g[i] = "alert"
      BY <2>2, CountRange, LenProperties
    <3>2. QED
      BY <1>4, <3>1
  <2>4. Count(r, "data") \in Nat /\ Count(q, "data") \in Nat
    BY CountRange, LenProperties
  <2>5. alerts > 0 => \E i \in DOMAIN q : q[i] = "alert"
    BY <2>2, <2>3
  <2>6. hs > 0 => q # <<>>
    BY <2>2, <2>3
  <2>7. proto.received \in Nat /\ net.sent \in Nat /\ proto.received + Count(q, "data") <= net.sent
    BY <1>0, <2>1, TCPConstants DEF IInv, InputInv, Nets, Calls
  <2>8. alerts > 0 => net.alert
    BY <2>1, <2>5 DEF IInv, InputInv
  <2>9. QED
    BY <2>1, <2>2, <2>3, <2>4, <2>6, <2>7, <2>8
<1>6. PICK complete, l, ends, missed : /\ complete = (net.hs = Flights /\ m > 0 /\ hs = Count(net.inq, "hs"))
                                       /\ l = (IF complete /\ role = "connected" THEN 0 ELSE hs)
                                       /\ ends = (error \/ alerts > 0) /\ missed = (t.tls_missed \/ m < k)
  OBVIOUS
<1>7. /\ missed \in BOOLEAN /\ (t.tls_missed => missed) /\ (ends => net.alert \/ t.tls_missed)
      /\ full => missed
      /\ ~full => net'.inq = <<>>
  <2>1. full => m < k
    BY <1>2 DEF ReadTls
  <2>2. ~full => net'.inq = <<>>
    BY <1>2, <1>3 DEF Reads
  <2>3. ends => net.alert \/ t.tls_missed
    BY <1>2, <1>5, <1>6
  <2>4. QED
    BY <1>6, <2>1, <2>2, <2>3
<1>8. PICK reply : reply = [i \in 1..l |-> 0]
  OBVIOUS
<1>9. reply \in Seq(Control) /\ (net.inq = <<>> => reply = <<>>)
  <2>1. l \in Nat /\ 0 \in Control /\ (net.inq = <<>> => l = 0)
    BY <1>5, <1>6 DEF Control
  <2>2. reply \in Seq(Control) /\ Len(reply) = l
    <3>1. reply \in [1..l -> Control]
      BY <1>8, <2>1
    <3>2. QED
      BY <2>1, <3>1, IsASeq, LenProperties
  <2>3. QED
    BY <2>1, <2>2, EmptySeq
<1>10. PICK out : out = t.tls_out \o (IF ends THEN <<-1>> ELSE reply)
  OBVIOUS
<1>11. /\ out \in Seq(Numbers \cup Control) /\ (~t.tls_full => out \in Seq(Control))
       /\ net.inq = <<>> /\ ~ends => out = t.tls_out
  <2>1. PICK D : D = Numbers \cup Control
    OBVIOUS
  <2>2. t.tls_out \in Seq(D) /\ (~t.tls_full => t.tls_out \in Seq(Control))
    BY <1>0, <2>1 DEF Transports, IInv, HeldInv
  <2>3. PICK e : e = IF ends THEN <<-1>> ELSE reply
    OBVIOUS
  <2>4. <<-1>> \in Seq(Control)
    <3>1. -1 \in Control
      BY DEF Control
    <3>2. QED
      BY <3>1
  <2>5. e \in Seq(Control)
    BY <1>9, <2>3, <2>4
  <2>6. e \in Seq(D)
    BY <2>1, <2>5, SeqMonotonic
  <2>7. t.tls_out \o e \in Seq(D)
    BY <2>2, <2>6, ConcatProperties
  <2>8. ~t.tls_full => t.tls_out \o e \in Seq(Control)
    BY <2>2, <2>5, ConcatProperties
  <2>9. net.inq = <<>> /\ ~ends => t.tls_out \o e = t.tls_out
    BY <1>9, <2>2, <2>3, ConcatEmptySeq
  <2>10. QED
    BY <1>10, <2>1, <2>3, <2>7, <2>8, <2>9
<1>12. PICK done, made : done = (complete /\ ~t.handshake_complete) /\ made = IF done THEN "queued" ELSE proto.made
  OBVIOUS
<1>13. PICK p, c : p = [proto EXCEPT !.made = made, !.received = c] /\ c = proto.received + d
  OBVIOUS
<1>14. /\ p \in Calls /\ p.received = proto.received + d /\ p.eofs = proto.eofs /\ p.lost = proto.lost /\ p.made # "calling"
       /\ proto.eofs \in Nat
  <2>1. made \in {"no", "queued", "yes"}
    BY <1>0, <1>12 DEF Calls
  <2>2. c \in Nat /\ c = proto.received + d
    BY <1>5, <1>13
  <2>3. QED
    BY <1>0, <1>13, <2>1, <2>2 DEF Calls
<1>15. PICK s : s = IF WantsWrite(out) THEN tcp_stream_add(net', io, W) ELSE io
  OBVIOUS
<1>16. /\ s \in Entries /\ io.interest \subseteq s.interest
       /\ ~ends /\ out # <<>> => W \subseteq s.interest \/ out = t.tls_out
  <2>1. PICK n, a : n = net' /\ a = tcp_stream_add(n, io, W)
    OBVIOUS
  <2>2. a \in Entries /\ a.interest = io.interest \cup W
    BY <1>0, <2>1, AddWrite
  <2>3. s = IF net.inq # <<>> /\ out # <<>> THEN a ELSE io
    BY <1>15, <2>1 DEF WantsWrite
  <2>4. QED
    BY <1>0, <1>11, <2>2, <2>3
<1>17. \/ /\ ends /\ t' = [t EXCEPT !.tls_out = out, !.tls_missed = missed] /\ CallEofReceived(proto)
       \/ /\ ~ends
          /\ t' = [[t EXCEPT !.tls_out = out, !.tls_missed = missed] EXCEPT !.handshake_complete = @ \/ done]
          /\ \/ d > 0 /\ pc' = "data" /\ proto' = p /\ io' = s
             \/ d = 0 /\ pc' = "eof" /\ proto' = [p EXCEPT !.eofs = @ + 1] /\ io' = tcp_stream_rem(net', s, R)
             \/ d = 0 /\ pc' = "idle" /\ proto' = p /\ io' = s
  BY <1>4, <1>6, <1>8, <1>10, <1>12, <1>13, <1>15, <1>29 DEF RecvOnce
<1>18. /\ t' \in Transports /\ SameBuffer /\ t'.closing = t.closing /\ t'.weof = t.weof /\ t'.tls_out = out
       /\ t'.tls_close_sent = t.tls_close_sent /\ t'.tls_pending_close = t.tls_pending_close
       /\ t'.proto_buffered = t.proto_buffered /\ t'.tls_full = t.tls_full /\ t'.tls_missed = missed
  <2>1. PICK b, u : b = (t.handshake_complete \/ done) /\ u = [t EXCEPT !.tls_out = out, !.tls_missed = missed]
    OBVIOUS
  <2>2. b \in BOOLEAN
    BY <2>1
  <2>3. /\ u \in Transports /\ u.handshake_complete = t.handshake_complete /\ u.write_buf = t.write_buf
        /\ u.write_buf_dsize = t.write_buf_dsize /\ u.water_lo = t.water_lo /\ u.water_hi = t.water_hi
        /\ u.proto_paused = t.proto_paused /\ u.closing = t.closing /\ u.weof = t.weof /\ u.tls_out = out
        /\ u.tls_close_sent = t.tls_close_sent /\ u.tls_pending_close = t.tls_pending_close
        /\ u.proto_buffered = t.proto_buffered /\ u.tls_full = t.tls_full /\ u.tls_missed = missed
    BY <1>0, <1>7, <1>11, <2>1 DEF Transports
  <2>4. t' = u \/ t' = [u EXCEPT !.handshake_complete = b]
    BY <1>17, <2>1, <2>3
  <2>5. QED
    BY <2>2, <2>3, <2>4 DEF Transports, SameBuffer
<1>19. /\ proto' \in Calls /\ proto'.received \in {proto.received, proto.received + d} /\ proto'.lost = proto.lost
       /\ proto'.made # "calling" /\ (pc' = "eof" => proto'.eofs > 0) /\ pc' \in {"data", "eof", "idle"}
  <2>1. CASE proto' = [proto EXCEPT !.eofs = @ + 1] /\ pc' = "eof"
    BY <1>0, <2>1 DEF Calls
  <2>2. CASE proto' = p /\ pc' \in {"data", "idle"}
    BY <1>14, <2>2
  <2>3. CASE proto' = [p EXCEPT !.eofs = @ + 1] /\ pc' = "eof"
    BY <1>14, <2>3 DEF Calls
  <2>4. QED
    BY <1>17, <2>1, <2>2, <2>3 DEF CallEofReceived
<1>20. /\ io' \in Entries /\ (W \subseteq io.interest => W \subseteq io'.interest)
       /\ ~ends /\ out # <<>> => W \subseteq io'.interest \/ out = t.tls_out
  <2>1. PICK n, r, u : n = net' /\ r = tcp_stream_rem(n, s, R) /\ u = tcp_stream_rem(n, io, R)
    OBVIOUS
  <2>2. r \in Entries /\ r.interest = s.interest \ R
    BY <1>16, <2>1, RemRead
  <2>3. u \in Entries /\ u.interest = io.interest \ R
    BY <1>0, <2>1, RemRead
  <2>4. (ends /\ io' = u) \/ (~ends /\ io' \in {r, s})
    BY <1>17, <2>1 DEF CallEofReceived
  <2>5. QED
    BY <1>16, <2>2, <2>3, <2>4 DEF R, W
<1>21. TypeInv'
  BY <1>1, <1>3, <1>18, <1>19, <1>20 DEF IInv, TypeInv, LoopType, NetType
<1>22. BufferInv' /\ PlainInv' /\ HeldInv' /\ FinInv' /\ BatchInv'
  <2>1. BufferInv' /\ PlainInv' /\ HeldInv'
    BY <1>0, <1>1, <1>3, <1>11, <1>18 DEF IInv, BufferInv, PlainInv, HeldInv, SameBuffer
  <2>2. FinInv' /\ BatchInv'
    BY <1>0, <1>1, <1>3, <1>18, <1>19 DEF IInv, FinInv, BatchInv, SameBuffer
  <2>3. QED
    BY <2>1, <2>2
<1>23. InputInv'
  <2>1. proto'.received + Count(net'.inq, "data") <= net'.sent
    BY <1>3, <1>5, <1>19
  <2>2. (\E i \in DOMAIN net'.inq : net'.inq[i] = "alert") => net'.alert
    BY <1>3 DEF IInv, InputInv
  <2>3. tls'
    BY <1>0, <1>1
  <2>4. QED
    BY <2>1, <2>2, <2>3 DEF InputInv
<1>24. PolledInv'
  <2>1. ~net.alert /\ ~missed => ~ends /\ ~t.tls_missed
    BY <1>7
  <2>2. QED
    BY <1>0, <1>1, <1>3, <1>18, <1>19, <1>20, <2>1 DEF IInv, PolledInv, InWriteHandle, SameBuffer
<1>25. DropInv'
  BY <1>0, <1>1, <1>18, <1>19 DEF IInv, DropInv
<1>26. AnnounceInv'
  BY <1>0, <1>1, <1>7, <1>18 DEF AnnounceInv, Raw
<1>27. QED
  BY <1>21, <1>22, <1>23, <1>24, <1>25, <1>26 DEF IInv

\* A call of write: the first n of its bytes go to the kernel, if nothing
\* waits, and the rest waits.
LEMMA WriteEffect ==
  ASSUME IInv, Write
  PROVE  \E n \in 0..ChunkLen, bytes \in Seq(Numbers) :
           /\ bytes = Bytes(t.written + 1) /\ Len(bytes) = ChunkLen /\ Rest(bytes, n) \in Seq(Numbers)
           /\ Len(Rest(bytes, n)) = ChunkLen - n /\ (Rest(bytes, n) = <<>> <=> n = ChunkLen)
           /\ n > 0 => ~tls /\ t.write_buf_dsize = 0
           /\ net' \in Nets /\ Holds(net') /\ SentOnly /\ net'.wire = net.wire \o SubSeq(bytes, 1, n)
           /\ io' = IF Registers(Rest(bytes, n)) THEN tcp_stream_add(net', io, W) ELSE io
           /\ t' = [t EXCEPT !.write_buf = @ \o Rest(bytes, n), !.write_buf_dsize = @ + Len(Rest(bytes, n)),
                             !.written = @ + 1,
                             !.proto_paused = @ \/ (Rest(bytes, n) # <<>>
                                                      /\ t.write_buf_dsize + Len(Rest(bytes, n)) > t.water_hi)]
<1>0. net \in Nets /\ Holds(net) /\ t \in Transports /\ net.wire \in Seq(Numbers \cup Control)
  BY DEF IInv, TypeInv, NetType, Nets
<1>1. PICK bytes : bytes = Bytes(t.written + 1)
  OBVIOUS
<1>2. bytes \in Seq(Numbers) /\ Len(bytes) = ChunkLen /\ ChunkLen \in Nat
  <2>1. PICK k : k = t.written + 1
    OBVIOUS
  <2>2. k \in 1..MaxWrites
    <3>1. t.written \in 0..MaxWrites /\ MaxWrites \in Nat
      BY <1>0, TCPConstants DEF Transports
    <3>2. t.written < MaxWrites
      BY DEF Write
    <3>3. QED
      BY <2>1, <3>1, <3>2
  <2>3. QED
    BY <1>1, <2>1, <2>2, BytesSeq, TCPConstants
<1>3. PICK direct : direct = (~tls /\ t.write_buf_dsize = 0)
  OBVIOUS
<1>4. PICK n \in {0} \cup (IF direct THEN {Accepted(net, bytes)} ELSE {}) :
        /\ net' = IF direct THEN Send(net, bytes, n) ELSE net
        /\ io' = IF Registers(Rest(bytes, n)) THEN tcp_stream_add(net', io, W) ELSE io
        /\ t' = [t EXCEPT !.write_buf = @ \o Rest(bytes, n), !.write_buf_dsize = t.write_buf_dsize + Len(Rest(bytes, n)),
                          !.written = @ + 1,
                          !.proto_paused = @ \/ (Rest(bytes, n) # <<>>
                                                   /\ t.write_buf_dsize + Len(Rest(bytes, n)) > t.water_hi)]
  BY <1>1, <1>3 DEF Write
<1>5. PICK a : a = Accepted(net, bytes)
  OBVIOUS
<1>6. /\ n \in 0..Len(bytes) /\ n <= SendBuf - (Len(net.wire) - net.drained) /\ (n > 0 => direct)
  <2>1. a \in 0..Len(bytes) /\ a <= SendBuf - (Len(net.wire) - net.drained)
    BY <1>0, <1>2, <1>5, AcceptedRange
  <2>2. 0 <= SendBuf - (Len(net.wire) - net.drained)
    <3>1. Len(net.wire) \in Nat /\ net.drained \in Nat /\ SendBuf \in Nat
      BY <1>0, LenProperties, TCPConstants DEF Nets
    <3>2. QED
      BY <1>0, <3>1 DEF Holds
  <2>3. n = 0 \/ (direct /\ n = a)
    BY <1>4, <1>5
  <2>4. QED
    BY <1>2, <2>1, <2>2, <2>3
<1>7. Rest(bytes, n) \in Seq(Numbers) /\ Len(Rest(bytes, n)) = ChunkLen - n /\ (Rest(bytes, n) = <<>> <=> n = ChunkLen)
  BY <1>2, <1>6, RestSeq
<1>8. net' \in Nets /\ Holds(net') /\ SentOnly /\ net'.wire = net.wire \o SubSeq(bytes, 1, n)
  <2>1. CASE direct
    <3>1. PICK m : m = Send(net, bytes, n)
      OBVIOUS
    <3>2. bytes \in Seq(Numbers \cup Control)
      BY <1>2, SeqMonotonic
    <3>3. /\ m \in Nets /\ Holds(m) /\ (m.reset = "no" <=> net.reset = "no") /\ m.inq = net.inq
          /\ m.peer_eof = net.peer_eof /\ m.fin = net.fin /\ m.sent = net.sent /\ m.alert = net.alert
          /\ (ReadEnds(net) => ReadEnds(m)) /\ m.wire = net.wire \o SubSeq(bytes, 1, n)
      BY <1>0, <1>6, <3>1, <3>2, SendNet
    <3>4. net' = m
      BY <1>4, <2>1, <3>1
    <3>5. QED
      BY <3>3, <3>4 DEF ReadEnds, SentOnly
  <2>2. CASE ~direct
    <3>1. n = 0 /\ net' = net
      BY <1>4, <2>2
    <3>2. SubSeq(bytes, 1, 0) = <<>>
      BY <1>2, SubSeqProperties
    <3>3. net.wire \o <<>> = net.wire
      BY <1>0, ConcatEmptySeq
    <3>4. QED
      BY <1>0, <3>1, <3>2, <3>3 DEF ReadEnds, SentOnly
  <2>3. QED
    BY <2>1, <2>2
<1>9. n \in 0..ChunkLen /\ (n > 0 => ~tls /\ t.write_buf_dsize = 0)
  BY <1>2, <1>3, <1>6
<1>10. QED
  BY <1>1, <1>2, <1>4, <1>7, <1>8, <1>9

\* A call of write: what it leaves in the buffer is polled for.
LEMMA WriteStep == IInv /\ Write => IInv'
<1> SUFFICES ASSUME IInv, Write PROVE IInv'
  OBVIOUS
<1>0. io \in Entries /\ proto \in Calls /\ t \in Transports /\ t.write_buf \in Seq(Numbers)
  BY DEF IInv, TypeInv, Transports
<1>1. UNCHANGED <<role, tls, bound, queued, pc, proto>> /\ ~t.weof /\ InPython /\ t.written < MaxWrites
  BY DEF Write, App
<1>2. PICK n \in 0..ChunkLen, rest \in Seq(Numbers) :
        /\ net' \in Nets /\ Holds(net') /\ SentOnly
        /\ io' = IF Registers(rest) THEN tcp_stream_add(net', io, W) ELSE io
        /\ t' = [t EXCEPT !.write_buf = @ \o rest, !.write_buf_dsize = @ + Len(rest), !.written = @ + 1,
                          !.proto_paused = @ \/ (rest # <<>> /\ t.write_buf_dsize + Len(rest) > t.water_hi)]
  BY WriteEffect
<1>3. PICK buf, size, k, b :
        /\ buf = t.write_buf \o rest /\ size = t.write_buf_dsize + Len(rest) /\ k = t.written + 1
        /\ b = (t.proto_paused \/ (rest # <<>> /\ t.write_buf_dsize + Len(rest) > t.water_hi))
  OBVIOUS
<1>4. /\ buf \in Seq(Numbers) /\ size \in Nat /\ k \in 0..MaxWrites /\ b \in BOOLEAN /\ size = Len(buf)
      /\ (buf = <<>> <=> t.write_buf = <<>> /\ rest = <<>>) /\ (t.write_buf_dsize = 0 <=> t.write_buf = <<>>)
      /\ (rest = <<>> => size = t.write_buf_dsize)
  <2>1. /\ Len(rest) \in Nat /\ Len(t.write_buf) \in Nat /\ buf \in Seq(Numbers)
        /\ Len(buf) = Len(t.write_buf) + Len(rest)
    BY <1>0, <1>3, ConcatProperties, LenProperties
  <2>2. t.write_buf_dsize = Len(t.write_buf)
    BY DEF IInv, BufferInv
  <2>3. (buf = <<>> <=> Len(buf) = 0) /\ (t.write_buf = <<>> <=> Len(t.write_buf) = 0) /\ (rest = <<>> <=> Len(rest) = 0)
    BY <1>0, <2>1, EmptySeq
  <2>4. k \in 0..MaxWrites
    <3>1. t.written \in 0..MaxWrites /\ MaxWrites \in Nat
      BY <1>0, TCPConstants DEF Transports
    <3>2. QED
      BY <1>1, <1>3, <3>1
  <2>5. b \in BOOLEAN
    BY <1>3
  <2>6. QED
    BY <1>3, <2>1, <2>2, <2>3, <2>4, <2>5
<1>5. t' = [t EXCEPT !.write_buf = buf, !.write_buf_dsize = size, !.written = k, !.proto_paused = b]
  BY <1>2, <1>3
<1>6. /\ t' \in Transports /\ SameTls /\ t'.closing = t.closing /\ t'.weof = t.weof /\ t'.write_buf = buf
      /\ t'.write_buf_dsize = size /\ t'.proto_paused = b /\ t'.water_lo = t.water_lo /\ t'.water_hi = t.water_hi
  BY <1>0, <1>4, <1>5 DEF Transports, SameTls
<1>7. /\ io' \in Entries /\ (R \subseteq io'.interest => R \subseteq io.interest)
      /\ (W \subseteq io'.interest <=> W \subseteq io.interest \/ (rest # <<>> /\ t.write_buf = <<>>))
      /\ R \subseteq io'.interest /\ Readable(net)' => io'.armed \/ io' = io
  <2>1. PICK m, s : m = net' /\ s = tcp_stream_add(m, io, W)
    OBVIOUS
  <2>2. /\ s \in Entries /\ s.interest = io.interest \cup W
        /\ R \subseteq s.interest /\ Readable(m) => s.armed \/ s = io
    BY <1>0, <2>1, AddWrite
  <2>3. io' = IF rest # <<>> /\ t.write_buf = <<>> THEN s ELSE io
    BY <1>2, <1>4, <2>1 DEF Registers
  <2>4. Readable(net)' <=> Readable(m)
    BY <2>1 DEF Readable
  <2>5. QED
    BY <1>0, <2>2, <2>3, <2>4 DEF R, W
<1>8. TypeInv'
  BY <1>1, <1>2, <1>6, <1>7 DEF IInv, TypeInv, LoopType, NetType
<1>9. BufferInv'
  <2>1. ~b => size <= t.water_hi
    <3>1. t.write_buf_dsize \in Nat /\ t.water_hi \in Nat
      BY <1>0 DEF Transports
    <3>2. ~b => ~t.proto_paused /\ (rest = <<>> \/ ~(size > t.water_hi))
      BY <1>3
    <3>3. ~t.proto_paused => t.write_buf_dsize <= t.water_hi
      BY DEF IInv, BufferInv
    <3>4. QED
      BY <1>4, <3>1, <3>2, <3>3
  <2>2. ~tls /\ net.reset = "no" /\ b => buf # <<>>
    BY <1>3, <1>4 DEF IInv, BufferInv
  <2>3. QED
    BY <1>1, <1>2, <1>4, <1>6, <2>1, <2>2 DEF IInv, BufferInv, SentOnly
<1>10. PlainInv' /\ HeldInv' /\ FinInv' /\ BatchInv' /\ InputInv'
  BY <1>1, <1>2, <1>6 DEF IInv, PlainInv, HeldInv, FinInv, BatchInv, InputInv, SameTls, SentOnly, InPython
<1>11. PolledInv' /\ DropInv'
  BY <1>1, <1>2, <1>4, <1>6, <1>7 DEF IInv, PolledInv, DropInv, InWriteHandle, SameTls, SentOnly
<1>12. AnnounceInv'
  <2>1. net.inq # <<>> \/ net.peer_eof => Readable(net)'
    BY <1>2 DEF SentOnly, Readable
  <2>2. QED
    BY <1>1, <1>2, <1>7, <2>1 DEF IInv, AnnounceInv, Raw, InReadHandle, SentOnly
<1>13. QED
  BY <1>8, <1>9, <1>10, <1>11, <1>12 DEF IInv
-----------------------------------------------------------------------------
(***************************************************************************)
(* TCPWriteHandle.                                                         *)
(***************************************************************************)

\* Bytes were written: the protocol is resumed at the low mark.
LEMMA WrittenEffect ==
  ASSUME NEW tt \in Transports, NEW ret, Written(tt, ret)
  PROVE  /\ t' \in Transports /\ pc' \in {"resume", "wrote"}
         /\ t'.closing = tt.closing /\ t'.weof = tt.weof /\ t'.written = tt.written
         /\ t'.write_buf = tt.write_buf /\ t'.write_buf_dsize = tt.write_buf_dsize
         /\ t'.water_lo = tt.water_lo /\ t'.water_hi = tt.water_hi /\ t'.tls_out = tt.tls_out
         /\ t'.tls_close_sent = tt.tls_close_sent /\ t'.tls_pending_close = tt.tls_pending_close
         /\ t'.proto_buffered = tt.proto_buffered /\ t'.tls_missed = tt.tls_missed /\ t'.tls_full = tt.tls_full
         /\ t'.proto_paused => tt.proto_paused /\ ~(ret > 0 /\ tt.write_buf_dsize <= tt.water_lo)
         /\ ~t'.proto_paused => ~tt.proto_paused \/ tt.write_buf_dsize <= tt.water_lo
<1>1. PICK resume : resume = (ret > 0 /\ tt.write_buf_dsize <= tt.water_lo /\ tt.proto_paused)
  OBVIOUS
<1>2. PICK b : b = (tt.proto_paused /\ ~resume)
  OBVIOUS
<1>3. t' = [tt EXCEPT !.proto_paused = b] /\ pc' = IF resume THEN "resume" ELSE "wrote"
  BY <1>1, <1>2 DEF Written, Resumes
<1>4. b \in BOOLEAN
  BY <1>2
<1>5. /\ b => tt.proto_paused /\ ~(ret > 0 /\ tt.write_buf_dsize <= tt.water_lo)
      /\ ~b => ~tt.proto_paused \/ tt.write_buf_dsize <= tt.water_lo
  BY <1>1, <1>2
<1>6. t'.proto_paused = b
  BY <1>3 DEF Transports
<1>7. QED
  BY <1>3, <1>4, <1>5, <1>6 DEF Transports

\* the first m bytes of the buffer are gone; below its limits rustls holds none
\* of them, and the write handle sent c of what it held and the first k
WroteOut(c, k, m) ==
  /\ net' \in Nets /\ Holds(net') /\ SentOnly
  /\ ~t'.tls_full => ~t.tls_full /\ t'.tls_out = <<>> /\ net'.wire = (net.wire \o c) \o SubSeq(t.write_buf, 1, k)
  /\ ~tls => ~t'.tls_full
  /\ t' \in Transports /\ t'.write_buf = Rest(t.write_buf, m) /\ t'.write_buf_dsize = t.write_buf_dsize - m
  /\ t'.proto_buffered = t.proto_buffered /\ t'.tls_missed = t.tls_missed
  /\ t'.tls_close_sent = t.tls_close_sent /\ t'.tls_pending_close = t.tls_pending_close
  /\ t'.closing = t.closing /\ t'.weof = t.weof /\ t'.written = t.written
  /\ t'.water_lo = t.water_lo /\ t'.water_hi = t.water_hi
  /\ pc' \in {"resume", "wrote", "failed"}
  /\ t'.proto_paused => t.proto_paused
  /\ ~t'.proto_paused => ~t.proto_paused \/ t'.write_buf_dsize <= t.water_lo
  /\ ~tls /\ net.reset = "no" => c = <<>> /\ k = m /\ (t'.proto_paused /\ m > 0 => ~(t'.write_buf_dsize <= t.water_lo))
  /\ ~tls /\ pc' = "failed" => t'.write_buf = <<>>

\* The write handle without TLS: a write can only fail after a reset, as FIN
\* comes after the last byte.
LEMMA WritePlainEffect ==
  ASSUME IInv, WritePlain, ~tls
  PROVE  \E c \in Seq(Control), k \in 0..Len(t.write_buf) : \E m \in k..Len(t.write_buf) : WroteOut(c, k, m)
<1>0. /\ net \in Nets /\ Holds(net) /\ t \in Transports /\ t.write_buf \in Seq(Numbers) /\ t.tls_out = <<>> /\ ~t.tls_full
      /\ net.wire \in Seq(Numbers \cup Control) /\ Len(t.write_buf) \in Nat /\ t.write_buf_dsize = Len(t.write_buf)
      /\ (net.fin => t.write_buf = <<>>)
  <2>1. net \in Nets /\ Holds(net) /\ t \in Transports
    BY DEF IInv, TypeInv, NetType
  <2>2. t.write_buf \in Seq(Numbers) /\ net.wire \in Seq(Numbers \cup Control)
    BY <2>1 DEF Transports, Nets
  <2>3. Len(t.write_buf) \in Nat
    BY <2>2, LenProperties
  <2>4. QED
    BY <2>1, <2>2, <2>3 DEF IInv, BufferInv, PlainInv, HeldInv, FinInv
<1>1. PICK n : n = Accepted(net, t.write_buf)
  OBVIOUS
<1>2. /\ n \in 0..Len(t.write_buf) /\ n \in Nat /\ net' \in Nets /\ Holds(net') /\ SentOnly
      /\ net'.wire = net.wire \o SubSeq(t.write_buf, 1, n) /\ (WriteFails(net) => n = 0)
  <2>1. t.write_buf \in Seq(Numbers \cup Control)
    BY <1>0, SeqMonotonic
  <2>2. PICK u : u = Sent(net, t.write_buf)
    OBVIOUS
  <2>3. /\ u \in Nets /\ Holds(u) /\ SentTo(net, u) /\ n \in 0..Len(t.write_buf)
        /\ u.wire = net.wire \o SubSeq(t.write_buf, 1, n)
    BY <1>0, <1>1, <2>1, <2>2, SendPart
  <2>4. WriteFails(net) => n = 0
    BY <1>0, <1>1, AcceptedRange
  <2>5. net' = u
    BY <1>1, <2>2 DEF WritePlain, Sent
  <2>6. SentOnly
    BY <2>3, <2>5 DEF SentOnly, SentTo, ReadEnds
  <2>7. n \in Nat
    BY <1>0, <2>3
  <2>8. net' \in Nets /\ Holds(net') /\ net'.wire = net.wire \o SubSeq(t.write_buf, 1, n)
    BY <2>3, <2>5
  <2>9. QED
    BY <2>3, <2>4, <2>6, <2>7, <2>8
<1>3. PICK c \in Seq(Control) : c = <<>>
  BY EmptySeq
<1>4. net'.wire = (net.wire \o c) \o SubSeq(t.write_buf, 1, n)
  BY <1>0, <1>2, <1>3, ConcatEmptySeq
<1>5. PICK fails : fails = (t.write_buf # <<>> /\ WriteFails(net))
  OBVIOUS
<1>6. CASE fails /\ pc' = "failed" /\ t' = [t EXCEPT !.write_buf = <<>>, !.write_buf_dsize = 0]
  <2>1. net.reset # "no" /\ n = 0
    BY <1>0, <1>2, <1>5, <1>6 DEF WriteFails
  <2>2. PICK l : l = Len(t.write_buf)
    OBVIOUS
  <2>3. l \in 0..Len(t.write_buf) /\ l \in n..Len(t.write_buf) /\ t.write_buf_dsize - l = 0
    BY <1>0, <2>1, <2>2
  <2>4. Rest(t.write_buf, l) = <<>>
    BY <1>0, <2>2, <2>3, RestSeq
  <2>5. PICK e \in Seq(Numbers) : e = <<>>
    BY EmptySeq
  <2>6. t' = [t EXCEPT !.write_buf = e, !.write_buf_dsize = 0]
    BY <1>6, <2>5
  <2>7. /\ t' \in Transports /\ t'.write_buf = <<>> /\ t'.write_buf_dsize = 0 /\ t'.tls_out = <<>>
        /\ t'.tls_close_sent = t.tls_close_sent /\ t'.tls_pending_close = t.tls_pending_close
        /\ t'.closing = t.closing /\ t'.weof = t.weof /\ t'.written = t.written
        /\ t'.water_lo = t.water_lo /\ t'.water_hi = t.water_hi /\ t'.proto_paused = t.proto_paused
        /\ t'.proto_buffered = t.proto_buffered /\ t'.tls_missed = t.tls_missed /\ ~t'.tls_full
    BY <1>0, <2>5, <2>6 DEF Transports
  <2>8. WroteOut(c, n, l)
    BY <1>0, <1>2, <1>4, <1>6, <2>1, <2>3, <2>4, <2>7 DEF WroteOut
  <2>9. QED
    BY <1>2, <1>3, <2>3, <2>8
<1>7. CASE ~fails
  <2>1. PICK buf, size : buf = Rest(t.write_buf, n) /\ size = t.write_buf_dsize - n
    OBVIOUS
  <2>2. PICK tt : tt = [t EXCEPT !.write_buf = buf, !.write_buf_dsize = size]
    OBVIOUS
  <2>3. buf \in Seq(Numbers) /\ size \in Nat
    BY <1>0, <1>2, <2>1, RestSeq
  <2>4. /\ tt \in Transports /\ tt.write_buf = buf /\ tt.write_buf_dsize = size /\ tt.tls_out = <<>>
        /\ tt.tls_close_sent = t.tls_close_sent /\ tt.tls_pending_close = t.tls_pending_close
        /\ tt.closing = t.closing /\ tt.weof = t.weof /\ tt.written = t.written
        /\ tt.water_lo = t.water_lo /\ tt.water_hi = t.water_hi /\ tt.proto_paused = t.proto_paused
        /\ tt.proto_buffered = t.proto_buffered /\ tt.tls_missed = t.tls_missed /\ ~tt.tls_full
    BY <1>0, <2>2, <2>3 DEF Transports
  <2>5. Written(tt, n)
    <3>1. Written([t EXCEPT !.write_buf = Rest(@, n), !.write_buf_dsize = SizeLeft(@, t.write_buf, n)], n)
      BY <1>1, <1>5, <1>7 DEF WritePlain
    <3>2. QED
      BY <2>1, <2>2, <3>1 DEF SizeLeft
  <2>6. WroteOut(c, n, n)
    BY <1>0, <1>2, <1>3, <1>4, <2>1, <2>4, <2>5, WrittenEffect DEF WroteOut
  <2>7. n \in n..Len(t.write_buf)
    BY <1>0, <1>2
  <2>8. QED
    BY <1>2, <1>3, <2>6, <2>7
<1>8. QED
  BY <1>1, <1>5, <1>6, <1>7 DEF WritePlain

\* Whole chunks are no more than what fits.
LEMMA WholeRange ==
  ASSUME NEW x \in Nat
  PROVE  Whole(x) \in 0..x
<1>1. PICK c \in Nat \ {0} : c = ChunkLen
  BY TCPConstants
<1>2. PICK q, r : q = x \div c /\ r = x % c
  OBVIOUS
<1>3. q \in Int /\ r \in 0..(c - 1) /\ x = c * q + r
  BY <1>2
<1>4. q >= 0
  <2>1. SUFFICES ASSUME q <= -1 PROVE FALSE
    BY <1>3
  <2>2. c * q <= c * (-1)
    BY <1>1, <1>3, <2>1
  <2>3. QED
    BY <1>1, <1>3, <2>2
<1>5. c * q >= 0
  BY <1>1, <1>3, <1>4
<1>6. r <= x
  BY <1>1, <1>3, <1>5
<1>7. QED
  BY <1>1, <1>2, <1>3, <1>6 DEF Whole

\* what WriteTLS computes: b1 is sent first, kept stays; of plain, fits bytes are
\* encrypted and n leave the buffer; b2 is sent then, rest stays
WroteTLS(b1, kept, plain, fits, n, out, b2, rest, full) ==
  /\ b1 = Handed(t.tls_out) /\ kept = Kept(t.tls_out)
  /\ plain = t.write_buf \/ (plain = <<>> /\ b2 = <<>>)
  /\ fits = Min2(Len(plain), Room(kept))
  /\ n = IF fits < Len(plain) THEN Whole(fits) ELSE fits
  /\ out = kept \o SubSeq(plain, 1, fits)
  /\ \/ b2 = <<>> /\ rest = out /\ (plain = <<>> \/ fits < Len(plain))
     \/ b2 = Handed(out) /\ rest = Kept(out)
  /\ full = (t.tls_full \/ fits < Len(plain) \/ kept # <<>> \/ rest # <<>>)
  /\ net' = Sent(Sent(net, b1), b2)
  /\ \E tt : /\ tt = [t EXCEPT !.tls_out = rest, !.write_buf = Rest(@, n), !.write_buf_dsize = @ - n, !.tls_full = full]
             /\ (pc' = "failed" /\ t' = tt) \/ Written(tt, n)

\* The names of WriteTLS.
LEMMA WriteTLSParts ==
  ASSUME WriteTLS
  PROVE  \E b1, kept, plain, fits, n, out, b2, rest, full : WroteTLS(b1, kept, plain, fits, n, out, b2, rest, full)
<1>1. PICK b1, kept : b1 = Handed(t.tls_out) /\ kept = Kept(t.tls_out)
  OBVIOUS
<1>2. PICK encrypts : encrypts = (t.handshake_complete /\ Accepted(net, b1) = Len(b1))
  OBVIOUS
<1>3. PICK plain : plain = IF encrypts THEN t.write_buf ELSE <<>>
  OBVIOUS
<1>4. PICK fits : fits = Min2(Len(plain), Room(kept))
  OBVIOUS
<1>5. PICK refused, n : refused = (fits < Len(plain)) /\ n = IF refused THEN Whole(fits) ELSE fits
  OBVIOUS
<1>6. PICK out : out = kept \o SubSeq(plain, 1, fits)
  OBVIOUS
<1>7. PICK again : again = (encrypts /\ ~refused)
  OBVIOUS
<1>8. PICK b2, rest : b2 = (IF again THEN Handed(out) ELSE <<>>) /\ rest = IF again THEN Kept(out) ELSE out
  OBVIOUS
<1>9. PICK full : full = (t.tls_full \/ refused \/ kept # <<>> \/ rest # <<>>)
  OBVIOUS
<1>10. PICK tt : tt = [t EXCEPT !.tls_out = rest, !.write_buf = Rest(@, n), !.write_buf_dsize = @ - n, !.tls_full = full]
  OBVIOUS
<1>11. net' = Sent(Sent(net, b1), b2) /\ ((pc' = "failed" /\ t' = tt) \/ Written(tt, n))
  <2>1. net' = Sent(Sent(net, b1), b2)
    BY <1>1, <1>2, <1>3, <1>4, <1>5, <1>6, <1>7, <1>8, Zenon DEF WriteTLS
  <2>2. (pc' = "failed" /\ t' = tt) \/ Written(tt, n)
    BY <1>1, <1>2, <1>3, <1>4, <1>5, <1>6, <1>7, <1>8, <1>9, <1>10 DEF WriteTLS
  <2>3. QED
    BY <2>1, <2>2
<1>12. plain = t.write_buf \/ (plain = <<>> /\ b2 = <<>>)
  BY <1>3, <1>7, <1>8
<1>13. \/ b2 = <<>> /\ rest = out /\ (plain = <<>> \/ fits < Len(plain))
       \/ b2 = Handed(out) /\ rest = Kept(out)
  BY <1>3, <1>5, <1>7, <1>8
<1>14. WroteTLS(b1, kept, plain, fits, n, out, b2, rest, full)
  BY <1>1, <1>4, <1>5, <1>6, <1>9, <1>10, <1>11, <1>12, <1>13 DEF WroteTLS
<1>15. QED
  BY <1>14

\* The write handle with TLS: below the limits of rustls all that it holds is
\* gone, and once the handshake is complete and it all went out, all of the
\* buffer is.
LEMMA WriteTLSEffect ==
  ASSUME IInv, WriteTLS, tls
  PROVE  \E c \in Seq(Control), k \in 0..Len(t.write_buf) : \E m \in k..Len(t.write_buf) : WroteOut(c, k, m)
<1> DEFINE D == Numbers \cup Control
<1>0. /\ net \in Nets /\ Holds(net) /\ t \in Transports /\ t.write_buf \in Seq(Numbers) /\ t.tls_out \in Seq(D)
      /\ net.wire \in Seq(D) /\ Len(t.write_buf) \in Nat /\ t.write_buf_dsize = Len(t.write_buf)
      /\ t.tls_full \in BOOLEAN /\ <<>> \in Seq(D) /\ <<>> \in Seq(Numbers) /\ <<>> \in Seq(Control) /\ Len(<<>>) = 0
      /\ Numbers \subseteq D
  <2>1. net \in Nets /\ Holds(net) /\ t \in Transports
    BY DEF IInv, TypeInv, NetType
  <2>2. t.write_buf \in Seq(Numbers) /\ net.wire \in Seq(D) /\ t.tls_out \in Seq(D) /\ t.tls_full \in BOOLEAN
    BY <2>1 DEF Transports, Nets
  <2>3. Len(t.write_buf) \in Nat
    BY <2>2, LenProperties
  <2>4. <<>> \in Seq(D) /\ <<>> \in Seq(Numbers) /\ <<>> \in Seq(Control) /\ Len(<<>>) = 0
    BY EmptySeq
  <2>5. QED
    BY <2>1, <2>2, <2>3, <2>4 DEF IInv, BufferInv
<1>1. PICK b1, kept, plain, fits, n, out, b2, rest, full : WroteTLS(b1, kept, plain, fits, n, out, b2, rest, full)
  BY WriteTLSParts
<1> HIDE DEF D
<1>2. b1 \in Seq(D) /\ kept \in Seq(D) /\ (kept = <<>> => b1 = t.tls_out)
  BY <1>0, <1>1, HandedKept DEF WroteTLS
<1>3. /\ plain \in Seq(Numbers) /\ plain \in Seq(D) /\ Len(plain) \in 0..Len(t.write_buf) /\ Len(plain) \in Nat
  <2>1. plain = t.write_buf \/ plain = <<>>
    BY <1>1 DEF WroteTLS
  <2>2. plain \in Seq(Numbers)
    BY <1>0, <2>1
  <2>3. plain \in Seq(D)
    BY <1>0, <2>2, SeqMonotonic
  <2>4. Len(plain) \in 0..Len(t.write_buf)
    BY <1>0, <2>1
  <2>5. QED
    BY <1>0, <2>2, <2>3, <2>4
<1>4. fits \in 0..Len(plain) /\ fits \in Nat
  <2>1. Len(kept) \in Nat /\ TlsLimit \in Nat
    BY <1>2, LenProperties, TCPConstants
  <2>2. Room(kept) \in Nat
    BY <2>1 DEF Room
  <2>3. QED
    BY <1>1, <1>3, <2>2 DEF WroteTLS, Min2
<1>5. n \in 0..fits /\ n \in Nat /\ n \in 0..Len(t.write_buf) /\ n \in 0..Len(plain)
  <2>1. Whole(fits) \in 0..fits
    BY <1>4, WholeRange
  <2>2. n = Whole(fits) \/ n = fits
    BY <1>1 DEF WroteTLS
  <2>3. QED
    BY <1>0, <1>3, <1>4, <2>1, <2>2
<1>6. out \in Seq(D) /\ (kept = <<>> /\ fits = Len(plain) => out = plain)
  <2>1. \A i \in 1..Len(plain) : plain[i] \in D
    BY <1>3, ElementOfSeq
  <2>2. fits \in Int /\ \A i \in 1..fits : plain[i] \in D
    BY <1>3, <1>4, <2>1
  <2>3. PICK x : x = SubSeq(plain, 1, fits)
    OBVIOUS
  <2>4. x \in Seq(D)
    BY <2>2, <2>3, SubSeqProperties
  <2>5. fits = Len(plain) => x = plain
    BY <1>3, <2>3, SubSeqFull
  <2>6. kept \o x \in Seq(D) /\ <<>> \o x = x
    BY <1>2, <2>4, ConcatProperties, ConcatEmptySeq
  <2>7. out = kept \o x
    BY <1>1, <2>3 DEF WroteTLS
  <2>8. QED
    BY <2>5, <2>6, <2>7
<1>7. b2 \in Seq(D) /\ rest \in Seq(D)
  <2>1. (b2 = <<>> /\ rest = out) \/ (b2 = Handed(out) /\ rest = Kept(out))
    BY <1>1 DEF WroteTLS
  <2>2. Handed(out) \in Seq(D) /\ Kept(out) \in Seq(D)
    BY <1>6, HandedKept
  <2>3. QED
    BY <1>0, <1>6, <2>1, <2>2
<1>8. PICK n1, net1 : n1 = Accepted(net, b1) /\ net1 = Sent(net, b1)
  OBVIOUS
<1>9. /\ net1 \in Nets /\ Holds(net1) /\ SentTo(net, net1) /\ n1 \in 0..Len(b1)
      /\ net1.wire = net.wire \o SubSeq(b1, 1, n1)
  <2>1. b1 \in Seq(Numbers \cup Control)
    BY <1>2 DEF D
  <2>2. QED
    BY <1>0, <1>8, <2>1, SendPart
<1>10. PICK n2, u : n2 = Accepted(net1, b2) /\ u = Sent(net1, b2)
  OBVIOUS
<1>11. /\ u \in Nets /\ Holds(u) /\ SentTo(net1, u) /\ n2 \in 0..Len(b2)
       /\ u.wire = net1.wire \o SubSeq(b2, 1, n2)
  <2>1. b2 \in Seq(Numbers \cup Control)
    BY <1>7 DEF D
  <2>2. QED
    BY <1>9, <1>10, <2>1, SendPart
<1>12. net' = u
  BY <1>1, <1>8, <1>10 DEF WroteTLS
<1>13. net' \in Nets /\ Holds(net') /\ SentOnly
  BY <1>9, <1>11, <1>12 DEF SentOnly, SentTo, ReadEnds
<1>14. PICK tt : /\ tt = [t EXCEPT !.tls_out = rest, !.write_buf = Rest(@, n), !.write_buf_dsize = @ - n, !.tls_full = full]
                 /\ (pc' = "failed" /\ t' = tt) \/ Written(tt, n)
  BY <1>1 DEF WroteTLS
<1>15. full \in BOOLEAN /\ (~full => ~t.tls_full /\ ~(fits < Len(plain)) /\ kept = <<>> /\ rest = <<>>)
  BY <1>1 DEF WroteTLS
<1>16. /\ tt \in Transports /\ tt.write_buf = Rest(t.write_buf, n) /\ tt.write_buf_dsize = t.write_buf_dsize - n
       /\ tt.tls_out = rest /\ tt.tls_full = full
       /\ tt.tls_close_sent = t.tls_close_sent /\ tt.tls_pending_close = t.tls_pending_close
       /\ tt.closing = t.closing /\ tt.weof = t.weof /\ tt.written = t.written
       /\ tt.water_lo = t.water_lo /\ tt.water_hi = t.water_hi /\ tt.proto_paused = t.proto_paused
       /\ tt.proto_buffered = t.proto_buffered /\ tt.tls_missed = t.tls_missed
  <2>1. PICK buf, size : buf = Rest(t.write_buf, n) /\ size = t.write_buf_dsize - n
    OBVIOUS
  <2>2. buf \in Seq(Numbers) /\ size \in Nat
    BY <1>0, <1>5, <2>1, RestSeq
  <2>3. tt = [t EXCEPT !.tls_out = rest, !.write_buf = buf, !.write_buf_dsize = size, !.tls_full = full]
    BY <1>14, <2>1
  <2>4. rest \in Seq(Numbers \cup Control)
    BY <1>7 DEF D
  <2>5. QED
    BY <1>0, <1>15, <2>1, <2>2, <2>3, <2>4 DEF Transports
<1>17. ASSUME NEW c, NEW k,
              ~full => rest = <<>> /\ ~t.tls_full /\ net'.wire = (net.wire \o c) \o SubSeq(t.write_buf, 1, k)
       PROVE  WroteOut(c, k, n)
  <2>1. CASE pc' = "failed" /\ t' = tt
    BY <1>13, <1>16, <1>17, <2>1 DEF WroteOut
  <2>2. CASE Written(tt, n)
    BY <1>13, <1>16, <1>17, <2>2, WrittenEffect DEF WroteOut
  <2>3. QED
    BY <1>14, <2>1, <2>2
<1>18. CASE full
  <2>1. WroteOut(<<>>, 0, n)
    BY <1>17, <1>18
  <2>2. 0 \in 0..Len(t.write_buf) /\ n \in 0..Len(t.write_buf)
    BY <1>0, <1>5
  <2>3. QED
    BY <1>0, <2>1, <2>2
<1>19. CASE ~full
  <2>1. ~t.tls_full /\ fits = Len(plain) /\ n = Len(plain) /\ kept = <<>> /\ rest = <<>> /\ out = plain /\ b1 = t.tls_out
    <3>1. fits = Len(plain)
      BY <1>3, <1>4, <1>15, <1>19
    <3>2. n = fits
      BY <1>1, <1>15, <1>19 DEF WroteTLS
    <3>3. QED
      BY <1>2, <1>6, <1>15, <1>19, <3>1, <3>2
  <2>2. b2 = plain
    <3>1. CASE b2 = <<>> /\ plain = <<>>
      BY <3>1
    <3>2. CASE b2 = Handed(out) /\ rest = Kept(out)
      BY <1>6, <2>1, <3>2, HandedKept
    <3>3. (b2 = <<>> /\ plain = <<>>) \/ (b2 = Handed(out) /\ rest = Kept(out))
      BY <1>1, <1>15, <1>19 DEF WroteTLS
    <3>4. QED
      BY <3>1, <3>2, <3>3
  <2>3. PICK c : c = SubSeq(b1, 1, n1)
    OBVIOUS
  <2>4. c \in Seq(Control)
    <3>1. b1 \in Seq(Control)
      BY <2>1 DEF IInv, HeldInv
    <3>2. Len(b1) \in Nat /\ \A i \in 1..Len(b1) : b1[i] \in Control
      BY <3>1, LenProperties, ElementOfSeq
    <3>3. n1 \in Int /\ \A i \in 1..n1 : b1[i] \in Control
      BY <1>9, <3>2
    <3>4. QED
      BY <2>3, <3>3, SubSeqProperties
  <2>5. n2 \in 0..Len(plain) /\ n2 \in 0..Len(t.write_buf) /\ n \in n2..Len(t.write_buf)
    BY <1>0, <1>3, <1>11, <2>1, <2>2
  <2>6. SubSeq(plain, 1, n2) = SubSeq(t.write_buf, 1, n2)
    <3>1. CASE plain = t.write_buf
      BY <3>1
    <3>2. CASE plain = <<>>
      <4>1. n2 = 0
        BY <1>0, <2>5, <3>2
      <4>2. SubSeq(plain, 1, 0) = <<>> /\ SubSeq(t.write_buf, 1, 0) = <<>>
        BY SubSeqEmpty
      <4>3. QED
        BY <4>1, <4>2
    <3>3. QED
      BY <1>1, <3>1, <3>2 DEF WroteTLS
  <2>7. net'.wire = (net.wire \o c) \o SubSeq(t.write_buf, 1, n2)
    BY <1>9, <1>11, <1>12, <2>2, <2>3, <2>6
  <2>8. WroteOut(c, n2, n)
    BY <1>17, <2>1, <2>7
  <2>9. QED
    BY <2>4, <2>5, <2>8
<1>20. QED
  BY <1>18, <1>19

\* The write handle: a paused protocol whose buffer is empty is resumed.
LEMMA WriteHandleStep == IInv /\ WriteHandle => IInv'
<1> SUFFICES ASSUME IInv, WriteHandle PROVE IInv'
  OBVIOUS
<1>0. /\ t \in Transports /\ t.write_buf \in Seq(Numbers) /\ Len(t.write_buf) \in Nat
      /\ t.water_lo \in Nat /\ t.water_hi \in Nat /\ t.water_lo <= t.water_hi /\ t.write_buf_dsize = Len(t.write_buf)
      /\ tls \in BOOLEAN
  <2>1. t \in Transports /\ tls \in BOOLEAN
    BY DEF IInv, TypeInv, LoopType
  <2>2. t.write_buf \in Seq(Numbers) /\ t.water_lo \in Nat /\ t.water_hi \in Nat
    BY <2>1 DEF Transports
  <2>3. QED
    BY <2>1, <2>2, LenProperties DEF IInv, BufferInv
<1>1. /\ UNCHANGED <<role, tls, io, bound, proto>> /\ bound /\ pc = "idle" /\ queued = "write" /\ queued' = "none"
      /\ (~tls /\ WritePlain) \/ (tls /\ WriteTLS)
  BY DEF WriteHandle, Turn
<1>2. PICK c \in Seq(Control), k \in 0..Len(t.write_buf), m \in 0..Len(t.write_buf) : m \in k..Len(t.write_buf) /\ WroteOut(c, k, m)
  <2>1. \E c \in Seq(Control), k \in 0..Len(t.write_buf) : \E m \in k..Len(t.write_buf) : WroteOut(c, k, m)
    BY <1>1, WritePlainEffect, WriteTLSEffect
  <2>2. \A k \in 0..Len(t.write_buf) : \A m \in k..Len(t.write_buf) : m \in 0..Len(t.write_buf)
    BY <1>0
  <2>3. QED
    BY <2>1, <2>2
<1>3. /\ t'.write_buf = Rest(t.write_buf, m) /\ Len(t'.write_buf) = Len(t.write_buf) - m
      /\ (t'.write_buf = <<>> <=> m = Len(t.write_buf)) /\ t'.write_buf_dsize = Len(t.write_buf) - m
      /\ m \in Nat /\ (t.write_buf = <<>> => t'.write_buf = <<>>)
  <2>1. PICK b, r : b \in Seq(Numbers) /\ b = t.write_buf /\ r = Rest(b, m)
    BY <1>0
  <2>2. Len(r) = Len(t.write_buf) - m /\ (r = <<>> <=> m = Len(t.write_buf))
    <3>1. m \in 0..Len(b)
      BY <1>2, <2>1
    <3>2. Len(Rest(b, m)) = Len(b) - m /\ (Rest(b, m) = <<>> <=> m = Len(b))
      <4>1. b \in Seq(Numbers)
        BY <2>1
      <4>2. QED
        BY <3>1, <4>1, RestSeq
    <3>3. QED
      BY <2>1, <3>2
  <2>3. t'.write_buf = r /\ t'.write_buf_dsize = Len(t.write_buf) - m
    BY <1>0, <1>2, <2>1 DEF WroteOut
  <2>4. m \in Nat /\ (t.write_buf = <<>> => m = Len(t.write_buf))
    BY <1>0, <1>2
  <2>5. QED
    BY <2>1, <2>2, <2>3, <2>4
<1>4. TypeInv'
  BY <1>1, <1>2 DEF IInv, TypeInv, LoopType, NetType, WroteOut
<1>5. BufferInv'
  <2>1. ~t'.proto_paused => t'.write_buf_dsize <= t'.water_hi
    <3>1. ~t'.proto_paused => ~t.proto_paused \/ t'.write_buf_dsize <= t.water_lo
      BY <1>2 DEF WroteOut
    <3>2. ~t.proto_paused => t.write_buf_dsize <= t.water_hi
      BY DEF IInv, BufferInv
    <3>3. t'.water_hi = t.water_hi
      BY <1>2 DEF WroteOut
    <3>4. QED
      BY <1>0, <1>3, <3>1, <3>2, <3>3
  <2>2. ~tls /\ net.reset = "no" /\ t'.proto_paused => t'.write_buf # <<>>
    <3>1. SUFFICES ASSUME ~tls, net.reset = "no", t'.proto_paused, t'.write_buf = <<>> PROVE FALSE
      OBVIOUS
    <3>2. t.proto_paused /\ (m > 0 => ~(t'.write_buf_dsize <= t.water_lo))
      BY <1>2, <3>1 DEF WroteOut
    <3>3. t.write_buf # <<>>
      BY <3>1, <3>2 DEF IInv, BufferInv
    <3>4. Len(t.write_buf) # 0
      BY <1>0, <3>3, EmptySeq
    <3>5. QED
      BY <1>0, <1>3, <3>1, <3>2, <3>4
  <2>3. t'.water_lo = t.water_lo /\ t'.water_hi = t.water_hi /\ (net'.reset = "no" <=> net.reset = "no")
    BY <1>2 DEF WroteOut, SentOnly
  <2>4. QED
    BY <1>0, <1>1, <1>3, <2>1, <2>2, <2>3 DEF BufferInv
<1>6. PlainInv' /\ HeldInv' /\ BatchInv' /\ InputInv'
  <2>1. HeldInv'
    BY <1>2, EmptySeq DEF HeldInv, WroteOut
  <2>2. PlainInv'
    BY <1>1, <1>2 DEF IInv, PlainInv, WroteOut
  <2>3. BatchInv' /\ InputInv'
    BY <1>1, <1>2 DEF IInv, BatchInv, InputInv, WroteOut, SentOnly
  <2>4. QED
    BY <2>1, <2>2, <2>3
<1>7. FinInv'
  BY <1>1, <1>2, <1>3 DEF IInv, FinInv, WroteOut, SentOnly
<1>8. PolledInv' /\ DropInv'
  BY <1>1, <1>2, <1>3 DEF IInv, PolledInv, DropInv, InWriteHandle, WroteOut, SentOnly
<1>9. AnnounceInv'
  BY <1>1, <1>2 DEF IInv, AnnounceInv, Raw, InReadHandle, WroteOut, SentOnly
<1>10. QED
  BY <1>4, <1>5, <1>6, <1>7, <1>8, <1>9 DEF IInv
-----------------------------------------------------------------------------
(***************************************************************************)
(* The invariant.                                                          *)
(***************************************************************************)

\* It holds of a new transport.
LEMMA InitInv == Init => IInv
<1> SUFFICES ASSUME Init PROVE IInv
  OBVIOUS
<1>1. /\ HighWater \in Nat /\ MaxWrites \in Nat /\ MaxIn \in Nat /\ SendBuf \in Nat /\ Roles \subseteq {"accepted", "connected"}
      /\ TLS \subseteq BOOLEAN
  BY TCPConstants
<1>2. role \in Roles /\ role \in {"accepted", "connected"} /\ tls \in TLS /\ tls \in BOOLEAN
  BY <1>1 DEF Init
<1>3. PICK lo : lo = HighWater \div 4
  OBVIOUS
<1>4. lo \in Nat /\ lo <= HighWater
  BY <1>1, <1>3
<1>5. PICK e, f : e = <<>> /\ f = FirstFlight
  OBVIOUS
<1>6. /\ e \in Seq(Numbers) /\ e \in Seq(Control) /\ e \in Seq(Items) /\ e \in Seq(Numbers \cup Control) /\ Len(e) = 0
      /\ DOMAIN e = {} /\ Count(e, "data") = 0
  <2>1. e \in Seq(Items) /\ Len(e) = 0
    BY <1>5
  <2>2. Count(e, "data") \in 0..Len(e)
    BY <2>1, CountRange
  <2>3. QED
    BY <1>5, <2>1, <2>2
<1>7. f \in Seq(Control) /\ f \in Seq(Numbers \cup Control) /\ (f # <<>> => tls /\ role = "connected")
  <2>1. 0 \in Control /\ 0 \in Numbers \cup Control
    BY DEF Control
  <2>2. <<0>> \in Seq(Control) /\ <<0>> \in Seq(Numbers \cup Control)
    BY <2>1
  <2>3. QED
    BY <1>5, <1>6, <2>2 DEF FirstFlight
<1>21. PICK b \in Buffered : t = [NewTransport EXCEPT !.tls_out = FirstFlight, !.proto_buffered = b]
  BY DEF Init
<1>22. b \in BOOLEAN
  BY <1>21, TCPConstants
<1>8. t = [closing |-> FALSE, paused |-> FALSE, weof |-> FALSE, proto_paused |-> FALSE,
           write_buf |-> e, write_buf_dsize |-> 0, water_lo |-> lo, water_hi |-> HighWater,
           handshake_complete |-> FALSE, tls_out |-> f, tls_close_sent |-> FALSE,
           tls_pending_close |-> FALSE, proto_buffered |-> b,
           written |-> 0, tls_missed |-> FALSE, tls_full |-> FALSE]
  BY <1>3, <1>5, <1>21 DEF NewTransport
<1>9. /\ t \in Transports /\ ~t.closing /\ ~t.proto_paused /\ t.write_buf = e /\ t.write_buf_dsize = 0 /\ t.water_lo = lo
      /\ t.water_hi = HighWater /\ t.tls_out = f /\ ~t.tls_close_sent /\ ~t.tls_pending_close
      /\ ~t.tls_missed /\ ~t.tls_full
  BY <1>1, <1>4, <1>6, <1>7, <1>8, <1>22 DEF Transports
<1>10. net = [inq |-> e, peer_eof |-> FALSE, reset |-> "no", wire |-> e, drained |-> 0, fin |-> FALSE,
              sent |-> 0, hs |-> 0, alert |-> FALSE]
  BY <1>5 DEF Init, NewNet
<1>11. /\ net \in Nets /\ net.inq = e /\ ~net.peer_eof /\ net.reset = "no" /\ net.wire = e /\ net.drained = 0 /\ ~net.fin
       /\ net.sent = 0 /\ ~net.alert
  BY <1>1, <1>6, <1>10 DEF Nets
<1>12. /\ proto \in Calls /\ proto.received = 0 /\ proto.eofs = 0 /\ proto.lost = 0
       /\ proto.made = FirstCall /\ proto.made \in {"no", "queued", "calling"}
       /\ (proto.made = "calling" <=> ~tls /\ role = "connected")
  <2>1. proto = [made |-> FirstCall, received |-> 0, eofs |-> 0, lost |-> 0]
    BY DEF Init
  <2>2. FirstCall \in {"no", "queued", "calling"} /\ (FirstCall = "calling" <=> ~tls /\ role = "connected")
    BY <1>2 DEF FirstCall
  <2>3. QED
    BY <2>1, <2>2 DEF Calls
<1>13. /\ bound \in BOOLEAN /\ (bound <=> proto.made # "calling") /\ pc = "idle" /\ queued = "none"
  BY DEF Init
<1>14. /\ io \in Entries
       /\ bound /\ role = "connected" => W \subseteq io.interest
       /\ role = "accepted" => ~(W \subseteq io.interest)
  BY <1>2, <1>12, <1>13 DEF Init, Entries, R, W
<1>15. TypeInv
  <2>1. Holds(net)
    BY <1>1, <1>6, <1>11 DEF Holds
  <2>2. QED
    BY <1>2, <1>9, <1>11, <1>12, <1>13, <1>14, <2>1 DEF TypeInv, LoopType, NetType
<1>16. BufferInv /\ PlainInv /\ HeldInv /\ FinInv
  BY <1>4, <1>5, <1>6, <1>7, <1>9, <1>11, <1>1, <1>13 DEF BufferInv, PlainInv, HeldInv, FinInv
<1>17. BatchInv
  BY <1>12, <1>13 DEF BatchInv
<1>18. InputInv
  BY <1>5, <1>6, <1>11, <1>12, <1>13 DEF InputInv
<1>19. PolledInv /\ DropInv /\ AnnounceInv
  BY <1>2, <1>5, <1>7, <1>9, <1>11, <1>12, <1>13, <1>14 DEF PolledInv, DropInv, AnnounceInv, Raw, InWriteHandle
<1>20. QED
  BY <1>15, <1>16, <1>17, <1>18, <1>19 DEF IInv

\* Every step keeps it.
LEMMA NextInv == IInv /\ [Next]_vars => IInv'
<1> SUFFICES ASSUME IInv, [Next]_vars PROVE IInv'
  OBVIOUS
<1>1. CASE UNCHANGED vars \/ ConnectionMade \/ HandleDropped \/ ReadHandle \/ ResumeReturns
  BY <1>1, QuietStep
<1>2. CASE Bind \/ Poll \/ RecvPlain \/ RecvTLS \/ DataReturns
  BY <1>2, BindStep, PollStep, RecvPlainStep, RecvTLSStep, DataReturnsStep
<1>3. CASE EofReturns \/ WriteHandle \/ CloseTimeout \/ WriteHandleEnds
  BY <1>3, EofReturnsStep, WriteHandleStep, CloseTimeoutStep, WriteHandleEndsStep
<1>4. CASE Write \/ WriteError \/ WriteEof \/ Close \/ Abort
  BY <1>4, WriteStep, WriteErrorStep, WriteEofStep, CloseStep, AbortStep
<1>5. CASE PauseReading \/ ResumeReading \/ SetWriteBufferLimits
  BY <1>5, PauseResumeStep, LimitsStep
<1>6. CASE Peer
  BY <1>6, PeerStep
<1>7. QED
  BY <1>1, <1>2, <1>3, <1>4, <1>5, <1>6 DEF Next, Loop, Methods

\* The invariant holds in every reachable state.
THEOREM Invariant == Spec => []IInv
<1>1. Init => IInv
  BY InitInv
<1>2. IInv /\ [Next]_vars => IInv'
  BY NextInv
<1>3. QED
  BY <1>1, <1>2, PTL DEF Spec
-----------------------------------------------------------------------------
(***************************************************************************)
(* What goes out: the wire and then the buffer hold the written bytes in   *)
(* order, with flights and alerts between them.                            *)
(***************************************************************************)
Ordered(w, b, top) ==
  /\ \A i, j \in DOMAIN w : i < j /\ w[i] > 0 /\ w[j] > 0 => w[i] < w[j]
  /\ \A i, j \in DOMAIN b : i < j => b[i] < b[j]
  /\ \A i \in DOMAIN w, j \in DOMAIN b : w[i] < b[j]
  /\ \A i \in DOMAIN w : w[i] <= top
  /\ \A i \in DOMAIN b : b[i] <= top

SentInv ==
  /\ Ordered(net.wire, t.write_buf, t.written * ChunkLen)
  /\ ~tls /\ net.reset = "no" => Len(net.wire) + Len(t.write_buf) = t.written * ChunkLen

\* so it is while rustls is below its limits
WireInv == ~t.tls_full => SentInv

\* The elements of a concatenation.
LEMMA ConcatElements ==
  ASSUME NEW S, NEW T, NEW x \in Seq(S), NEW y \in Seq(T), NEW z, z = x \o y
  PROVE  /\ z \in Seq(S \cup T) /\ Len(z) = Len(x) + Len(y) /\ DOMAIN z = 1..(Len(x) + Len(y))
         /\ Len(x) \in Nat /\ Len(y) \in Nat /\ DOMAIN x = 1..Len(x) /\ DOMAIN y = 1..Len(y)
         /\ \A i \in DOMAIN z : \/ i \in DOMAIN x /\ z[i] = x[i]
                                \/ i > Len(x) /\ i - Len(x) \in DOMAIN y /\ z[i] = y[i - Len(x)]
<1>1. PICK U : U = S \cup T
  OBVIOUS
<1>2. x \in Seq(U) /\ y \in Seq(U)
  BY <1>1, SeqMonotonic
<1>3. /\ z \in Seq(U) /\ Len(z) = Len(x) + Len(y)
      /\ \A i \in 1..(Len(x) + Len(y)) : z[i] = IF i <= Len(x) THEN x[i] ELSE y[i - Len(x)]
  BY <1>2, ConcatProperties
<1>4. Len(x) \in Nat /\ Len(y) \in Nat /\ DOMAIN x = 1..Len(x) /\ DOMAIN y = 1..Len(y) /\ DOMAIN z = 1..Len(z)
  BY <1>2, <1>3, LenProperties
<1>5. \A i \in DOMAIN z : \/ i \in DOMAIN x /\ z[i] = x[i]
                          \/ i > Len(x) /\ i - Len(x) \in DOMAIN y /\ z[i] = y[i - Len(x)]
  BY <1>3, <1>4
<1>6. QED
  BY <1>1, <1>3, <1>4, <1>5

\* v is w, items that are not bytes up to lx, and the first k bytes of b; d is b
\* without its first m bytes
Parts(w, b, v, d, lw, lx, lb, lv, k, m) ==
  /\ lw \in Nat /\ lx \in Nat /\ lb \in Nat /\ lv \in Nat /\ k \in Nat /\ m \in Nat /\ lw <= lx /\ k <= m /\ m <= lb
  /\ DOMAIN w = 1..lw /\ DOMAIN b = 1..lb /\ DOMAIN v = 1..lv /\ DOMAIN d = 1..(lb - m)
  /\ \A i \in DOMAIN b : b[i] \in Int /\ b[i] > 0
  /\ \A i \in DOMAIN v : \/ i \in DOMAIN w /\ v[i] = w[i]
                         \/ i > lw /\ v[i] \in Int /\ v[i] <= 0
                         \/ i > lx /\ i - lx \in 1..k /\ v[i] = b[i - lx]
  /\ \A i \in DOMAIN d : i + m \in DOMAIN b /\ d[i] = b[i + m]

\* Bytes move from the head of the buffer to the end of the wire, behind
\* items that are not bytes.
LEMMA MovedOrder ==
  ASSUME NEW w, NEW b, NEW v, NEW d, NEW top \in Nat, NEW lw, NEW lx, NEW lb, NEW lv, NEW k, NEW m,
         Parts(w, b, v, d, lw, lx, lb, lv, k, m), Ordered(w, b, top)
  PROVE  Ordered(v, d, top)
<1>1. /\ lw \in Nat /\ lx \in Nat /\ lb \in Nat /\ lv \in Nat /\ k \in Nat /\ m \in Nat /\ lw <= lx /\ k <= m /\ m <= lb
      /\ DOMAIN w = 1..lw /\ DOMAIN b = 1..lb /\ DOMAIN v = 1..lv /\ DOMAIN d = 1..(lb - m)
  BY DEF Parts
<1>2. \A i \in DOMAIN b : b[i] \in Int /\ b[i] > 0
  BY DEF Parts
<1>3. \A i \in DOMAIN v : \/ i \in DOMAIN w /\ v[i] = w[i]
                          \/ i > lw /\ v[i] \in Int /\ v[i] <= 0
                          \/ i > lx /\ i - lx \in 1..k /\ v[i] = b[i - lx]
  BY DEF Parts
<1>4. \A i \in DOMAIN d : i + m \in DOMAIN b /\ d[i] = b[i + m]
  BY DEF Parts
<1>5. \A i, j \in DOMAIN v : i < j /\ v[i] > 0 /\ v[j] > 0 => v[i] < v[j]
  <2>1. SUFFICES ASSUME NEW i \in DOMAIN v, NEW j \in DOMAIN v, i < j, v[i] > 0, v[j] > 0 PROVE v[i] < v[j]
    OBVIOUS
  <2>2. i \in Int /\ j \in Int
    BY <1>1
  <2>3. ~(v[i] \in Int /\ v[i] <= 0) /\ ~(v[j] \in Int /\ v[j] <= 0)
    BY <2>1
  <2>4. CASE i \in DOMAIN w /\ v[i] = w[i]
    <3>1. CASE j \in DOMAIN w /\ v[j] = w[j]
      BY <2>1, <2>4, <3>1 DEF Ordered
    <3>2. CASE j - lx \in 1..k /\ v[j] = b[j - lx]
      <4>1. j - lx \in DOMAIN b
        BY <1>1, <3>2
      <4>2. QED
        BY <2>4, <3>2, <4>1 DEF Ordered
    <3>3. QED
      BY <1>3, <2>3, <3>1, <3>2
  <2>5. CASE i > lx /\ i - lx \in 1..k /\ v[i] = b[i - lx]
    <3>1. j > lx /\ j > lw
      BY <1>1, <2>1, <2>2, <2>5
    <3>2. j - lx \in 1..k /\ v[j] = b[j - lx]
      <4>1. j \notin DOMAIN w
        BY <1>1, <2>2, <3>1
      <4>2. QED
        BY <1>3, <2>3, <4>1
    <3>3. i - lx \in DOMAIN b /\ j - lx \in DOMAIN b /\ i - lx < j - lx
      BY <1>1, <2>1, <2>2, <2>5, <3>2
    <3>4. QED
      BY <2>5, <3>2, <3>3 DEF Ordered
  <2>6. QED
    BY <1>3, <2>3, <2>4, <2>5
<1>6. \A i, j \in DOMAIN d : i < j => d[i] < d[j]
  <2>1. \A i, j \in DOMAIN d : i < j => i + m < j + m
    BY <1>1
  <2>2. QED
    BY <1>4, <2>1 DEF Ordered
<1>7. \A i \in DOMAIN v, j \in DOMAIN d : v[i] < d[j]
  <2>1. SUFFICES ASSUME NEW i \in DOMAIN v, NEW j \in DOMAIN d PROVE v[i] < d[j]
    OBVIOUS
  <2>2. j + m \in DOMAIN b /\ d[j] = b[j + m] /\ j \in Int /\ j > 0
    BY <1>1, <1>4
  <2>3. CASE i \in DOMAIN w /\ v[i] = w[i]
    BY <2>2, <2>3 DEF Ordered
  <2>4. CASE v[i] \in Int /\ v[i] <= 0
    <3>1. b[j + m] \in Int /\ b[j + m] > 0
      BY <1>2, <2>2
    <3>2. QED
      BY <2>2, <2>4, <3>1
  <2>5. CASE i - lx \in 1..k /\ v[i] = b[i - lx]
    <3>1. i - lx \in DOMAIN b /\ i - lx < j + m
      BY <1>1, <2>2, <2>5
    <3>2. QED
      BY <2>2, <2>5, <3>1 DEF Ordered
  <2>6. QED
    BY <1>3, <2>3, <2>4, <2>5
<1>8. \A i \in DOMAIN v : v[i] <= top
  <2>1. SUFFICES ASSUME NEW i \in DOMAIN v PROVE v[i] <= top
    OBVIOUS
  <2>2. CASE i \in DOMAIN w /\ v[i] = w[i]
    BY <2>2 DEF Ordered
  <2>3. CASE v[i] \in Int /\ v[i] <= 0
    BY <2>3
  <2>4. CASE i - lx \in 1..k /\ v[i] = b[i - lx]
    <3>1. i - lx \in DOMAIN b
      BY <1>1, <2>4
    <3>2. QED
      BY <2>4, <3>1 DEF Ordered
  <2>5. QED
    BY <1>3, <2>2, <2>3, <2>4
<1>9. \A i \in DOMAIN d : d[i] <= top
  BY <1>4 DEF Ordered
<1>10. QED
  BY <1>5, <1>6, <1>7, <1>8, <1>9 DEF Ordered

\* Control items and the first k bytes of the buffer go out, the first m are
\* gone from it.
LEMMA Moved ==
  ASSUME NEW w \in Seq(Numbers \cup Control), NEW b \in Seq(Numbers), NEW top \in Nat, Ordered(w, b, top),
         NEW c \in Seq(Control), NEW k \in 0..Len(b), NEW m \in k..Len(b)
  PROVE  /\ Ordered((w \o c) \o SubSeq(b, 1, k), Rest(b, m), top)
         /\ Len((w \o c) \o SubSeq(b, 1, k)) = Len(w) + Len(c) + k /\ Len(Rest(b, m)) = Len(b) - m
<1>1. PICK N : N = MaxWrites * ChunkLen
  OBVIOUS
<1>2. N \in Nat /\ Numbers = 1..N
  BY <1>1, TCPConstants DEF Numbers
<1>3. /\ Len(b) \in Nat /\ DOMAIN b = 1..Len(b) /\ m \in 0..Len(b) /\ k <= m /\ k \in Nat /\ m \in Nat
      /\ \A i \in DOMAIN b : b[i] \in Int /\ b[i] > 0
  <2>1. Len(b) \in Nat /\ DOMAIN b = 1..Len(b)
    BY LenProperties
  <2>2. \A i \in DOMAIN b : b[i] \in Numbers
    BY ElementOfSeq, <2>1
  <2>3. QED
    BY <1>2, <2>1, <2>2
<1>4. PICK x : x = w \o c
  OBVIOUS
<1>5. /\ x \in Seq((Numbers \cup Control) \cup Control) /\ Len(x) = Len(w) + Len(c)
      /\ Len(w) \in Nat /\ Len(c) \in Nat /\ DOMAIN w = 1..Len(w) /\ DOMAIN c = 1..Len(c)
      /\ \A i \in DOMAIN x : \/ i \in DOMAIN w /\ x[i] = w[i]
                             \/ i > Len(w) /\ i - Len(w) \in DOMAIN c /\ x[i] = c[i - Len(w)]
  BY <1>4, ConcatElements
<1>6. PICK y : y = SubSeq(b, 1, k)
  OBVIOUS
<1>7. y \in Seq(Numbers) /\ Len(y) = k /\ \A i \in 1..k : y[i] = b[i]
  BY <1>3, <1>6, SubSeqProperties
<1>8. PICK v : v = x \o y
  OBVIOUS
<1>9. /\ Len(v) = Len(x) + Len(y) /\ DOMAIN v = 1..(Len(x) + Len(y)) /\ DOMAIN x = 1..Len(x) /\ DOMAIN y = 1..Len(y)
      /\ \A i \in DOMAIN v : \/ i \in DOMAIN x /\ v[i] = x[i]
                             \/ i > Len(x) /\ i - Len(x) \in DOMAIN y /\ v[i] = y[i - Len(x)]
  <2>1. PICK S : S = (Numbers \cup Control) \cup Control
    OBVIOUS
  <2>2. x \in Seq(S) /\ y \in Seq(Numbers)
    BY <1>5, <1>7, <2>1
  <2>3. QED
    BY <1>8, <2>2, ConcatElements
<1>10. \A i \in DOMAIN c : c[i] \in Int /\ c[i] <= 0
  <2>1. \A i \in DOMAIN c : c[i] \in Control
    BY <1>5, ElementOfSeq
  <2>2. \A e \in Control : e \in Int /\ e <= 0
    BY DEF Control
  <2>3. QED
    BY <2>1, <2>2
<1>11. \A i \in DOMAIN v :
         \/ i \in DOMAIN w /\ v[i] = w[i]
         \/ i > Len(w) /\ v[i] \in Int /\ v[i] <= 0
         \/ i > Len(x) /\ i - Len(x) \in 1..k /\ v[i] = b[i - Len(x)]
  <2>1. SUFFICES ASSUME NEW i \in DOMAIN v
                 PROVE  \/ i \in DOMAIN w /\ v[i] = w[i]
                        \/ i > Len(w) /\ v[i] \in Int /\ v[i] <= 0
                        \/ i > Len(x) /\ i - Len(x) \in 1..k /\ v[i] = b[i - Len(x)]
    OBVIOUS
  <2>2. CASE i \in DOMAIN x /\ v[i] = x[i]
    BY <1>5, <1>10, <2>2
  <2>3. CASE i > Len(x) /\ i - Len(x) \in DOMAIN y /\ v[i] = y[i - Len(x)]
    BY <1>7, <1>9, <2>3
  <2>4. QED
    BY <1>9, <2>2, <2>3
<1>12. PICK d : d = Rest(b, m)
  OBVIOUS
<1>13. Len(d) = Len(b) - m /\ DOMAIN d = 1..(Len(b) - m) /\ \A i \in DOMAIN d : i + m \in DOMAIN b /\ d[i] = b[i + m]
  <2>1. /\ d \in Seq(Numbers) /\ Len(d) = Len(b) - m /\ \A i \in 1..(Len(b) - m) : d[i] = b[i + m]
    BY <1>3, <1>12, RestSeq
  <2>2. DOMAIN d = 1..Len(d)
    BY <2>1, LenProperties
  <2>3. QED
    BY <1>3, <2>1, <2>2
<1>14. PICK lw, lx, lb, lv : lw = Len(w) /\ lx = Len(x) /\ lb = Len(b) /\ lv = Len(v)
  OBVIOUS
<1>15. Ordered(v, d, top)
  <2>1. lw \in Nat /\ lx \in Nat /\ lb \in Nat /\ lv \in Nat /\ lw <= lx /\ m <= lb /\ k \in Nat /\ m \in Nat /\ k <= m
    BY <1>3, <1>5, <1>7, <1>9, <1>14
  <2>2. /\ DOMAIN w = 1..lw /\ DOMAIN b = 1..lb /\ DOMAIN v = 1..lv /\ DOMAIN d = 1..(lb - m)
        /\ \A i \in DOMAIN b : b[i] \in Int /\ b[i] > 0
        /\ \A i \in DOMAIN d : i + m \in DOMAIN b /\ d[i] = b[i + m]
    BY <1>3, <1>5, <1>9, <1>13, <1>14
  <2>3. \A i \in DOMAIN v : \/ i \in DOMAIN w /\ v[i] = w[i]
                            \/ i > lw /\ v[i] \in Int /\ v[i] <= 0
                            \/ i > lx /\ i - lx \in 1..k /\ v[i] = b[i - lx]
    BY <1>11, <1>14
  <2>4. QED
    <3>1. Parts(w, b, v, d, lw, lx, lb, lv, k, m)
      BY <2>1, <2>2, <2>3 DEF Parts
    <3>2. QED
      BY <3>1, MovedOrder
<1>18. Len(v) = Len(w) + Len(c) + k
  BY <1>5, <1>7, <1>9
<1>16. v = (w \o c) \o SubSeq(b, 1, k)
  BY <1>4, <1>6, <1>8
<1>17. QED
  BY <1>12, <1>13, <1>15, <1>16, <1>18

\* v is w and the first n of l new bytes, d is b and the others
NextParts(w, b, v, d, lw, lb, lv, ld, n, l, top) ==
  /\ lw \in Nat /\ lb \in Nat /\ lv \in Nat /\ ld \in Nat /\ n \in Nat /\ l \in Nat /\ n <= l /\ top \in Nat /\ (n > 0 => lb = 0)
  /\ DOMAIN w = 1..lw /\ DOMAIN b = 1..lb /\ DOMAIN v = 1..lv /\ DOMAIN d = 1..ld
  /\ \A i \in DOMAIN w : w[i] \in Int
  /\ \A i \in DOMAIN b : b[i] \in Int
  /\ \A i \in DOMAIN v : \/ i \in DOMAIN w /\ v[i] = w[i]
                         \/ i > lw /\ i - lw \in 1..n /\ v[i] = top + (i - lw)
  /\ \A i \in DOMAIN d : \/ i \in DOMAIN b /\ d[i] = b[i]
                         \/ i > lb /\ i - lb \in 1..(l - n) /\ d[i] = top + (i - lb + n)

\* New bytes come after all that were written before.
LEMMA ExtendedOrder ==
  ASSUME NEW w, NEW b, NEW v, NEW d, NEW lw, NEW lb, NEW lv, NEW ld, NEW n, NEW l, NEW top,
         NextParts(w, b, v, d, lw, lb, lv, ld, n, l, top), Ordered(w, b, top)
  PROVE  Ordered(v, d, top + l)
<1>1. /\ lw \in Nat /\ lb \in Nat /\ lv \in Nat /\ ld \in Nat /\ n \in Nat /\ l \in Nat /\ n <= l /\ top \in Nat /\ (n > 0 => lb = 0)
      /\ DOMAIN w = 1..lw /\ DOMAIN b = 1..lb /\ DOMAIN v = 1..lv /\ DOMAIN d = 1..ld
  BY DEF NextParts
<1>2. /\ \A i \in DOMAIN w : w[i] \in Int /\ w[i] <= top
      /\ \A i \in DOMAIN b : b[i] \in Int /\ b[i] <= top
  BY DEF NextParts, Ordered
<1>3. \A i \in DOMAIN v : \/ i \in DOMAIN w /\ v[i] = w[i]
                          \/ i > lw /\ i - lw \in 1..n /\ v[i] = top + (i - lw)
  BY DEF NextParts
<1>4. \A i \in DOMAIN d : \/ i \in DOMAIN b /\ d[i] = b[i]
                          \/ i > lb /\ i - lb \in 1..(l - n) /\ d[i] = top + (i - lb + n)
  BY DEF NextParts
<1>5. \A i, j \in DOMAIN v : i < j /\ v[i] > 0 /\ v[j] > 0 => v[i] < v[j]
  <2>1. SUFFICES ASSUME NEW i \in DOMAIN v, NEW j \in DOMAIN v, i < j, v[i] > 0, v[j] > 0 PROVE v[i] < v[j]
    OBVIOUS
  <2>2. i \in Int /\ j \in Int
    BY <1>1
  <2>3. CASE i \in DOMAIN w /\ v[i] = w[i] /\ j \in DOMAIN w /\ v[j] = w[j]
    BY <2>1, <2>3 DEF Ordered
  <2>4. CASE i \in DOMAIN w /\ v[i] = w[i] /\ j > lw /\ j - lw \in 1..n /\ v[j] = top + (j - lw)
    BY <1>1, <1>2, <2>2, <2>4
  <2>5. CASE i > lw /\ i - lw \in 1..n /\ v[i] = top + (i - lw)
    <3>1. j \notin DOMAIN w
      BY <1>1, <2>1, <2>2, <2>5
    <3>2. v[j] = top + (j - lw)
      BY <1>3, <3>1
    <3>3. QED
      BY <1>1, <2>1, <2>2, <2>5, <3>2
  <2>6. QED
    BY <1>3, <2>3, <2>4, <2>5
<1>6. \A i, j \in DOMAIN d : i < j => d[i] < d[j]
  <2>1. SUFFICES ASSUME NEW i \in DOMAIN d, NEW j \in DOMAIN d, i < j PROVE d[i] < d[j]
    OBVIOUS
  <2>2. i \in Int /\ j \in Int
    BY <1>1
  <2>3. CASE i \in DOMAIN b /\ d[i] = b[i] /\ j \in DOMAIN b /\ d[j] = b[j]
    BY <2>1, <2>3 DEF Ordered
  <2>4. CASE i \in DOMAIN b /\ d[i] = b[i] /\ j > lb /\ j - lb \in 1..(l - n) /\ d[j] = top + (j - lb + n)
    BY <1>1, <1>2, <2>2, <2>4
  <2>5. CASE i > lb /\ i - lb \in 1..(l - n) /\ d[i] = top + (i - lb + n)
    <3>1. j \notin DOMAIN b
      BY <1>1, <2>1, <2>2, <2>5
    <3>2. d[j] = top + (j - lb + n)
      BY <1>4, <3>1
    <3>3. top \in Int /\ lb \in Int /\ n \in Int
      BY <1>1
    <3>4. QED
      BY <2>1, <2>2, <2>5, <3>2, <3>3
  <2>6. QED
    BY <1>4, <2>3, <2>4, <2>5
<1>7. \A i \in DOMAIN v, j \in DOMAIN d : v[i] < d[j]
  <2>1. SUFFICES ASSUME NEW i \in DOMAIN v, NEW j \in DOMAIN d PROVE v[i] < d[j]
    OBVIOUS
  <2>2. i \in Int /\ j \in Int
    BY <1>1
  <2>3. CASE i \in DOMAIN w /\ v[i] = w[i] /\ j \in DOMAIN b /\ d[j] = b[j]
    BY <2>3 DEF Ordered
  <2>4. CASE i \in DOMAIN w /\ v[i] = w[i] /\ j > lb /\ j - lb \in 1..(l - n) /\ d[j] = top + (j - lb + n)
    BY <1>1, <1>2, <2>2, <2>4
  <2>5. CASE i > lw /\ i - lw \in 1..n /\ v[i] = top + (i - lw)
    <3>1. lb = 0 /\ j \notin DOMAIN b
      BY <1>1, <2>2, <2>5
    <3>2. j > lb /\ d[j] = top + (j - lb + n)
      BY <1>4, <3>1
    <3>3. QED
      BY <1>1, <2>2, <2>5, <3>2
  <2>6. QED
    BY <1>3, <1>4, <2>3, <2>4, <2>5
<1>8. \A i \in DOMAIN v : v[i] <= top + l
  <2>1. SUFFICES ASSUME NEW i \in DOMAIN v PROVE v[i] <= top + l
    OBVIOUS
  <2>2. CASE i \in DOMAIN w /\ v[i] = w[i]
    BY <1>1, <1>2, <2>2
  <2>3. CASE i > lw /\ i - lw \in 1..n /\ v[i] = top + (i - lw)
    BY <1>1, <2>3
  <2>4. QED
    BY <1>3, <2>2, <2>3
<1>9. \A i \in DOMAIN d : d[i] <= top + l
  <2>1. SUFFICES ASSUME NEW i \in DOMAIN d PROVE d[i] <= top + l
    OBVIOUS
  <2>2. CASE i \in DOMAIN b /\ d[i] = b[i]
    BY <1>1, <1>2, <2>2
  <2>3. CASE i > lb /\ i - lb \in 1..(l - n) /\ d[i] = top + (i - lb + n)
    BY <1>1, <2>3
  <2>4. QED
    BY <1>4, <2>2, <2>3
<1>10. QED
  BY <1>5, <1>6, <1>7, <1>8, <1>9 DEF Ordered

\* A call of write: the kernel takes the first n bytes, the others wait.
LEMMA Extended ==
  ASSUME NEW w \in Seq(Numbers \cup Control), NEW b \in Seq(Numbers), NEW top \in Nat, Ordered(w, b, top),
         NEW x \in Seq(Numbers), \A i \in 1..Len(x) : x[i] = top + i,
         NEW n \in 0..Len(x), n > 0 => Len(b) = 0
  PROVE  /\ Ordered(w \o SubSeq(x, 1, n), b \o Rest(x, n), top + Len(x))
         /\ Len(w \o SubSeq(x, 1, n)) + Len(b \o Rest(x, n)) = Len(w) + Len(b) + Len(x)
<1>1. PICK N : N = MaxWrites * ChunkLen
  OBVIOUS
<1>2. N \in Nat /\ Numbers = 1..N
  BY <1>1, TCPConstants DEF Numbers
<1>3. PICK y, z : y = SubSeq(x, 1, n) /\ z = Rest(x, n)
  OBVIOUS
<1>4. Len(x) \in Nat /\ DOMAIN x = 1..Len(x) /\ n \in Nat /\ n <= Len(x)
  BY LenProperties
<1>5. y \in Seq(Numbers) /\ Len(y) = n /\ \A i \in 1..n : y[i] = x[i]
  <2>1. y = SubSeq(x, 1, n) /\ 1 \in 1..Len(x)+1 /\ n \in (1-1)..Len(x)
    BY <1>3, <1>4
  <2>2. y \in Seq(Numbers) /\ Len(y) = IF 1 <= n THEN n - 1 + 1 ELSE 0
    BY <2>1, SubSeqProperties
  <2>3. \A i \in 1..(n - 1 + 1) : y[i] = x[1 + i - 1]
    BY <2>1, SubSeqProperties
  <2>4. QED
    BY <1>4, <2>2, <2>3
<1>6. z \in Seq(Numbers) /\ Len(z) = Len(x) - n /\ \A i \in 1..(Len(x) - n) : z[i] = x[i + n]
  BY <1>3, <1>4, RestSeq
<1>7. PICK v, d : v = w \o y /\ d = b \o z
  OBVIOUS
<1>8. /\ Len(v) = Len(w) + Len(y) /\ DOMAIN v = 1..(Len(w) + Len(y)) /\ Len(w) \in Nat /\ DOMAIN w = 1..Len(w)
      /\ DOMAIN y = 1..Len(y)
      /\ \A i \in DOMAIN v : \/ i \in DOMAIN w /\ v[i] = w[i]
                             \/ i > Len(w) /\ i - Len(w) \in DOMAIN y /\ v[i] = y[i - Len(w)]
  <2>1. y \in Seq(Numbers) /\ v = w \o y
    BY <1>5, <1>7
  <2>2. QED
    BY <2>1, ConcatElements
<1>9. /\ Len(d) = Len(b) + Len(z) /\ DOMAIN d = 1..(Len(b) + Len(z)) /\ Len(b) \in Nat /\ DOMAIN b = 1..Len(b)
      /\ DOMAIN z = 1..Len(z)
      /\ \A i \in DOMAIN d : \/ i \in DOMAIN b /\ d[i] = b[i]
                             \/ i > Len(b) /\ i - Len(b) \in DOMAIN z /\ d[i] = z[i - Len(b)]
  <2>1. z \in Seq(Numbers) /\ d = b \o z
    BY <1>6, <1>7
  <2>2. QED
    BY <2>1, ConcatElements
<1>10. PICK lw, lb, lv, ld, l : lw = Len(w) /\ lb = Len(b) /\ lv = Len(v) /\ ld = Len(d) /\ l = Len(x)
  OBVIOUS
<1>11. NextParts(w, b, v, d, lw, lb, lv, ld, n, l, top)
  <2>1. /\ lw \in Nat /\ lb \in Nat /\ lv \in Nat /\ ld \in Nat /\ n \in Nat /\ l \in Nat /\ n <= l /\ (n > 0 => lb = 0)
        /\ lv = lw + n /\ ld = lb + (l - n)
    BY <1>4, <1>5, <1>6, <1>8, <1>9, <1>10
  <2>2. DOMAIN w = 1..lw /\ DOMAIN b = 1..lb /\ DOMAIN v = 1..lv /\ DOMAIN d = 1..ld
    BY <1>8, <1>9, <1>10
  <2>3. \A i \in DOMAIN w : w[i] \in Int
    <3>1. \A i \in DOMAIN w : w[i] \in Numbers \cup Control
      BY <1>8, ElementOfSeq
    <3>2. Numbers \cup Control \subseteq Int
      BY <1>2 DEF Control
    <3>3. QED
      BY <3>1, <3>2
  <2>4. \A i \in DOMAIN b : b[i] \in Int
    <3>1. \A i \in DOMAIN b : b[i] \in Numbers
      BY <1>9, ElementOfSeq
    <3>2. QED
      BY <1>2, <3>1
  <2>5. \A i \in DOMAIN v : \/ i \in DOMAIN w /\ v[i] = w[i]
                            \/ i > lw /\ i - lw \in 1..n /\ v[i] = top + (i - lw)
    <3>1. \A p \in DOMAIN y : p \in 1..n /\ y[p] = top + p
      BY <1>4, <1>5, <1>8
    <3>2. QED
      BY <1>8, <1>10, <3>1
  <2>6. \A i \in DOMAIN d : \/ i \in DOMAIN b /\ d[i] = b[i]
                            \/ i > lb /\ i - lb \in 1..(l - n) /\ d[i] = top + (i - lb + n)
    <3>1. \A p \in DOMAIN z : p \in 1..(l - n) /\ z[p] = top + (p + n)
      <4>1. /\ DOMAIN z = 1..(l - n) /\ l = Len(x) /\ l \in Nat /\ n \in Nat /\ n <= l
            /\ \A i \in 1..l : x[i] = top + i
        BY <1>4, <1>6, <1>9, <1>10
      <4>2. ASSUME NEW p \in 1..(l - n) PROVE z[p] = top + (p + n)
        <5>1. p + n \in 1..l
          BY <4>1
        <5>2. z[p] = x[p + n]
          BY <1>6, <4>1
        <5>3. QED
          BY <4>1, <5>1, <5>2
      <4>3. QED
        BY <4>1, <4>2
    <3>2. QED
      BY <1>9, <1>10, <3>1
  <2>7. QED
    BY <2>1, <2>2, <2>3, <2>4, <2>5, <2>6 DEF NextParts
<1>12. Ordered(v, d, top + l)
  BY <1>11, ExtendedOrder
<1>13. Len(v) + Len(d) = Len(w) + Len(b) + Len(x)
  BY <1>4, <1>5, <1>6, <1>8, <1>9
<1>14. QED
  BY <1>3, <1>7, <1>10, <1>12, <1>13

\* What every step of it needs.
LEMMA WireTypes ==
  ASSUME IInv
  PROVE  /\ net.wire \in Seq(Numbers \cup Control) /\ t.write_buf \in Seq(Numbers) /\ t.written \in 0..MaxWrites
         /\ Len(net.wire) \in Nat /\ Len(t.write_buf) \in Nat /\ t.written * ChunkLen \in Nat
<1>1. net.wire \in Seq(Numbers \cup Control) /\ t.write_buf \in Seq(Numbers) /\ t.written \in 0..MaxWrites
  BY DEF IInv, TypeInv, NetType, Nets, Transports
<1>2. Len(net.wire) \in Nat /\ Len(t.write_buf) \in Nat
  BY <1>1, LenProperties
<1>3. t.written \in Nat /\ ChunkLen \in Nat
  BY <1>1, TCPConstants
<1>4. t.written * ChunkLen \in Nat
  BY <1>3
<1>5. QED
  BY <1>1, <1>2, <1>4

\* A call of write.
LEMMA WriteWire == IInv /\ SentInv /\ Write => SentInv'
<1> SUFFICES ASSUME IInv, SentInv, Write PROVE SentInv'
  OBVIOUS
<1>1. /\ net.wire \in Seq(Numbers \cup Control) /\ t.write_buf \in Seq(Numbers) /\ t.written \in 0..MaxWrites
      /\ Len(net.wire) \in Nat /\ Len(t.write_buf) \in Nat /\ t.written * ChunkLen \in Nat
  BY WireTypes
<1>2. PICK n \in 0..ChunkLen, x \in Seq(Numbers) :
        /\ x = Bytes(t.written + 1) /\ Len(x) = ChunkLen /\ (n > 0 => t.write_buf_dsize = 0) /\ SentOnly
        /\ net'.wire = net.wire \o SubSeq(x, 1, n)
        /\ t' = [t EXCEPT !.write_buf = @ \o Rest(x, n), !.write_buf_dsize = @ + Len(Rest(x, n)), !.written = @ + 1,
                          !.proto_paused = @ \/ (Rest(x, n) # <<>> /\ t.write_buf_dsize + Len(Rest(x, n)) > t.water_hi)]
  BY WriteEffect
<1>3. t'.write_buf = t.write_buf \o Rest(x, n) /\ t'.written = t.written + 1
  BY <1>2 DEF IInv, TypeInv, Transports
<1>4. PICK top : top = t.written * ChunkLen
  OBVIOUS
<1>5. top \in Nat /\ t'.written * ChunkLen = top + Len(x) /\ \A i \in 1..Len(x) : x[i] = top + i
  <2>1. ChunkLen \in Nat /\ t.written \in Nat /\ t.written < MaxWrites /\ MaxWrites \in Nat
    BY <1>1, TCPConstants DEF Write
  <2>2. PICK k : k = t.written + 1
    OBVIOUS
  <2>3. k \in 1..MaxWrites /\ k - 1 = t.written
    BY <2>1, <2>2
  <2>4. \A i \in 1..ChunkLen : Bytes(k)[i] = (k - 1) * ChunkLen + i
    BY <2>3, BytesSeq
  <2>5. \A i \in 1..ChunkLen : Bytes(k)[i] = top + i
    BY <1>4, <2>3, <2>4
  <2>6. (t.written + 1) * ChunkLen = top + ChunkLen
    BY <1>4, <2>1
  <2>7. QED
    BY <1>1, <1>2, <1>3, <1>4, <2>2, <2>5, <2>6
<1>6. n \in 0..Len(x) /\ (n > 0 => Len(t.write_buf) = 0) /\ Ordered(net.wire, t.write_buf, top)
  BY <1>2, <1>4 DEF IInv, BufferInv, SentInv
<1>7. PICK w, b : w = net.wire /\ b = t.write_buf
  OBVIOUS
<1>8. /\ Ordered(w \o SubSeq(x, 1, n), b \o Rest(x, n), top + Len(x))
      /\ Len(w \o SubSeq(x, 1, n)) + Len(b \o Rest(x, n)) = Len(w) + Len(b) + Len(x)
  <2>1. w \in Seq(Numbers \cup Control) /\ b \in Seq(Numbers) /\ Ordered(w, b, top) /\ (n > 0 => Len(b) = 0)
    BY <1>1, <1>6, <1>7
  <2>2. QED
    BY <1>5, <1>6, <2>1, Extended
<1>9. Ordered(net'.wire, t'.write_buf, t'.written * ChunkLen)
  BY <1>2, <1>3, <1>5, <1>7, <1>8
<1>10. ~tls' /\ net'.reset = "no" => Len(net'.wire) + Len(t'.write_buf) = t'.written * ChunkLen
  <2>1. Len(net'.wire) + Len(t'.write_buf) = Len(net.wire) + Len(t.write_buf) + Len(x)
    BY <1>2, <1>3, <1>7, <1>8
  <2>2. (~tls' => ~tls) /\ (net'.reset = "no" => net.reset = "no")
    BY <1>2 DEF Write, SentOnly
  <2>3. ~tls /\ net.reset = "no" => Len(net.wire) + Len(t.write_buf) = top
    BY <1>4 DEF SentInv
  <2>4. QED
    BY <1>1, <1>5, <2>1, <2>2, <2>3
<1>11. QED
  BY <1>9, <1>10 DEF SentInv

\* A write that fails: the connection was reset, as FIN is not sent before
\* write_eof.
LEMMA WriteErrorWire == IInv /\ SentInv /\ WriteError => SentInv'
<1> SUFFICES ASSUME IInv, SentInv, WriteError PROVE SentInv'
  OBVIOUS
<1>1. /\ net.wire \in Seq(Numbers \cup Control) /\ t.write_buf \in Seq(Numbers) /\ t.written \in 0..MaxWrites
      /\ t.written * ChunkLen \in Nat
  BY WireTypes
<1>2. net.reset # "no"
  BY DEF WriteError, WriteFails, IInv, FinInv
<1>3. PICK e, m : e = SubSeq(<<>>, 1, 0) /\ m = Send(net, <<>>, 0)
  OBVIOUS
<1>4. e = <<>>
  BY <1>3, SubSeqEmpty
<1>5. m.wire = net.wire \o e /\ m.reset # "no"
  BY <1>2, <1>3 DEF IInv, TypeInv, NetType, Nets, Send
<1>6. net'.wire = net.wire /\ net'.reset # "no"
  <2>1. net.wire \o e = net.wire
    BY <1>1, <1>4, ConcatEmptySeq
  <2>2. net' = m
    BY <1>3 DEF WriteError
  <2>3. QED
    BY <1>5, <2>1, <2>2
<1>7. t'.write_buf = t.write_buf /\ t'.written = t.written + 1
  BY DEF WriteError, SetClosing, IInv, TypeInv, Transports
<1>8. PICK top, to : top = t.written * ChunkLen /\ to = (t.written + 1) * ChunkLen
  OBVIOUS
<1>9. top \in Nat /\ to \in Nat /\ top <= to
  <2>1. ChunkLen \in Nat /\ t.written \in Nat
    BY <1>1, TCPConstants
  <2>2. to = top + ChunkLen
    BY <1>8, <2>1
  <2>3. QED
    BY <1>1, <1>8, <2>1, <2>2
<1>10. PICK w, b : w = net.wire /\ b = t.write_buf
  OBVIOUS
<1>11. NextParts(w, b, w, b, Len(w), Len(b), Len(w), Len(b), 0, to - top, top)
  <2>1. w \in Seq(Numbers \cup Control) /\ b \in Seq(Numbers)
    BY <1>1, <1>10
  <2>2. Len(w) \in Nat /\ Len(b) \in Nat /\ DOMAIN w = 1..Len(w) /\ DOMAIN b = 1..Len(b)
    BY <2>1, LenProperties
  <2>3. Numbers \subseteq Int /\ Control \subseteq Int
    BY DEF Numbers, Control
  <2>4. (\A i \in DOMAIN w : w[i] \in Int) /\ (\A i \in DOMAIN b : b[i] \in Int)
    BY <2>1, <2>2, <2>3, ElementOfSeq
  <2>5. to - top \in Nat
    BY <1>9
  <2>6. QED
    BY <1>9, <2>2, <2>4, <2>5 DEF NextParts
<1>12. Ordered(w, b, top + (to - top))
  BY <1>8, <1>10, <1>11, ExtendedOrder DEF SentInv
<1>13. top + (to - top) = to
  BY <1>9
<1>14. QED
  BY <1>6, <1>7, <1>8, <1>10, <1>12, <1>13 DEF SentInv

\* The write handle.
LEMMA WriteHandleWire == IInv /\ SentInv /\ WriteHandle /\ ~t'.tls_full => SentInv'
<1> SUFFICES ASSUME IInv, SentInv, WriteHandle, ~t'.tls_full PROVE SentInv'
  OBVIOUS
<1>1. /\ net.wire \in Seq(Numbers \cup Control) /\ t.write_buf \in Seq(Numbers) /\ t.written \in 0..MaxWrites
      /\ Len(net.wire) \in Nat /\ Len(t.write_buf) \in Nat /\ t.written * ChunkLen \in Nat
  BY WireTypes
<1>2. \E c \in Seq(Control), k \in 0..Len(t.write_buf) : \E m \in k..Len(t.write_buf) : WroteOut(c, k, m)
  BY WritePlainEffect, WriteTLSEffect DEF WriteHandle
<1>3. PICK w, b, top : w = net.wire /\ b = t.write_buf /\ top = t.written * ChunkLen
  OBVIOUS
<1>4. PICK c \in Seq(Control), k \in 0..Len(b) : \E m \in k..Len(b) : WroteOut(c, k, m)
  BY <1>2, <1>3
<1>5. PICK m \in k..Len(b) : WroteOut(c, k, m)
  BY <1>4
<1>6. /\ Ordered((w \o c) \o SubSeq(b, 1, k), Rest(b, m), top)
      /\ Len((w \o c) \o SubSeq(b, 1, k)) = Len(w) + Len(c) + k /\ Len(Rest(b, m)) = Len(b) - m
  <2>1. w \in Seq(Numbers \cup Control) /\ b \in Seq(Numbers) /\ top \in Nat /\ Ordered(w, b, top)
    BY <1>1, <1>3 DEF SentInv
  <2>2. QED
    BY <2>1, Moved
<1>7. /\ net'.wire = (w \o c) \o SubSeq(b, 1, k) /\ t'.write_buf = Rest(b, m) /\ t'.written = t.written
      /\ (net'.reset = "no" => net.reset = "no") /\ (~tls /\ net.reset = "no" => c = <<>> /\ k = m)
  BY <1>3, <1>5 DEF WroteOut, SentOnly
<1>8. Ordered(net'.wire, t'.write_buf, t'.written * ChunkLen)
  BY <1>3, <1>6, <1>7
<1>9. ~tls' /\ net'.reset = "no" => Len(net'.wire) + Len(t'.write_buf) = t'.written * ChunkLen
  <2>1. SUFFICES ASSUME ~tls', net'.reset = "no" PROVE Len(net'.wire) + Len(t'.write_buf) = t'.written * ChunkLen
    OBVIOUS
  <2>2. ~tls /\ net.reset = "no"
    BY <1>7, <2>1 DEF WriteHandle
  <2>3. Len(c) = 0 /\ k = m /\ Len(w) + Len(b) = top
    BY <1>3, <1>7, <2>2 DEF SentInv
  <2>4. k \in Nat /\ Len(b) \in Nat /\ Len(w) \in Nat
    BY <1>1, <1>3, <1>4
  <2>5. Len(net'.wire) = Len(w) + Len(c) + k /\ Len(t'.write_buf) = Len(b) - m
    BY <1>6, <1>7
  <2>6. Len(net'.wire) + Len(t'.write_buf) = top
    BY <2>3, <2>4, <2>5
  <2>7. QED
    BY <1>3, <1>7, <2>6
<1>10. QED
  BY <1>8, <1>9 DEF SentInv

\* The close alert goes out.
LEMMA AlertWire ==
  ASSUME IInv, SentInv, SendAlert, tls, ~t.tls_full, tls' = tls, t'.write_buf = t.write_buf, t'.written = t.written
  PROVE  SentInv'
<1>1. /\ net.wire \in Seq(Numbers \cup Control) /\ t.write_buf \in Seq(Numbers) /\ Len(t.write_buf) \in Nat
      /\ t.written * ChunkLen \in Nat
  BY WireTypes
<1>2. PICK w, b, top : w = net.wire /\ b = t.write_buf /\ top = t.written * ChunkLen
  OBVIOUS
<1>3. PICK c \in Seq(Control) : net'.wire = w \o c
  BY <1>2, AlertSent
<1>4. w \in Seq(Numbers \cup Control) /\ b \in Seq(Numbers) /\ top \in Nat /\ Ordered(w, b, top) /\ Len(b) \in Nat
  BY <1>1, <1>2 DEF SentInv
<1>5. 0 \in 0..Len(b)
  BY <1>4
<1>6. Ordered((w \o c) \o SubSeq(b, 1, 0), Rest(b, 0), top)
  BY <1>4, <1>5, Moved
<1>7. (w \o c) \o SubSeq(b, 1, 0) = w \o c
  <2>1. SubSeq(b, 1, 0) = <<>>
    BY SubSeqEmpty
  <2>2. PICK S : S = Numbers \cup Control
    OBVIOUS
  <2>3. w \in Seq(S) /\ c \in Seq(S)
    BY <1>3, <1>4, <2>2, SeqMonotonic
  <2>4. w \o c \in Seq(S)
    BY <2>3, ConcatProperties
  <2>5. QED
    BY <2>1, <2>4, ConcatEmptySeq
<1>8. Rest(b, 0) = b
  <2>1. /\ Rest(b, 0) \in Seq(Numbers) /\ Len(Rest(b, 0)) = Len(b) - 0
        /\ \A i \in 1..(Len(b) - 0) : Rest(b, 0)[i] = b[i + 0]
    BY <1>4, <1>5, RestSeq
  <2>2. Len(Rest(b, 0)) = Len(b) /\ \A i \in 1..Len(b) : Rest(b, 0)[i] = b[i]
    BY <1>4, <2>1
  <2>3. QED
    BY <1>4, <2>1, <2>2, SeqEqual
<1>9. Ordered(w \o c, b, top)
  BY <1>6, <1>7, <1>8
<1>10. QED
  BY <1>2, <1>3, <1>9 DEF SentInv

\* The other steps send nothing.
LEMMA OtherWire ==
  ASSUME IInv, SentInv, tls' = tls, net'.wire = net.wire, t'.write_buf = t.write_buf, t'.written = t.written,
         net'.reset = "no" => net.reset = "no"
  PROVE  SentInv'
BY DEF SentInv

\* close() and the end of the write handle.
LEMMA CloseWire == IInv /\ SentInv /\ ~t.tls_full /\ (Close \/ WriteHandleEnds) => SentInv'
<1> SUFFICES ASSUME IInv, SentInv, ~t.tls_full, Close \/ WriteHandleEnds PROVE SentInv'
  OBVIOUS
<1>1. tls' = tls /\ t \in Transports /\ net \in Nets
  BY DEF Close, WriteHandleEnds, IInv, TypeInv, NetType
<1>2. t'.write_buf = t.write_buf /\ t'.written = t.written
  <2>1. \/ t' = t \/ t' = SetClosing(t) \/ t' = [SetClosing(t) EXCEPT !.tls_pending_close = TRUE]
        \/ t' = Alert(t) \/ t' = Alert(SetClosing(t))
    BY DEF Close, WriteHandleEnds
  <2>2. QED
    BY <1>1, <2>1 DEF SetClosing, Alert, Transports
<1>3. (SendAlert /\ tls) \/ net' = net \/ net' = [net EXCEPT !.fin = @ \/ t.weof]
  BY DEF Close, WriteHandleEnds, IInv, PlainInv, HeldInv
<1>4. CASE SendAlert /\ tls
  BY <1>1, <1>2, <1>4, AlertWire
<1>5. CASE net' = net \/ net' = [net EXCEPT !.fin = @ \/ t.weof]
  <2>1. net'.wire = net.wire /\ net'.reset = net.reset
    BY <1>1, <1>5 DEF Nets
  <2>2. QED
    BY <1>1, <1>2, <2>1, OtherWire
<1>6. QED
  BY <1>3, <1>4, <1>5

\* A read leaves the buffer alone.
LEMMA RecvFields ==
  ASSUME IInv, RecvTLS
  PROVE  t'.write_buf = t.write_buf /\ t'.written = t.written /\ t'.tls_full = t.tls_full
<1>1. t \in Transports
  BY DEF IInv, TypeInv
<1>2. PICK k \in 0..Len(net.inq), full \in BOOLEAN, error \in BOOLEAN : \E m \in 0..k : RecvOnce(k, full, error, m)
  BY DEF RecvTLS, RecvOnce
<1>3. PICK m \in 0..k : RecvOnce(k, full, error, m)
  BY <1>2
<1>4. PICK h, c, ends : /\ h = Count(SubSeq(net.inq, 1, m), "hs") /\ c = (net.hs = Flights /\ m > 0 /\ h = Count(net.inq, "hs"))
                        /\ ends = (error \/ Count(SubSeq(net.inq, 1, m), "alert") > 0)
  OBVIOUS
<1>5. PICK reply : reply = [i \in 1..(IF c /\ role = "connected" THEN 0 ELSE h) |-> 0]
  OBVIOUS
<1>6. PICK out, missed : out = t.tls_out \o (IF ends THEN <<-1>> ELSE reply) /\ missed = (t.tls_missed \/ m < k)
  OBVIOUS
<1>7. PICK u : u = [t EXCEPT !.tls_out = out, !.tls_missed = missed]
  OBVIOUS
<1>8. t' = u \/ t' = [u EXCEPT !.handshake_complete = @ \/ (c /\ ~t.handshake_complete)]
  BY <1>3, <1>4, <1>5, <1>6, <1>7 DEF RecvOnce
<1>9. u.write_buf = t.write_buf /\ u.written = t.written /\ u.tls_full = t.tls_full
  BY <1>1, <1>7 DEF Transports
<1>10. QED
  BY <1>1, <1>7, <1>8, <1>9 DEF Transports

\* A read.
LEMMA RecvWire == IInv /\ SentInv /\ (RecvPlain \/ RecvTLS) => SentInv'
<1> SUFFICES ASSUME IInv, SentInv, RecvPlain \/ RecvTLS PROVE SentInv'
  OBVIOUS
<1>1. tls' = tls /\ t \in Transports /\ net \in Nets
  BY DEF RecvPlain, RecvTLS, IInv, TypeInv, NetType
<1>2. t'.write_buf = t.write_buf /\ t'.written = t.written
  <2>1. CASE RecvPlain
    BY <2>1 DEF RecvPlain
  <2>2. CASE RecvTLS
    BY <2>2, RecvFields
  <2>3. QED
    BY <2>1, <2>2
<1>3. net'.wire = net.wire /\ (net'.reset = "no" => net.reset = "no")
  <2>1. CASE RecvPlain
    <3>1. PICK k \in 0..Len(net.inq), full \in BOOLEAN : net' = Read(k, full)
      BY <2>1 DEF RecvPlain
    <3>2. QED
      BY <1>1, <3>1 DEF Nets, Read
  <2>2. CASE RecvTLS
    <3>1. PICK k \in 0..Len(net.inq), full \in BOOLEAN, error \in BOOLEAN : \E m \in 0..k : RecvOnce(k, full, error, m)
      BY <2>2 DEF RecvTLS, RecvOnce
    <3>2. net' = Read(k, full)
      BY <3>1 DEF RecvOnce
    <3>3. QED
      BY <1>1, <3>2 DEF Nets, Read
  <2>3. QED
    BY <2>1, <2>2
<1>4. QED
  BY <1>1, <1>2, <1>3, OtherWire

\* The peer.
LEMMA PeerWire == IInv /\ SentInv /\ Peer => SentInv'
<1> SUFFICES ASSUME IInv, SentInv, Peer PROVE SentInv'
  OBVIOUS
<1>1. tls' = tls /\ t' = t /\ net \in Nets
  BY DEF Peer, PeerHandshakes, PeerSends, PeerCloses, PeerShutsDown, PeerResets, PeerReads, Arrives, IInv, TypeInv, NetType
<1>2. \/ \E h, q : net' = [net EXCEPT !.hs = h, !.inq = q]
      \/ \E n, q : net' = [net EXCEPT !.sent = n, !.inq = q]
      \/ \E q : net' = [net EXCEPT !.alert = TRUE, !.inq = q]
      \/ net' = [net EXCEPT !.peer_eof = TRUE]
      \/ net' = [net EXCEPT !.reset = "pending"]
      \/ \E n : net' = [net EXCEPT !.drained = n]
  BY DEF Peer, PeerHandshakes, PeerSends, PeerCloses, PeerShutsDown, PeerResets, PeerReads, Arrives
<1>3. net'.wire = net.wire /\ (net'.reset = "no" => net.reset = "no")
  BY <1>1, <1>2 DEF Nets
<1>4. QED
  BY <1>1, <1>3, OtherWire

\* Steps that leave the kernel alone, and write_eof.
LEMMA StillWire ==
  IInv /\ SentInv /\ (\/ UNCHANGED vars \/ Bind \/ ConnectionMade \/ Poll \/ HandleDropped \/ ReadHandle \/ DataReturns
                      \/ EofReturns \/ CloseTimeout \/ ResumeReturns \/ WriteEof \/ Abort \/ PauseReading
                      \/ ResumeReading \/ SetWriteBufferLimits) => SentInv'
<1> SUFFICES ASSUME IInv, SentInv,
                    \/ UNCHANGED vars \/ Bind \/ ConnectionMade \/ Poll \/ HandleDropped \/ ReadHandle \/ DataReturns
                    \/ EofReturns \/ CloseTimeout \/ ResumeReturns \/ WriteEof \/ Abort \/ PauseReading
                    \/ ResumeReading \/ SetWriteBufferLimits
             PROVE  SentInv'
  OBVIOUS
<1>1. t \in Transports /\ net \in Nets
  BY DEF IInv, TypeInv, NetType
<1>2. CASE UNCHANGED vars \/ Bind \/ ConnectionMade \/ Poll \/ HandleDropped \/ ReadHandle \/ DataReturns \/ CloseTimeout \/ ResumeReturns
  <2>1. tls' = tls /\ t' = t /\ net' = net
    BY <1>2 DEF vars, Bind, ConnectionMade, Poll, HandleDropped, ReadHandle, DataReturns, CloseTimeout, ResumeReturns
  <2>2. QED
    BY <2>1, OtherWire
<1>3. CASE EofReturns \/ Abort
  <2>1. tls' = tls /\ (t' = t \/ t' = [t EXCEPT !.closing = TRUE]) /\ net' = net
    BY <1>3 DEF EofReturns, Abort, CloseFromRead, SetClosing
  <2>2. t'.write_buf = t.write_buf /\ t'.written = t.written
    BY <1>1, <2>1 DEF Transports
  <2>3. QED
    BY <2>1, <2>2, OtherWire
<1>4. CASE WriteEof
  <2>1. tls' = tls /\ t' = [t EXCEPT !.weof = TRUE] /\ net' = [net EXCEPT !.fin = @ \/ t.write_buf_dsize = 0]
    BY <1>4 DEF WriteEof
  <2>2. t'.write_buf = t.write_buf /\ t'.written = t.written /\ net'.wire = net.wire /\ net'.reset = net.reset
    BY <1>1, <2>1 DEF Transports, Nets
  <2>3. QED
    BY <2>1, <2>2, OtherWire
<1>5. CASE PauseReading \/ ResumeReading \/ SetWriteBufferLimits
  <2>1. tls' = tls /\ net' = net
    BY <1>5 DEF PauseReading, ResumeReading, SetWriteBufferLimits
  <2>2. t'.write_buf = t.write_buf /\ t'.written = t.written
    <3>1. CASE PauseReading \/ ResumeReading
      BY <1>1, <3>1 DEF PauseReading, ResumeReading, Transports
    <3>2. CASE SetWriteBufferLimits
      BY <1>1, <3>2 DEF SetWriteBufferLimits, Transports
    <3>3. QED
      BY <1>5, <3>1, <3>2
  <2>3. QED
    BY <2>1, <2>2, OtherWire
<1>6. QED
  BY <1>2, <1>3, <1>4, <1>5

\* A new transport has sent nothing.
LEMMA InitWire == Init => SentInv
<1> SUFFICES ASSUME Init PROVE SentInv
  OBVIOUS
<1>1. net.wire = <<>> /\ t.write_buf = <<>> /\ t.written = 0
  BY DEF Init, NewNet, NewTransport
<1>2. ChunkLen \in Nat
  BY TCPConstants
<1>3. 0 * ChunkLen = 0
  BY <1>2
<1>4. DOMAIN net.wire = {} /\ DOMAIN t.write_buf = {} /\ Len(net.wire) = 0 /\ Len(t.write_buf) = 0
  BY <1>1
<1>5. QED
  BY <1>1, <1>3, <1>4 DEF SentInv, Ordered

\* Once rustls was at a limit, this is not forgotten.
LEMMA FullStays == IInv /\ [Next]_vars /\ ~t'.tls_full => ~t.tls_full
<1> SUFFICES ASSUME IInv, [Next]_vars PROVE t'.tls_full = t.tls_full \/ (~t'.tls_full => ~t.tls_full)
  OBVIOUS
<1>1. t \in Transports
  BY DEF IInv, TypeInv
<1>2. CASE \/ UNCHANGED vars \/ Bind \/ ConnectionMade \/ Poll \/ HandleDropped \/ ReadHandle \/ DataReturns \/ RecvPlain
           \/ CloseTimeout \/ ResumeReturns \/ Peer
  <2>1. t' = t
    BY <1>2 DEF vars, Bind, ConnectionMade, Poll, HandleDropped, ReadHandle, DataReturns, RecvPlain, CloseTimeout, ResumeReturns,
                Peer, PeerHandshakes, PeerSends, PeerCloses, PeerShutsDown, PeerResets, PeerReads, Arrives
  <2>2. QED
    BY <2>1
<1>3. CASE EofReturns \/ Abort \/ WriteEof \/ PauseReading \/ ResumeReading
  <2>1. \/ t' = t \/ t' = [t EXCEPT !.closing = TRUE] \/ t' = [t EXCEPT !.weof = TRUE]
        \/ \E b : t' = [t EXCEPT !.paused = b]
    BY <1>3 DEF EofReturns, CloseFromRead, Abort, SetClosing, WriteEof, PauseReading, ResumeReading
  <2>2. QED
    BY <1>1, <2>1 DEF Transports
<1>4. CASE WriteError
  BY <1>1, <1>4 DEF WriteError, SetClosing, Transports
<1>5. CASE SetWriteBufferLimits
  BY <1>1, <1>5 DEF SetWriteBufferLimits, Transports
<1>6. CASE Write
  <2>1. PICK n \in 0..ChunkLen, x \in Seq(Numbers) :
          t' = [t EXCEPT !.write_buf = @ \o Rest(x, n), !.write_buf_dsize = @ + Len(Rest(x, n)), !.written = @ + 1,
                         !.proto_paused = @ \/ (Rest(x, n) # <<>> /\ t.write_buf_dsize + Len(Rest(x, n)) > t.water_hi)]
    BY <1>6, WriteEffect
  <2>2. QED
    BY <1>1, <2>1 DEF Transports
<1>7. CASE Close \/ WriteHandleEnds
  <2>1. PICK u : u = SetClosing(t)
    OBVIOUS
  <2>2. u \in Transports /\ u.tls_full = t.tls_full
    BY <1>1, <2>1 DEF SetClosing, Transports
  <2>3. \/ t' = t \/ t' = u \/ t' = [u EXCEPT !.tls_pending_close = TRUE] \/ t' = Alert(t) \/ t' = Alert(u)
    BY <1>7, <2>1 DEF Close, WriteHandleEnds
  <2>4. CASE t' = t \/ t' = u \/ t' = [u EXCEPT !.tls_pending_close = TRUE]
    BY <2>2, <2>4 DEF Transports
  <2>5. CASE t' = Alert(t) \/ t' = Alert(u)
    BY <1>1, <2>2, <2>5, AlertQueued
  <2>6. QED
    BY <2>3, <2>4, <2>5
<1>8. CASE RecvTLS
  BY <1>8, RecvFields
<1>9. CASE WriteHandle
  <2>1. \E c \in Seq(Control), k \in 0..Len(t.write_buf) : \E m \in k..Len(t.write_buf) : WroteOut(c, k, m)
    BY <1>9, WritePlainEffect, WriteTLSEffect DEF WriteHandle
  <2>2. QED
    BY <2>1 DEF WroteOut
<1>10. QED
  BY <1>2, <1>3, <1>4, <1>5, <1>6, <1>7, <1>8, <1>9 DEF Next, Loop, Methods

\* What went out and what waits stay in order.
THEOREM WireInvariant == Spec => []WireInv
<1>1. Init => WireInv
  BY InitWire DEF WireInv
<1>2. IInv /\ WireInv /\ [Next]_vars => WireInv'
  <2> SUFFICES ASSUME IInv, WireInv, [Next]_vars, ~t'.tls_full PROVE SentInv'
    BY DEF WireInv
  <2>0. ~t.tls_full /\ SentInv
    BY FullStays DEF WireInv
  <2>1. CASE Write \/ WriteError \/ WriteHandle
    BY <2>0, <2>1, WriteWire, WriteErrorWire, WriteHandleWire
  <2>2. CASE Close \/ WriteHandleEnds \/ RecvPlain \/ RecvTLS \/ Peer
    BY <2>0, <2>2, CloseWire, RecvWire, PeerWire
  <2>3. CASE \/ UNCHANGED vars \/ Bind \/ ConnectionMade \/ Poll \/ HandleDropped \/ ReadHandle \/ DataReturns
             \/ EofReturns \/ CloseTimeout \/ ResumeReturns \/ WriteEof \/ Abort \/ PauseReading
             \/ ResumeReading \/ SetWriteBufferLimits
    BY <2>0, <2>3, StillWire
  <2>4. QED
    BY <2>1, <2>2, <2>3 DEF Next, Loop, Methods
<1>3. QED
  BY <1>1, <1>2, Invariant, PTL DEF Spec
-----------------------------------------------------------------------------
(***************************************************************************)
(* The properties.                                                         *)
(***************************************************************************)

\* The fields of TCPTransport, the entry in handles_io and the calls of the
\* protocol have their types; no more is delivered than the peer sent.
THEOREM TypeCorrect == Spec => []TypeOK
<1>1. IInv => TypeOK
  <2> SUFFICES ASSUME IInv PROVE TypeOK
    OBVIOUS
  <2>1. LoopType /\ t \in Transports /\ net \in Nets /\ Holds(net) /\ io \in Entries /\ proto \in Calls
    BY DEF IInv, TypeInv, NetType
  <2>2. role \in Roles /\ tls \in TLS /\ bound \in BOOLEAN /\ queued \in {"none", "read", "write"}
        /\ pc \in {"idle", "reading", "data", "dataeof", "eof", "resume", "wrote", "failed", "aborted"}
    BY <2>1 DEF LoopType
  <2>3. io.interest \subseteq R \cup W /\ io.armed \in BOOLEAN
    BY <2>1 DEF Entries
  <2>4. {t.closing, t.paused, t.weof, t.proto_paused, t.handshake_complete, t.tls_close_sent,
         t.tls_pending_close, t.proto_buffered, t.tls_missed, t.tls_full, net.peer_eof, net.fin,
         net.alert} \subseteq BOOLEAN
    BY <2>1 DEF Transports, Nets
  <2>5. /\ t.write_buf \in Seq(1..MaxWrites * ChunkLen) /\ t.write_buf_dsize \in Nat
        /\ t.water_lo \in Nat /\ t.water_hi \in Nat /\ t.written \in 0..MaxWrites
    BY <2>1 DEF Transports, Numbers
  <2>6. net.reset \in {"no", "pending", "seen"} /\ net.drained \in 0..Len(net.wire)
    <3>1. net.drained \in Nat /\ Len(net.wire) \in Nat /\ net.reset \in {"no", "pending", "seen"}
      BY <2>1, LenProperties DEF Nets
    <3>2. QED
      BY <2>1, <3>1 DEF Holds
  <2>7. proto.made \in {"no", "queued", "calling", "yes"} /\ proto.eofs \in Nat /\ proto.lost \in Nat
    BY <2>1 DEF Calls
  <2>8. proto.received \in 0..MaxIn
    <3>1. net.inq \in Seq(Items) /\ proto.received \in Nat /\ net.sent \in 0..MaxIn /\ MaxIn \in Nat
      BY <2>1, TCPConstants DEF Nets, Calls
    <3>2. Count(net.inq, "data") \in Nat
      <4>1. PICK q \in Seq(Items) : q = net.inq
        BY <3>1
      <4>2. Count(q, "data") \in 0..Len(q) /\ Len(q) \in Nat
        BY CountRange, LenProperties
      <4>3. QED
        BY <4>1, <4>2
    <3>3. proto.received + Count(net.inq, "data") <= net.sent
      BY DEF IInv, InputInv
    <3>4. QED
      BY <3>1, <3>2, <3>3
  <2>9. QED
    BY <2>2, <2>3, <2>4, <2>5, <2>6, <2>7, <2>8 DEF TypeOK
<1>2. QED
  BY <1>1, Invariant, PTL

\* try_write, write and the write handle send the written bytes in order and
\* never twice, over TLS as long as rustls was never asked to hold more than its
\* limit nor to hand out more records than one write_tls does; a plain
\* connection that was not reset leaves nothing out.
THEOREM BytesInOrder == Spec => []WireFaithful
<1>1. IInv /\ WireInv => WireFaithful
  <2> SUFFICES ASSUME IInv, WireInv PROVE WireFaithful
    OBVIOUS
  <2>1. /\ net.wire \in Seq(Numbers \cup Control) /\ t.write_buf \in Seq(Numbers)
        /\ Len(net.wire) \in Nat /\ Len(t.write_buf) \in Nat
    BY WireTypes
  <2>2. PICK w, b : w = net.wire /\ b = t.write_buf
    OBVIOUS
  <2>3. PICK s : s = w \o b
    OBVIOUS
  <2>4. /\ w \in Seq(Numbers \cup Control) /\ b \in Seq(Numbers)
        /\ ~t.tls_full => Ordered(w, b, t.written * ChunkLen)
    BY <2>1, <2>2 DEF WireInv, SentInv
  <2>5. /\ Len(s) = Len(w) + Len(b) /\ DOMAIN s = 1..(Len(w) + Len(b))
        /\ Len(w) \in Nat /\ Len(b) \in Nat /\ DOMAIN w = 1..Len(w) /\ DOMAIN b = 1..Len(b)
        /\ \A i \in DOMAIN s : \/ i \in DOMAIN w /\ s[i] = w[i]
                               \/ i > Len(w) /\ i - Len(w) \in DOMAIN b /\ s[i] = b[i - Len(w)]
    BY <2>3, <2>4, ConcatElements
  <2>6. ~t.tls_full => \A i, j \in DOMAIN s : i < j /\ s[i] > 0 /\ s[j] > 0 => s[i] < s[j]
    <3>1. SUFFICES ASSUME ~t.tls_full, NEW i \in DOMAIN s, NEW j \in DOMAIN s, i < j, s[i] > 0, s[j] > 0 PROVE s[i] < s[j]
      OBVIOUS
    <3>2. i \in Int /\ j \in Int
      BY <2>5
    <3>3. CASE i \in DOMAIN w /\ s[i] = w[i] /\ j \in DOMAIN w /\ s[j] = w[j]
      BY <2>4, <3>1, <3>3 DEF Ordered
    <3>4. CASE i \in DOMAIN w /\ s[i] = w[i] /\ j - Len(w) \in DOMAIN b /\ s[j] = b[j - Len(w)]
      BY <2>4, <3>1, <3>4 DEF Ordered
    <3>5. CASE i > Len(w) /\ i - Len(w) \in DOMAIN b /\ s[i] = b[i - Len(w)]
      <4>1. j \notin DOMAIN w /\ i - Len(w) < j - Len(w)
        BY <2>5, <3>1, <3>2, <3>5
      <4>2. j - Len(w) \in DOMAIN b /\ s[j] = b[j - Len(w)]
        BY <2>5, <4>1
      <4>3. QED
        BY <2>4, <3>1, <3>5, <4>1, <4>2 DEF Ordered
    <3>6. QED
      BY <2>5, <3>3, <3>4, <3>5
  <2>7. ~tls /\ net.reset = "no" => Len(s) = t.written * ChunkLen
    <3>1. ~tls => ~t.tls_full
      BY DEF IInv, PlainInv
    <3>2. QED
      BY <2>2, <2>5, <3>1 DEF WireInv, SentInv
  <2>8. s = net.wire \o t.write_buf
    BY <2>2, <2>3
  <2>9. QED
    BY <2>6, <2>7, <2>8 DEF WireFaithful
<1>2. QED
  BY <1>1, Invariant, WireInvariant, PTL

\* write_buf_dsize is the size of the buffer; pause_writing is called above
\* the high mark, and no protocol stays paused when the buffer is empty.
THEOREM PausedInTime == Spec => []FlowControl
<1>1. IInv => FlowControl
  BY DEF IInv, BufferInv, FlowControl
<1>2. QED
  BY <1>1, Invariant, PTL

\* What a live transport has to send, it polls for: its buffer always, what
\* rustls holds as long as rustls was below its limits.
THEOREM SendsPolled == Spec => []OutputPolled
<1>1. IInv => OutputPolled
  BY DEF IInv, PolledInv, OutputPolled
<1>2. QED
  BY <1>1, Invariant, PTL

\* The edge-triggered poller leaves no input behind, as long as read_tls took
\* all that was read from the socket.
THEOREM ReadsAnnounced == Spec => []InputAnnounced
<1>1. IInv => InputAnnounced
  BY DEF IInv, AnnounceInv, Raw, InputAnnounced, InReadHandle
<1>2. QED
  BY <1>1, Invariant, PTL

\* A transport that left tcp_transports is closing, its protocol knows and its
\* descriptor is no longer polled.
THEOREM DroppedClosed == Spec => []Dropped
<1>1. IInv => Dropped
  BY DEF IInv, DropInv, Dropped, InWriteHandle
<1>2. QED
  BY <1>1, Invariant, PTL

\* write_eof and the write handle shut the socket down behind the last byte.
THEOREM ShutdownLast == Spec => []FinLast
<1>1. IInv => FinLast
  BY DEF IInv, FinInv, FinLast
<1>2. QED
  BY <1>1, Invariant, PTL

\* eof_received comes after all the data.
THEOREM EofAfterData == Spec => []DataBeforeEof
<1>1. IInv => DataBeforeEof
  <2> SUFFICES ASSUME IInv, ~tls, proto.eofs > 0 PROVE proto.received = net.sent
    BY DEF DataBeforeEof
  <2>1. proto.received + Len(net.inq) = net.sent /\ net.inq = <<>> /\ proto.received \in Nat
    BY DEF IInv, InputInv, TypeInv, Calls
  <2>2. Len(net.inq) = 0
    BY <2>1
  <2>3. QED
    BY <2>1, <2>2
<1>2. QED
  BY <1>1, Invariant, PTL
=============================================================================
