------------------------------ MODULE IORegistry ------------------------------
(***************************************************************************)
(* The descriptor table of RLoop: handles_io against the registrations     *)
(* of mio's poller, for the callbacks of Python code (add_reader and       *)
(* add_writer), listening sockets and their servers, TCP streams, UDP      *)
(* sockets and the self-socket.  Descriptor numbers are reused, and the    *)
(* kernel forgets a registration when its descriptor is closed.            *)
(*                                                                         *)
(* Streams are coarse here (TCPTransport has the detail): a transport      *)
(* changes its interest, is dropped, perhaps with an entry left behind,    *)
(* and closes its socket when the last reference to it goes.  handles_io   *)
(* frees a removed value some time later, and with a listener its socket:  *)
(* `closes` counts the close calls still to come.                          *)
(***************************************************************************)
EXTENDS Naturals, FiniteSets

CONSTANTS FDs,        \* descriptor numbers
          Servers, NoFd,
          MaxListens, \* bound: calls of _start_serving per server
          MaxBacklog  \* bound: connections waiting to be accepted

ASSUME RegistryConstants ==
  /\ NoFd \notin FDs /\ IsFiniteSet(FDs) /\ MaxListens \in Nat /\ MaxBacklog \in Nat
  /\ FDs \cap {"idle", "poisoned", "stopping", "robbed", "none"} = {} /\ NoFd # "none"

VARIABLES
  os,             \* what is open under a number
  reg,            \* the interest the poller has for it, {} for none
  handles_io,     \* the entry of a number: kind and recorded interest
  closes,         \* calls of close(number) that are still to come
  parted,         \* ghost: numbers closed while they had an entry
  tcp_transports, \* bound streams: the descriptor of their listener, or NoFd
  lsets,          \* the keys of tcp_lstreams,
  lstreams,       \* and its contents, as pairs
  torn,           \* ghost: pairs that a panic left there, see StreamTears
  udp,            \* UDP transports, see below
  ssock,          \* the reading end of the self-socket, or NoFd
  server,
  backlog,        \* connections in the queue of a listening socket, and is it
  armed,          \* on the ready list of the poller?
  unseen,         \* ghost: listeners that gave up on a backlog
  pc              \* "idle", "poisoned" (the lock `io`), "stopping" (_ssock_stop), the
                  \* listener that accepts, or "robbed", see After

table == <<os, reg, handles_io, closes, parted>>
streams == <<tcp_transports, lsets, lstreams, torn>>
queues == <<backlog, armed, unseen>>
vars == <<table, streams, queues, udp, ssock, server, pc>>

R == {"READABLE"}
W == {"WRITABLE"}
Other(i) == IF i = R THEN W ELSE R
None == [kind |-> "none", interest |-> {}]
Entry(k, i) == [kind |-> k, interest |-> i]
Files == {"file", "regular"}
Bound == {f \in FDs : tcp_transports[f] # "none"}
Idle == pc = "idle"
Live == pc \notin {"poisoned", "robbed"}

Init ==
  /\ os = [f \in FDs |-> "free"] /\ reg = [f \in FDs |-> {}] /\ handles_io = [f \in FDs |-> None]
  /\ closes = [f \in FDs |-> 0] /\ parted = {}
  /\ tcp_transports = [f \in FDs |-> "none"] /\ lsets = {} /\ lstreams = {} /\ torn = {}
  /\ udp = [f \in FDs |-> "none"]
  /\ server = [s \in Servers |-> [fd |-> NoFd, listens |-> 0, closed |-> FALSE, again |-> FALSE]]
  /\ backlog = [f \in FDs |-> 0] /\ armed = {} /\ unseen = {} /\ ssock = NoFd /\ pc = "idle"
-----------------------------------------------------------------------------
(***************************************************************************)
(* The poller: its errors are ignored, also for a regular file, which      *)
(* cannot be polled (EPERM).                                               *)
(***************************************************************************)
Register(f, i) == IF reg[f] = {} /\ os[f] # "regular" THEN i ELSE reg[f]  \* EPERM, EEXIST
Reregister(f, i) == IF reg[f] = {} THEN {} ELSE i                          \* ENOENT

Record(f, e, i) == handles_io' = [handles_io EXCEPT ![f] = e] /\ reg' = [reg EXCEPT ![f] = i]

\* close(f), whatever is open under the number
CloseFd(f) ==
  /\ os' = [os EXCEPT ![f] = "free"] /\ reg' = [reg EXCEPT ![f] = {}]
  /\ parted' = IF handles_io[f] = None THEN parted ELSE parted \cup {f}
  /\ backlog' = [backlog EXCEPT ![f] = 0] /\ armed' = armed \ {f} /\ unseen' = unseen \ {f}

\* where the loop is after close(f): a descriptor closed under its owner ends
\* the behaviours looked at
After(f, own) == IF os[f] = "free" \/ own THEN "idle" ELSE "robbed"

(***************************************************************************)
(* Callbacks of Python code on a descriptor of its own.                    *)
(***************************************************************************)
OpenFile(f, kind) ==
  /\ Live /\ os[f] = "free" /\ os' = [os EXCEPT ![f] = kind]
  /\ UNCHANGED <<reg, handles_io, closes, parted, streams, queues, udp, ssock, server, pc>>

CloseFile(f) ==
  /\ Idle /\ os[f] \in Files /\ CloseFd(f)
  /\ UNCHANGED <<handles_io, closes, streams, udp, ssock, server, pc>>

\* add_reader, add_writer: the second of the two interests is recorded, the
\* registration is repeated with the first; a callback cannot be replaced
AddCallback(f, i) ==
  /\ Idle /\ os[f] \in Files
  /\ LET e == handles_io[f]
     IN \/ /\ e = None /\ Record(f, Entry("Py", i), Register(f, i)) /\ UNCHANGED pc
        \/ /\ e.kind = "Py" /\ e.interest # i
           /\ Record(f, Entry("Py", e.interest \cup i), Reregister(f, e.interest))
           /\ UNCHANGED pc
        \/ e.kind = "Py" /\ e.interest = i /\ pc' = "poisoned" /\ UNCHANGED <<handles_io, reg>>
  /\ UNCHANGED <<os, closes, parted, streams, queues, udp, ssock, server>>

\* mutation: the interest of the other callback is not registered again
RemainsOld(f, i) == reg[f]
Remains(f, i) == Reregister(f, Other(i))

\* remove_reader, remove_writer
RemoveCallback(f, i) ==
  /\ Idle /\ handles_io[f].kind = "Py"
  /\ IF handles_io[f].interest = i THEN Record(f, None, {}) /\ parted' = parted \ {f}
     ELSE Record(f, Entry("Py", Other(i)), Remains(f, i)) /\ UNCHANGED parted
  /\ UNCHANGED <<os, closes, streams, queues, udp, ssock, server, pc>>

(***************************************************************************)
(* Streams and UDP sockets change their interest; an entry of another kind *)
(* is not expected under their number, and a panic.                        *)
(***************************************************************************)

\* tcp_stream_add, udp_socket_add
SocketAdd(f, kind, i) ==
  LET e == handles_io[f]
  IN \/ e = None /\ Record(f, Entry(kind, i), Register(f, i))
     \/ e.kind = kind /\ e.interest = i /\ UNCHANGED <<handles_io, reg>>
     \/ /\ e.kind = kind /\ e.interest # i
        /\ Record(f, Entry(kind, e.interest \cup i), Reregister(f, e.interest \cup i))
     \/ e # None /\ e.kind # kind /\ UNCHANGED <<handles_io, reg>>

\* tcp_stream_rem, udp_socket_rem
SocketRem(f, i) ==
  LET e == handles_io[f]
  IN IF e.interest = i THEN Record(f, None, {}) /\ parted' = parted \ {f}
     ELSE /\ Record(f, Entry(e.kind, e.interest \ i), Reregister(f, e.interest \ i))
          /\ UNCHANGED parted

\* _tcp_conn
TcpConn(f) ==
  /\ Idle /\ os[f] = "free" /\ os' = [os EXCEPT ![f] = "stream"]
  /\ tcp_transports' = [tcp_transports EXCEPT ![f] = NoFd] /\ SocketAdd(f, "TCPStream", R)
  /\ UNCHANGED <<closes, parted, lsets, lstreams, torn, queues, udp, ssock, server, pc>>

\* a bound transport reads, pauses, writes
StreamAdds(f, i) ==
  /\ Idle /\ f \in Bound /\ handles_io[f].kind \in {"none", "TCPStream"}
  /\ SocketAdd(f, "TCPStream", i)
  /\ UNCHANGED <<os, closes, parted, streams, queues, udp, ssock, server, pc>>

StreamRems(f, i) ==
  /\ Idle /\ f \in Bound /\ handles_io[f].kind = "TCPStream" /\ SocketRem(f, i)
  /\ UNCHANGED <<os, closes, streams, queues, udp, ssock, server, pc>>

\* mutation: the set of the listener keeps the descriptor
ForgetKeeps(S) == lstreams
Forget(S) == {p \in lstreams : p[2] \notin S \/ tcp_transports[p[2]] # p[1]}

\* tcp_listener_rem: an entry of another kind under the number is removed too,
\* and a panic
Removed(X) == {f \in X : handles_io[f].kind = "TCPListener"}

\* the transports S are lost and dropped (tcp_stream_close), L of them leave
\* their entry; the entries of X go too
DropStreams(S, L, X) ==
  LET gone == {f \in S \ L : handles_io[f].kind = "TCPStream"}
      listener == Removed(X)
  IN /\ tcp_transports' = [f \in FDs |-> IF f \in S THEN "none" ELSE tcp_transports[f]]
     /\ lsets' = lsets \ listener /\ lstreams' = {p \in Forget(S) : p[1] \notin listener}
     /\ torn' = torn \cap lstreams'
     /\ handles_io' = [f \in FDs |-> IF f \in gone \cup X THEN None ELSE handles_io[f]]
     /\ reg' = [f \in FDs |-> IF f \in gone \cup listener THEN {} ELSE reg[f]]
     /\ parted' = {f \in parted \cup X : handles_io'[f] # None \/ reg'[f] # {}}

StreamDrops(f) ==
  /\ Idle /\ f \in Bound /\ \E L \in SUBSET {f} : DropStreams({f}, L, {})
  /\ UNCHANGED <<os, closes, queues, udp, ssock, server, pc>>

\* a direct write fails (TCPTransport's WriteError): tcp_stream_close panics
\* between its two removals, as the state is borrowed.  A release build ends
\* here; others go on, with an unbound descriptor in the set of the listener
StreamTears(f) ==
  /\ Idle /\ f \in Bound /\ tcp_transports' = [tcp_transports EXCEPT ![f] = "none"]
  /\ torn' = torn \cup (lstreams \cap {<<tcp_transports[f], f>>})
  /\ \/ handles_io[f].kind = "TCPStream" /\ SocketRem(f, R)
     \/ UNCHANGED <<handles_io, reg, parted>>
  /\ UNCHANGED <<os, closes, lsets, lstreams, queues, udp, ssock, server, pc>>

\* the transport that was dropped is freed
StreamCloses(f) ==
  /\ Idle /\ os[f] = "stream" /\ f \notin Bound /\ CloseFd(f)
  /\ UNCHANGED <<handles_io, closes, streams, udp, ssock, server, pc>>
-----------------------------------------------------------------------------
(***************************************************************************)
(* Servers.                                                                *)
(***************************************************************************)

\* _tcp_server: the server has one bound socket
TcpServer(s, f) ==
  /\ Idle /\ server[s].fd = NoFd /\ os[f] = "free"
  /\ server' = [server EXCEPT ![s].fd = f] /\ os' = [os EXCEPT ![f] = "listener"]
  /\ UNCHANGED <<reg, handles_io, closes, parted, streams, queues, udp, ssock, pc>>

\* a listener entry that is replaced or removed closes its socket, later
Retired(f) ==
  closes' = IF handles_io[f].kind = "TCPListener" THEN [closes EXCEPT ![f] = @ + 1] ELSE closes

\* an empty set for its streams, and an edge if connections wait already
tcp_listener_add(f) ==
  /\ Record(f, Entry("TCPListener", R), Register(f, R)) /\ Retired(f) /\ parted' = parted \ {f}
  /\ lsets' = lsets \cup {f} /\ lstreams' = {p \in lstreams : p[1] # f}
  /\ torn' = torn \cap lstreams'
  /\ armed' = IF reg[f] = {} /\ backlog[f] > 0 THEN armed \cup {f} ELSE armed

\* _start_serving, TCPServer::listen: start_serving and serve_forever each
\* call it, even when the server is closed
StartServing(s) ==
  LET f == server[s].fd
  IN /\ Idle /\ f # NoFd /\ server[s].listens < MaxListens
     /\ server' = [server EXCEPT ![s].listens = @ + 1,
                                  ![s].again = @ \/ server[s].closed \/ server[s].listens > 0]
     /\ \/ os[f] = "listener" /\ tcp_listener_add(f) /\ UNCHANGED <<os, tcp_transports, backlog, unseen, pc>>
        \/ /\ os[f] # "listener" /\ CloseFd(f) /\ pc' = After(f, FALSE)
           /\ UNCHANGED <<handles_io, closes, streams>>
     /\ UNCHANGED <<udp, ssock>>

\* mutation: looked up when the listener is gone
StreamsLate(s) == {}
Streams(s) == {f \in Bound : <<server[s].fd, f>> \in lstreams}

\* _close: abort the streams, remove the listener
Close(s) ==
  LET l == server[s].fd
      S == Streams(s)
  IN /\ Idle /\ l # NoFd /\ ~server[s].closed /\ server' = [server EXCEPT ![s].closed = TRUE]
     /\ \E L \in SUBSET S : DropStreams(S, L, {l})
     /\ Retired(l) /\ armed' = armed \ {l} /\ unseen' = unseen \ {l}
     /\ UNCHANGED <<os, backlog, udp, ssock, pc>>

\* _streams_close (some still have output) and _streams_abort
StreamsEnd(s) ==
  /\ Idle /\ server[s].fd # NoFd
  /\ \E S \in SUBSET Streams(s), L \in SUBSET FDs : S # {} /\ L \subseteq S /\ DropStreams(S, L, {})
  /\ UNCHANGED <<os, closes, queues, udp, ssock, server, pc>>

\* handles_io frees a listener handle
Reclaim(f) ==
  /\ Idle /\ closes[f] > 0 /\ closes' = [closes EXCEPT ![f] = @ - 1]
  /\ CloseFd(f) /\ pc' = After(f, closes[f] = 1 /\ handles_io[f].kind # "TCPListener")
  /\ UNCHANGED <<handles_io, streams, udp, ssock, server>>

Listening(f) == os[f] = "listener" /\ \E s \in Servers : server[s].fd = f /\ server[s].listens > 0

\* a client connects
Connect(f) ==
  /\ Live /\ Listening(f) /\ backlog[f] < MaxBacklog /\ backlog' = [backlog EXCEPT ![f] = @ + 1]
  /\ armed' = IF reg[f] # {} THEN armed \cup {f} ELSE armed
  /\ unseen' = IF reg[f] # {} THEN unseen \ {f} ELSE unseen
  /\ UNCHANGED <<table, streams, udp, ssock, server, pc>>

\* handle_io_tcpl, which holds the lock `io`, up to its loop
Event(f) ==
  /\ Idle /\ f \in armed /\ armed' = armed \ {f}
  /\ pc' = IF handles_io[f].kind = "TCPListener" THEN f ELSE pc
  /\ UNCHANGED <<table, streams, backlog, unseen, udp, ssock, server>>

\* mutation: one connection for each event
AcceptsOnce(l) == "idle"
Accepts(l) == l

\* mutation: the end of the queue is not seen
WaitingAlways(l) == TRUE
Waiting(l) == backlog[l] > 0

\* the protocol factory returns a protocol, or raises and poisons the lock
AcceptOne(l, f) ==
  /\ pc = l /\ Waiting(l) /\ backlog' = [backlog EXCEPT ![l] = @ - 1] /\ os[f] = "free"
  /\ \/ /\ os' = [os EXCEPT ![f] = "stream"] /\ pc' = Accepts(l)
        /\ tcp_transports' = [tcp_transports EXCEPT ![f] = l]
        /\ lstreams' = lstreams \cup {<<l, f>>} /\ torn' = torn \ {<<l, f>>}
        /\ Record(f, Entry("TCPStream", R), Register(f, R)) /\ Retired(f) /\ parted' = parted \ {f}
     \/ pc' = "poisoned" /\ UNCHANGED <<os, reg, handles_io, closes, parted, tcp_transports, lstreams, torn>>
  /\ UNCHANGED <<lsets, armed, unseen, udp, ssock, server>>

\* accept fails and the loop ends: the queue is empty, there is no descriptor
\* left, or the client has gone
AcceptEnds(l) ==
  /\ pc = l /\ pc' = "idle"
  /\ \/ (backlog[l] = 0 \/ \A f \in FDs : os[f] # "free") /\ UNCHANGED backlog
     \/ Waiting(l) /\ backlog' = [backlog EXCEPT ![l] = @ - 1]
  /\ unseen' = IF backlog'[l] > 0 THEN unseen \cup {l} ELSE unseen
  /\ UNCHANGED <<table, streams, armed, udp, ssock, server>>
-----------------------------------------------------------------------------
(***************************************************************************)
(* UDP transports: "open" and "closed" ones are in udp_transports, which   *)
(* close() and abort() do not change; after an error they are "failed", or *)
(* "ended".  sendto panics before it changes anything, so the buffer is    *)
(* empty and WRITABLE is never asked for.                                  *)
(***************************************************************************)
UdpConn(f) ==
  /\ Idle /\ os[f] = "free" /\ os' = [os EXCEPT ![f] = "udp"]
  /\ udp' = [udp EXCEPT ![f] = "open"] /\ SocketAdd(f, "UDPSocket", R)
  /\ UNCHANGED <<closes, parted, streams, queues, ssock, server, pc>>

\* close and abort
UdpClose(f) ==
  /\ Idle /\ udp[f] \in {"open", "failed"}
  /\ udp' = [udp EXCEPT ![f] = IF @ = "open" THEN "closed" ELSE "ended"]
  /\ \/ handles_io[f].kind = "UDPSocket" /\ SocketRem(f, R)
     \/ handles_io[f].kind # "UDPSocket" /\ UNCHANGED <<handles_io, reg, parted>>
  /\ UNCHANGED <<os, closes, streams, queues, ssock, server, pc>>

\* UDPReadHandle: an error other than EWOULDBLOCK and EINTR
UdpError(f) ==
  /\ Idle /\ udp[f] = "open" /\ reg[f] # {} /\ handles_io[f].kind = "UDPSocket"
  /\ udp' = [udp EXCEPT ![f] = "failed"]
  /\ UNCHANGED <<table, streams, queues, ssock, server, pc>>

\* the transport is freed
UdpCloses(f) ==
  /\ Idle /\ udp[f] \in {"failed", "ended"} /\ udp' = [udp EXCEPT ![f] = "none"] /\ CloseFd(f)
  /\ UNCHANGED <<handles_io, closes, streams, ssock, server, pc>>

(***************************************************************************)
(* The self-socket, at the start and the end of a run.                     *)
(***************************************************************************)
SsockSet(f) ==
  /\ Idle /\ ssock = NoFd /\ os[f] = "free" /\ ssock' = f /\ os' = [os EXCEPT ![f] = "ssock"]
  /\ Record(f, Entry("Signals", R), Register(f, R)) /\ Retired(f) /\ parted' = parted \ {f}
  /\ UNCHANGED <<streams, queues, udp, server, pc>>

\* _ssock_del closes it, and the Python socket closes the number again
SsockDel ==
  /\ Idle /\ ssock # NoFd /\ pc' = "stopping" /\ os' = [os EXCEPT ![ssock] = "free"]
  /\ Record(ssock, None, {}) /\ parted' = parted \ {ssock}
  /\ UNCHANGED <<closes, streams, queues, udp, ssock, server>>

SsockStopped ==
  /\ pc = "stopping" /\ pc' = After(ssock, FALSE) /\ ssock' = NoFd /\ CloseFd(ssock)
  /\ UNCHANGED <<handles_io, closes, streams, udp, server>>
-----------------------------------------------------------------------------
Next ==
  \/ \E f \in FDs :
       \/ CloseFile(f) \/ TcpConn(f) \/ StreamDrops(f) \/ StreamTears(f) \/ StreamCloses(f)
       \/ \E kind \in Files : OpenFile(f, kind)
       \/ Reclaim(f) \/ Connect(f) \/ Event(f) \/ AcceptEnds(f)
       \/ UdpConn(f) \/ UdpClose(f) \/ UdpError(f) \/ UdpCloses(f) \/ SsockSet(f)
       \/ \E i \in {R, W} :
            AddCallback(f, i) \/ RemoveCallback(f, i) \/ StreamAdds(f, i) \/ StreamRems(f, i)
       \/ \E l \in FDs : AcceptOne(l, f)
  \/ \E s \in Servers :
       StartServing(s) \/ Close(s) \/ StreamsEnd(s) \/ \E f \in FDs : TcpServer(s, f)
  \/ SsockDel \/ SsockStopped

Spec == Init /\ [][Next]_vars
-----------------------------------------------------------------------------
(***************************************************************************)
(* Properties.                                                             *)
(***************************************************************************)

\* The state has its type.
TypeOK ==
  /\ os \in [FDs -> {"free", "file", "regular", "stream", "listener", "udp", "ssock"}]
  /\ reg \in [FDs -> SUBSET (R \cup W)]
  /\ handles_io \in [FDs -> [kind : {"none", "Py", "TCPStream", "TCPListener", "UDPSocket", "Signals"},
                             interest : SUBSET (R \cup W)]]
  /\ closes \in [FDs -> Nat] /\ parted \subseteq FDs
  /\ tcp_transports \in [FDs -> FDs \cup {NoFd, "none"}]
  /\ lsets \subseteq FDs /\ lstreams \subseteq lsets \X FDs /\ torn \subseteq lstreams
  /\ udp \in [FDs -> {"none", "open", "closed", "failed", "ended"}]
  /\ ssock \in FDs \cup {NoFd}
  /\ server \in [Servers -> [fd : FDs \cup {NoFd}, listens : Nat, closed : BOOLEAN, again : BOOLEAN]]
  /\ backlog \in [FDs -> 0..MaxBacklog] /\ armed \subseteq FDs /\ unseen \subseteq FDs
  /\ pc \in FDs \cup {"idle", "poisoned", "stopping", "robbed"}

\* What the poller watches is what handles_io records, under every number
\* whose last owner took its entry along and that can be polled; of two Python
\* callbacks on a descriptor at least the first is watched, and what remains of
\* the two is.
PolledAsRecorded ==
  pc # "robbed" => \A f \in FDs \ parted :
    \/ reg[f] = handles_io[f].interest \/ os[f] = "regular"
    \/ handles_io[f].kind = "Py" /\ handles_io[f].interest = R \cup W /\ reg[f] \in {R, W}

\* A server knows its connections: a listener that is polled has its set, the
\* set holds streams that it accepted and that are bound, but for the ones a
\* failed write left there, and all of them unless it was started again.
StreamsTracked ==
  /\ \A l \in FDs : handles_io[l].kind = "TCPListener" => l \in lsets
  /\ \A l \in lsets :
       LET accepted == {f \in Bound : tcp_transports[f] = l}
           known == {f \in FDs : <<l, f>> \in lstreams}
       IN /\ {f \in known : <<l, f>> \notin torn} \subseteq accepted
          /\ (\A s \in Servers : server[s].fd = l => ~server[s].again) => accepted \subseteq known

\* A server that is closed, and was not started again, has no connection and
\* no entry.
ServerEnds ==
  \A s \in Servers :
    server[s].closed /\ ~server[s].again
      /\ (\A r \in Servers \ {s} : server[r].fd # server[s].fd)
    => /\ server[s].fd \notin lsets /\ handles_io[server[s].fd].kind # "TCPListener"
       /\ \A f \in FDs : tcp_transports[f] # server[s].fd

\* A connection that waits at a listener is announced by an edge, unless the
\* listener gave up on it: it ran out of descriptors, or an accept failed.
BacklogAnnounced ==
  \A l \in FDs : reg[l] # {} /\ backlog[l] > 0 => l \in armed \cup unseen \/ pc \in {l, "poisoned"}
=============================================================================
