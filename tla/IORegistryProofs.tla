--------------------------- MODULE IORegistryProofs ---------------------------
(***************************************************************************)
(* Proofs about IORegistry, for every set of descriptor numbers and of     *)
(* servers.                                                                *)
(***************************************************************************)
EXTENDS IORegistry, TLAPS

IsListener(f) == handles_io[f].kind = "TCPListener"

\* an entry has a kind and an interest; the listeners are the keys of tcp_lstreams
EntryInv ==
  /\ \A f \in FDs : handles_io[f] # None => handles_io[f].kind # "none" /\ handles_io[f].interest # {}
  /\ lsets = {l \in FDs : IsListener(l)}

\* Who owns a number, until a descriptor was closed under its owner: entries of
\* listeners and closes still to come belong to an open listener, transports
\* to an open socket of their own, and the kernel watches no closed descriptor.
Owned(f) ==
  /\ IsListener(f) \/ closes[f] > 0 => os[f] = "listener"
  /\ tcp_transports[f] # "none" => os[f] = "stream"
  /\ udp[f] # "none" => os[f] = "udp"
  /\ ssock = f /\ pc # "stopping" => os[f] = "ssock"
Watched(f) ==
  /\ os[f] = "free" => reg[f] = {}
  /\ os[f] = "listener" => reg[f] = IF IsListener(f) THEN R ELSE {}
  /\ backlog[f] > 0 => os[f] = "listener"
  /\ f \in armed \/ pc = f => IsListener(f)
TableInv ==
  pc # "robbed" => (pc = "stopping" => ssock # NoFd) /\ \A f \in FDs : Owned(f) /\ Watched(f)

\* A server that was not closed has its socket, alone; the last close of a
\* number comes after the close of its servers.
ServerInv ==
  pc # "robbed" =>
    /\ \A s \in Servers : server[s].fd # NoFd /\ ~server[s].closed => os[server[s].fd] = "listener"
    /\ \A s, r \in Servers : s # r /\ server[s].fd = server[r].fd /\ server[s].fd # NoFd
                               => server[s].closed \/ server[r].closed
    /\ \A f \in FDs, s \in Servers :
         closes[f] = 1 /\ ~IsListener(f) /\ server[s].fd = f => server[s].closed

\* a server that may have connections
LiveServer(l) ==
  \E s \in Servers : /\ server[s].fd = l
                     /\ server[s].again \/ (server[s].listens > 0 /\ ~server[s].closed)
StreamInv ==
  /\ \A s \in Servers : server[s].closed => server[s].fd # NoFd
  /\ \A l \in FDs : l \in lsets => LiveServer(l)
  /\ \A f \in FDs : tcp_transports[f] \in FDs => LiveServer(tcp_transports[f])
  /\ \A l, f \in FDs : <<l, f>> \in lstreams /\ <<l, f>> \notin torn => tcp_transports[f] = l
  /\ \A l \in FDs : (\A s \in Servers : server[s].fd = l => ~server[s].again) =>
       \A f \in FDs : tcp_transports[f] = l => <<l, f>> \in lstreams

IInv ==
  /\ EntryInv /\ TableInv /\ ServerInv /\ StreamInv /\ PolledAsRecorded /\ BacklogAnnounced
-----------------------------------------------------------------------------
(***************************************************************************)
(* Types.                                                                  *)
(***************************************************************************)
Interests == SUBSET (R \cup W)
Kinds == {"none", "Py", "TCPStream", "TCPListener", "UDPSocket", "Signals"}
Entries == [kind : Kinds, interest : Interests]

\* Facts about entries and interests that every step needs.
LEMMA EntryFacts ==
  /\ None \in Entries /\ None.kind = "none" /\ None.interest = {}
  /\ \A k \in Kinds, i \in Interests : /\ Entry(k, i) \in Entries
                                      /\ Entry(k, i).kind = k /\ Entry(k, i).interest = i
  /\ R \in Interests /\ W \in Interests /\ {} \in Interests /\ R # W /\ R # {} /\ W # {}
  /\ \A i \in {R, W} : Other(i) \in {R, W} /\ Other(i) # i
  /\ \A i, j \in Interests : i \cup j \in Interests /\ i \ j \in Interests
BY DEF None, Entry, Entries, Kinds, Interests, R, W, Other

\* The requests to the poller keep to its interests.
LEMMA PollerFacts ==
  ASSUME TypeOK, NEW f \in FDs, NEW i \in Interests
  PROVE  Register(f, i) \in Interests /\ Reregister(f, i) \in Interests /\ reg[f] \in Interests
BY DEF Register, Reregister, TypeOK, Interests

TableType ==
  /\ os \in [FDs -> {"free", "file", "regular", "stream", "listener", "udp", "ssock"}]
  /\ reg \in [FDs -> Interests] /\ handles_io \in [FDs -> Entries]
  /\ closes \in [FDs -> Nat] /\ parted \subseteq FDs
StreamType ==
  /\ tcp_transports \in [FDs -> FDs \cup {NoFd, "none"}]
  /\ lsets \subseteq FDs /\ lstreams \subseteq lsets \X FDs /\ torn \subseteq lstreams
OtherType ==
  /\ udp \in [FDs -> {"none", "open", "closed", "failed", "ended"}]
  /\ ssock \in FDs \cup {NoFd}
  /\ pc \in FDs \cup {"idle", "poisoned", "stopping", "robbed"}
ServerType ==
  server \in [Servers -> [fd : FDs \cup {NoFd}, listens : Nat, closed : BOOLEAN, again : BOOLEAN]]
QueueType == backlog \in [FDs -> 0..MaxBacklog] /\ armed \subseteq FDs /\ unseen \subseteq FDs

\* The type invariant by its parts.
LEMMA TypeParts ==
  /\ TypeOK <=> TableType /\ StreamType /\ OtherType /\ ServerType /\ QueueType
  /\ TypeOK' <=> TableType' /\ StreamType' /\ OtherType' /\ ServerType' /\ QueueType'
BY DEF TypeOK, TableType, StreamType, OtherType, ServerType, QueueType, Interests, Kinds, Entries

\* A step that leaves a part of the state alone keeps its type.
LEMMA TypeFrame ==
  ASSUME TypeOK
  PROVE  /\ TableType /\ StreamType /\ OtherType /\ ServerType /\ QueueType
         /\ UNCHANGED table => TableType'
         /\ UNCHANGED streams => StreamType'
         /\ UNCHANGED <<udp, ssock, pc>> => OtherType'
         /\ UNCHANGED server => ServerType'
         /\ UNCHANGED queues => QueueType'
<1>1. TableType /\ StreamType /\ OtherType /\ ServerType /\ QueueType
  BY TypeParts
<1>2. QED
  BY <1>1 DEF TableType, StreamType, OtherType, ServerType, QueueType, table, streams, queues

\* Closing a number keeps the types.
LEMMA CloseFdTypes ==
  ASSUME TypeOK, NEW f \in FDs, CloseFd(f)
  PROVE  /\ UNCHANGED handles_io /\ closes' \in [FDs -> Nat] => TableType'
         /\ QueueType'
<1>1. TableType /\ QueueType /\ MaxBacklog \in Nat
  BY TypeFrame, RegistryConstants
<1>2. QED
  BY <1>1, EntryFacts DEF CloseFd, TableType, QueueType

\* Recording an entry and an interest keeps the types.
LEMMA RecordTypes ==
  ASSUME TypeOK, NEW f \in FDs, NEW e \in Entries, NEW i \in Interests, Record(f, e, i)
  PROVE  handles_io' \in [FDs -> Entries] /\ reg' \in [FDs -> Interests]
BY TypeFrame DEF Record, TableType

\* So does a socket that changes its interest.
LEMMA SocketTypes ==
  ASSUME TypeOK, NEW f \in FDs, NEW i \in {R, W}, NEW kind \in Kinds
  PROVE  /\ SocketAdd(f, kind, i) => handles_io' \in [FDs -> Entries] /\ reg' \in [FDs -> Interests]
         /\ SocketRem(f, i) => /\ handles_io' \in [FDs -> Entries] /\ reg' \in [FDs -> Interests]
                               /\ parted' \subseteq FDs
<1>1. /\ handles_io[f] \in Entries /\ handles_io[f].kind \in Kinds /\ handles_io[f].interest \in Interests
      /\ handles_io \in [FDs -> Entries] /\ reg \in [FDs -> Interests] /\ parted \subseteq FDs
      /\ i \in Interests
  BY TypeFrame, EntryFacts DEF TableType, Entries
<1>2. ASSUME SocketAdd(f, kind, i)
      PROVE  handles_io' \in [FDs -> Entries] /\ reg' \in [FDs -> Interests]
  <2>1. \/ UNCHANGED <<handles_io, reg>>
        \/ Record(f, Entry(kind, i), Register(f, i))
        \/ Record(f, Entry(kind, handles_io[f].interest \cup i),
                  Reregister(f, handles_io[f].interest \cup i))
    BY <1>2 DEF SocketAdd
  <2>2. CASE UNCHANGED <<handles_io, reg>>
    BY <1>1, <2>2
  <2>3. CASE Record(f, Entry(kind, i), Register(f, i))
    BY <1>1, <2>3, RecordTypes, EntryFacts, PollerFacts
  <2>4. CASE Record(f, Entry(kind, handles_io[f].interest \cup i), Reregister(f, handles_io[f].interest \cup i))
    <3>1. handles_io[f].interest \cup i \in Interests
      BY <1>1 DEF Interests
    <3>2. QED
      BY <2>4, <3>1, RecordTypes, EntryFacts, PollerFacts
  <2>5. QED
    BY <2>1, <2>2, <2>3, <2>4
<1>3. ASSUME SocketRem(f, i)
      PROVE  /\ handles_io' \in [FDs -> Entries] /\ reg' \in [FDs -> Interests] /\ parted' \subseteq FDs
  <2>1. /\ \/ Record(f, None, {})
           \/ Record(f, Entry(handles_io[f].kind, handles_io[f].interest \ i),
                     Reregister(f, handles_io[f].interest \ i))
        /\ parted' \subseteq FDs
    BY <1>1, <1>3 DEF SocketRem
  <2>2. CASE Record(f, None, {})
    BY <2>1, <2>2, RecordTypes, EntryFacts, PollerFacts
  <2>3. CASE Record(f, Entry(handles_io[f].kind, handles_io[f].interest \ i),
                    Reregister(f, handles_io[f].interest \ i))
    <3>1. handles_io[f].interest \ i \in Interests
      BY <1>1 DEF Interests
    <3>2. QED
      BY <1>1, <2>1, <2>3, <3>1, RecordTypes, EntryFacts, PollerFacts
  <2>4. QED
    BY <2>1, <2>2, <2>3
<1>4. QED
  BY <1>2, <1>3

\* Dropping transports keeps the types.
LEMMA DropTypes ==
  ASSUME TypeOK, NEW S, NEW L, NEW X \in SUBSET FDs, DropStreams(S, L, X)
  PROVE  /\ handles_io' \in [FDs -> Entries] /\ reg' \in [FDs -> Interests] /\ parted' \subseteq FDs
         /\ StreamType'
<1>1. TableType /\ StreamType
  BY TypeFrame
<1>2. /\ handles_io' \in [FDs -> Entries] /\ reg' \in [FDs -> Interests] /\ parted' \subseteq FDs
  BY <1>1, EntryFacts DEF DropStreams, TableType
<1>3. tcp_transports' \in [FDs -> FDs \cup {NoFd, "none"}]
  BY <1>1 DEF DropStreams, StreamType
<1>4. lsets' \subseteq FDs /\ lstreams' \subseteq lsets' \X FDs /\ torn' \subseteq lstreams'
  BY <1>1 DEF DropStreams, StreamType, Forget
<1>5. QED
  BY <1>2, <1>3, <1>4 DEF StreamType

\* Every step keeps the types.  A stream is accepted only for a listener that
\* has its set.
LEMMA NextTypes ==
  ASSUME TypeOK, IInv, [Next]_vars
  PROVE  TypeOK'
<1> USE TypeFrame, TypeParts, RegistryConstants DEF table, streams, queues
<1>1. ASSUME NEW f \in FDs, NEW kind \in Files, OpenFile(f, kind) PROVE TypeOK'
  <2>1. TableType'
    BY <1>1 DEF OpenFile, TableType, Files
  <2>2. QED
    BY <1>1, <2>1 DEF OpenFile
<1>2. ASSUME NEW f \in FDs, CloseFile(f) \/ StreamCloses(f) PROVE TypeOK'
  <2>1. CloseFd(f) /\ UNCHANGED <<handles_io, closes, streams, udp, ssock, server, pc>>
    BY <1>2 DEF CloseFile, StreamCloses
  <2>2. TableType' /\ QueueType'
    BY <2>1, CloseFdTypes DEF TableType
  <2>3. QED
    BY <2>1, <2>2
<1>3. ASSUME NEW f \in FDs, NEW i \in {R, W}, AddCallback(f, i) PROVE TypeOK'
  <2>1. handles_io[f] \in Entries /\ handles_io[f].interest \in Interests /\ i \in Interests
    BY EntryFacts DEF TableType, Entries
  <2>2. \/ UNCHANGED <<handles_io, reg>>
        \/ Record(f, Entry("Py", i), Register(f, i))
        \/ Record(f, Entry("Py", handles_io[f].interest \cup i), Reregister(f, handles_io[f].interest))
    BY <1>3 DEF AddCallback
  <2>3. handles_io' \in [FDs -> Entries] /\ reg' \in [FDs -> Interests]
    <3>1. /\ Entry("Py", i) \in Entries /\ Entry("Py", handles_io[f].interest \cup i) \in Entries
      BY <2>1, EntryFacts DEF Kinds
    <3>2. Register(f, i) \in Interests /\ Reregister(f, handles_io[f].interest) \in Interests
      BY <2>1, PollerFacts
    <3>3. CASE UNCHANGED <<handles_io, reg>>
      BY <3>3 DEF TableType
    <3>4. QED
      BY <2>2, <3>1, <3>2, <3>3, RecordTypes
  <2>4. TableType'
    BY <1>3, <2>3 DEF AddCallback, TableType
  <2>5. OtherType'
    BY <1>3 DEF AddCallback, OtherType
  <2>6. QED
    BY <1>3, <2>4, <2>5 DEF AddCallback
<1>4. ASSUME NEW f \in FDs, NEW i \in {R, W}, RemoveCallback(f, i) PROVE TypeOK'
  <2>1. /\ \/ Record(f, None, {}) \/ Record(f, Entry("Py", Other(i)), Reregister(f, Other(i)))
        /\ parted' \subseteq FDs
    BY <1>4 DEF RemoveCallback, Remains, TableType
  <2>2. Other(i) \in Interests
    BY EntryFacts
  <2>3. handles_io' \in [FDs -> Entries] /\ reg' \in [FDs -> Interests]
    BY <2>1, <2>2, RecordTypes, EntryFacts, PollerFacts DEF Kinds
  <2>4. TableType'
    BY <1>4, <2>1, <2>3 DEF RemoveCallback, TableType
  <2>5. QED
    BY <1>4, <2>4 DEF RemoveCallback
<1>5. ASSUME NEW f \in FDs, TcpConn(f) PROVE TypeOK'
  <2>1. handles_io' \in [FDs -> Entries] /\ reg' \in [FDs -> Interests]
    BY <1>5, SocketTypes DEF TcpConn, Kinds
  <2>2. TableType'
    BY <1>5, <2>1 DEF TcpConn, TableType
  <2>3. StreamType'
    BY <1>5 DEF TcpConn, StreamType
  <2>4. QED
    BY <1>5, <2>2, <2>3 DEF TcpConn
<1>6. ASSUME NEW f \in FDs, NEW i \in {R, W}, StreamAdds(f, i) PROVE TypeOK'
  <2>1. handles_io' \in [FDs -> Entries] /\ reg' \in [FDs -> Interests]
    BY <1>6, SocketTypes DEF StreamAdds, Kinds
  <2>2. TableType'
    BY <1>6, <2>1 DEF StreamAdds, TableType
  <2>3. QED
    BY <1>6, <2>2 DEF StreamAdds
<1>7. ASSUME NEW f \in FDs, NEW i \in {R, W}, StreamRems(f, i) PROVE TypeOK'
  <2>1. handles_io' \in [FDs -> Entries] /\ reg' \in [FDs -> Interests] /\ parted' \subseteq FDs
    BY <1>7, SocketTypes DEF StreamRems, Kinds
  <2>2. TableType'
    BY <1>7, <2>1 DEF StreamRems, TableType
  <2>3. QED
    BY <1>7, <2>2 DEF StreamRems
<1>29. ASSUME NEW f \in FDs, StreamTears(f) PROVE TypeOK'
  <2>1. handles_io' \in [FDs -> Entries] /\ reg' \in [FDs -> Interests] /\ parted' \subseteq FDs
    BY <1>29, SocketTypes DEF StreamTears, Kinds, TableType
  <2>2. TableType'
    BY <1>29, <2>1 DEF StreamTears, TableType
  <2>3. StreamType'
    BY <1>29 DEF StreamTears, StreamType
  <2>4. QED
    BY <1>29, <2>2, <2>3 DEF StreamTears
<1>8. ASSUME NEW S, NEW L, NEW X \in SUBSET FDs, DropStreams(S, L, X), UNCHANGED <<os, closes>>
      PROVE  TableType' /\ StreamType'
  BY <1>8, DropTypes DEF TableType
<1>9. ASSUME NEW f \in FDs, StreamDrops(f) PROVE TypeOK'
  BY <1>8, <1>9 DEF StreamDrops
<1>10. ASSUME NEW s \in Servers, NEW f \in FDs, TcpServer(s, f) PROVE TypeOK'
  <2>1. TableType'
    BY <1>10 DEF TcpServer, TableType
  <2>2. ServerType'
    BY <1>10 DEF TcpServer, ServerType
  <2>3. QED
    BY <1>10, <2>1, <2>2 DEF TcpServer
<1>11. ASSUME NEW f \in FDs, Retired(f) PROVE closes' \in [FDs -> Nat]
  BY <1>11 DEF Retired, TableType
<1>12. ASSUME NEW s \in Servers, StartServing(s) PROVE TypeOK'
  <2> DEFINE f == server[s].fd
  <2>1. f \in FDs
    BY <1>12 DEF StartServing, ServerType
  <2>2. ServerType'
    <3> DEFINE listens == server[s].listens + 1
               again == server[s].again \/ server[s].closed \/ server[s].listens > 0
    <3>1. /\ server' = [server EXCEPT ![s].listens = listens, ![s].again = again]
          /\ listens \in Nat /\ again \in BOOLEAN
      BY <1>12 DEF StartServing, ServerType
    <3> HIDE DEF listens, again
    <3>2. QED
      BY <3>1 DEF ServerType
  <2> HIDE DEF f
  <2>3. CASE os[f] = "listener"
    <3>1. tcp_listener_add(f) /\ UNCHANGED <<os, tcp_transports, backlog, unseen, pc, udp, ssock>>
      BY <1>12, <2>3 DEF StartServing, f
    <3>2. handles_io' \in [FDs -> Entries] /\ reg' \in [FDs -> Interests] /\ closes' \in [FDs -> Nat]
      BY <1>11, <2>1, <3>1, RecordTypes, EntryFacts, PollerFacts DEF tcp_listener_add, Kinds
    <3>3. TableType'
      BY <3>1, <3>2 DEF tcp_listener_add, TableType
    <3>4. StreamType'
      BY <2>1, <3>1 DEF tcp_listener_add, StreamType
    <3>5. QueueType'
      BY <2>1, <3>1 DEF tcp_listener_add, QueueType
    <3>6. QED
      BY <2>2, <3>1, <3>3, <3>4, <3>5
  <2>4. CASE os[f] # "listener"
    <3>1. /\ CloseFd(f) /\ UNCHANGED <<handles_io, closes, streams, udp, ssock>>
          /\ pc' \in {"idle", "robbed"}
      BY <1>12, <2>4 DEF StartServing, f, After
    <3>2. TableType' /\ QueueType'
      BY <2>1, <3>1, CloseFdTypes DEF TableType
    <3>3. OtherType'
      BY <3>1 DEF OtherType
    <3>4. QED
      BY <2>2, <3>1, <3>2, <3>3
  <2>5. QED
    BY <2>3, <2>4
<1>13. ASSUME NEW s \in Servers, Close(s) PROVE TypeOK'
  <2>1. server[s].fd \in FDs
    BY <1>13 DEF Close, ServerType
  <2>2. ServerType'
    BY <1>13 DEF Close, ServerType
  <2>3. closes' \in [FDs -> Nat]
    BY <1>11, <1>13, <2>1 DEF Close
  <2>4. /\ handles_io' \in [FDs -> Entries] /\ reg' \in [FDs -> Interests] /\ parted' \subseteq FDs
        /\ StreamType'
    BY <1>13, <2>1, DropTypes DEF Close
  <2>5. TableType'
    BY <1>13, <2>3, <2>4 DEF Close, TableType
  <2>6. QueueType'
    BY <1>13 DEF Close, QueueType
  <2>7. QED
    BY <1>13, <2>2, <2>4, <2>5, <2>6 DEF Close
<1>14. ASSUME NEW s \in Servers, StreamsEnd(s) PROVE TypeOK'
  BY <1>8, <1>14 DEF StreamsEnd
<1>15. ASSUME NEW f \in FDs, Reclaim(f) PROVE TypeOK'
  <2>1. closes' \in [FDs -> Nat]
    BY <1>15 DEF Reclaim, TableType
  <2>2. TableType' /\ QueueType'
    BY <1>15, <2>1, CloseFdTypes DEF Reclaim
  <2>3. OtherType'
    BY <1>15 DEF Reclaim, After, OtherType
  <2>4. QED
    BY <1>15, <2>2, <2>3 DEF Reclaim
<1>16. ASSUME NEW f \in FDs, Connect(f) PROVE TypeOK'
  <2>1. QueueType'
    BY <1>16 DEF Connect, QueueType
  <2>2. QED
    BY <1>16, <2>1 DEF Connect
<1>17. ASSUME NEW f \in FDs, Event(f) PROVE TypeOK'
  <2>1. QueueType' /\ OtherType'
    BY <1>17 DEF Event, QueueType, OtherType
  <2>2. QED
    BY <1>17, <2>1 DEF Event
<1>18. ASSUME NEW l \in FDs, NEW f \in FDs, AcceptOne(l, f) PROVE TypeOK'
  <2>1. l \in lsets
    BY <1>18 DEF AcceptOne, IInv, EntryInv, TableInv, Watched
  <2>2. QueueType'
    BY <1>18 DEF AcceptOne, Waiting, QueueType
  <2>3. OtherType'
    BY <1>18 DEF AcceptOne, Accepts, OtherType
  <2>4. CASE Record(f, Entry("TCPStream", R), Register(f, R)) /\ Retired(f) /\ parted' = parted \ {f}
             /\ os' = [os EXCEPT ![f] = "stream"] /\ tcp_transports' = [tcp_transports EXCEPT ![f] = l]
             /\ lstreams' = lstreams \cup {<<l, f>>} /\ torn' = torn \ {<<l, f>>}
    <3>1. handles_io' \in [FDs -> Entries] /\ reg' \in [FDs -> Interests] /\ closes' \in [FDs -> Nat]
      BY <1>11, <2>4, RecordTypes, EntryFacts, PollerFacts DEF Kinds
    <3>2. TableType'
      BY <2>4, <3>1 DEF TableType
    <3>3. StreamType'
      BY <1>18, <2>1, <2>4 DEF AcceptOne, StreamType
    <3>4. QED
      BY <1>18, <2>2, <2>3, <3>2, <3>3 DEF AcceptOne
  <2>5. CASE UNCHANGED <<os, reg, handles_io, closes, parted, tcp_transports, lstreams, torn>>
    BY <1>18, <2>2, <2>3, <2>5 DEF AcceptOne
  <2>6. QED
    BY <1>18, <2>4, <2>5 DEF AcceptOne
<1>19. ASSUME NEW l \in FDs, AcceptEnds(l) PROVE TypeOK'
  <2>1. QueueType'
    BY <1>19 DEF AcceptEnds, Waiting, QueueType
  <2>2. OtherType'
    BY <1>19 DEF AcceptEnds, OtherType
  <2>3. QED
    BY <1>19, <2>1, <2>2 DEF AcceptEnds
<1>20. ASSUME NEW f \in FDs, UdpConn(f) PROVE TypeOK'
  <2>1. handles_io' \in [FDs -> Entries] /\ reg' \in [FDs -> Interests]
    BY <1>20, SocketTypes DEF UdpConn, Kinds
  <2>2. TableType'
    BY <1>20, <2>1 DEF UdpConn, TableType
  <2>3. OtherType'
    BY <1>20 DEF UdpConn, OtherType
  <2>4. QED
    BY <1>20, <2>2, <2>3 DEF UdpConn
<1>21. ASSUME NEW f \in FDs, UdpClose(f) PROVE TypeOK'
  <2>1. handles_io' \in [FDs -> Entries] /\ reg' \in [FDs -> Interests] /\ parted' \subseteq FDs
    BY <1>21, SocketTypes DEF UdpClose, Kinds, TableType
  <2>2. TableType'
    BY <1>21, <2>1 DEF UdpClose, TableType
  <2>3. OtherType'
    BY <1>21 DEF UdpClose, OtherType
  <2>4. QED
    BY <1>21, <2>2, <2>3 DEF UdpClose
<1>22. ASSUME NEW f \in FDs, UdpError(f) PROVE TypeOK'
  <2>1. OtherType'
    BY <1>22 DEF UdpError, OtherType
  <2>2. QED
    BY <1>22, <2>1 DEF UdpError
<1>23. ASSUME NEW f \in FDs, UdpCloses(f) PROVE TypeOK'
  <2>1. TableType' /\ QueueType'
    BY <1>23, CloseFdTypes DEF UdpCloses, TableType
  <2>2. OtherType'
    BY <1>23 DEF UdpCloses, OtherType
  <2>3. QED
    BY <1>23, <2>1, <2>2 DEF UdpCloses
<1>24. ASSUME NEW f \in FDs, SsockSet(f) PROVE TypeOK'
  <2>1. handles_io' \in [FDs -> Entries] /\ reg' \in [FDs -> Interests] /\ closes' \in [FDs -> Nat]
    BY <1>11, <1>24, RecordTypes, EntryFacts, PollerFacts DEF SsockSet, Kinds
  <2>2. TableType'
    BY <1>24, <2>1 DEF SsockSet, TableType
  <2>3. OtherType'
    BY <1>24 DEF SsockSet, OtherType
  <2>4. QED
    BY <1>24, <2>2, <2>3 DEF SsockSet
<1>25. CASE SsockDel
  <2>1. ssock \in FDs
    BY <1>25 DEF SsockDel, OtherType
  <2>2. handles_io' \in [FDs -> Entries] /\ reg' \in [FDs -> Interests]
    BY <1>25, <2>1, RecordTypes, EntryFacts DEF SsockDel
  <2>3. TableType'
    BY <1>25, <2>1, <2>2 DEF SsockDel, TableType
  <2>4. OtherType'
    BY <1>25 DEF SsockDel, OtherType
  <2>5. QED
    BY <1>25, <2>3, <2>4 DEF SsockDel
<1>26. CASE SsockStopped
  <2>1. CASE ssock \in FDs
    <3>1. TableType' /\ QueueType'
      BY <1>26, <2>1, CloseFdTypes DEF SsockStopped, TableType
    <3>2. OtherType'
      BY <1>26 DEF SsockStopped, After, OtherType
    <3>3. QED
      BY <1>26, <3>1, <3>2 DEF SsockStopped
  <2>2. ssock \in FDs
    BY <1>26 DEF SsockStopped, OtherType, IInv, TableInv
  <2>3. QED
    BY <2>1, <2>2
<1>27. CASE UNCHANGED vars
  BY <1>27 DEF vars
<1>28. QED
  BY <1>1, <1>2, <1>3, <1>4, <1>5, <1>6, <1>7, <1>9, <1>10, <1>12, <1>13, <1>14, <1>15, <1>16, <1>17,
     <1>18, <1>19, <1>20, <1>21, <1>22, <1>23, <1>24, <1>25, <1>26, <1>27, <1>29 DEF Next
-----------------------------------------------------------------------------
(***************************************************************************)
(* The entries.                                                            *)
(***************************************************************************)

\* an entry as EntryInv has it
GoodEntry(e) == e # None => e.kind # "none" /\ e.interest # {}

\* Every step keeps the entries good, and the sets of the listeners with them.
LEMMA EntryNext ==
  ASSUME TypeOK, IInv, [Next]_vars
  PROVE  EntryInv'
<1>0. /\ \A g \in FDs : /\ GoodEntry(handles_io[g]) /\ handles_io[g].kind \in Kinds
                        /\ handles_io[g].interest \in Interests
      /\ lsets = {l \in FDs : IsListener(l)} /\ handles_io \in [FDs -> Entries]
  BY TypeFrame DEF IInv, EntryInv, GoodEntry, TableType, Entries
<1>1. ASSUME NEW f \in FDs, NEW e, NEW i, Record(f, e, i), GoodEntry(e), UNCHANGED lsets,
             ~IsListener(f), e.kind # "TCPListener"
      PROVE  EntryInv'
  <2>1. handles_io' = [handles_io EXCEPT ![f] = e]
    BY <1>1 DEF Record
  <2>2. \A g \in FDs : handles_io'[g] = IF g = f THEN e ELSE handles_io[g]
    BY <1>0, <2>1
  <2>3. QED
    BY <1>0, <1>1, <2>2 DEF EntryInv, GoodEntry, IsListener
<1>2. CASE UNCHANGED <<handles_io, lsets>>
  BY <1>2 DEF IInv, EntryInv, IsListener
<1>3. \A k \in Kinds, i \in Interests : k # "none" /\ i # {} => GoodEntry(Entry(k, i)) /\ Entry(k, i).kind = k
  BY EntryFacts DEF GoodEntry
<1>4. GoodEntry(None) /\ None.kind = "none"
  BY EntryFacts DEF GoodEntry
<1>5. ASSUME NEW f \in FDs, NEW i \in {R, W}, NEW k \in Kinds, k \notin {"none", "TCPListener"}, SocketAdd(f, k, i), UNCHANGED lsets
      PROVE  EntryInv'
  <2>1. CASE UNCHANGED <<handles_io, reg>>
    BY <1>2, <1>5, <2>1
  <2>2. CASE handles_io[f] = None /\ Record(f, Entry(k, i), Register(f, i))
    BY <1>1, <1>3, <1>4, <1>5, <2>2, EntryFacts DEF IsListener
  <2>3. CASE handles_io[f].kind = k /\ Record(f, Entry(k, handles_io[f].interest \cup i),
                                              Reregister(f, handles_io[f].interest \cup i))
    <3>1. handles_io[f].interest \cup i \in Interests /\ handles_io[f].interest \cup i # {}
      BY <1>0, EntryFacts
    <3>2. QED
      BY <1>1, <1>3, <1>5, <2>3, <3>1 DEF IsListener
  <2>4. QED
    BY <1>5, <2>1, <2>2, <2>3 DEF SocketAdd
<1>6. ASSUME NEW f \in FDs, NEW i \in {R, W}, handles_io[f].kind \notin {"none", "TCPListener"},
             SocketRem(f, i), UNCHANGED lsets
      PROVE  EntryInv'
  <2>1. CASE Record(f, None, {})
    BY <1>1, <1>4, <1>6, <2>1 DEF IsListener
  <2>2. CASE /\ handles_io[f].interest # i
             /\ Record(f, Entry(handles_io[f].kind, handles_io[f].interest \ i),
                       Reregister(f, handles_io[f].interest \ i))
    <3>1. handles_io[f].interest # {}
      BY <1>0, <1>4, <1>6 DEF GoodEntry
    <3>2. handles_io[f].interest \ i \in Interests /\ handles_io[f].interest \ i # {}
      BY <1>0, <2>2, <3>1 DEF Interests, R, W
    <3>3. QED
      BY <1>0, <1>1, <1>3, <1>6, <2>2, <3>2 DEF IsListener
  <2>3. QED
    BY <1>6, <2>1, <2>2 DEF SocketRem
<1>7. ASSUME NEW S, NEW L, NEW X \in SUBSET FDs, DropStreams(S, L, X) PROVE EntryInv'
  <2>1. \A g \in FDs : \/ handles_io'[g] = None /\ (g \in X \/ ~IsListener(g))
                       \/ handles_io'[g] = handles_io[g] /\ g \notin X
    BY <1>7 DEF DropStreams, IsListener
  <2>2. lsets' = lsets \ {f \in X : IsListener(f)}
    BY <1>7 DEF DropStreams, Removed, IsListener
  <2>3. QED
    BY <1>0, <1>4, <2>1, <2>2 DEF EntryInv, GoodEntry, IsListener
<1>8. ASSUME NEW f \in FDs, NEW i \in {R, W}, AddCallback(f, i) PROVE EntryInv'
  <2>1. CASE UNCHANGED <<handles_io, reg>>
    BY <1>2, <1>8, <2>1 DEF AddCallback, streams
  <2>2. CASE handles_io[f] = None /\ Record(f, Entry("Py", i), Register(f, i))
    BY <1>1, <1>3, <1>4, <1>8, <2>2, EntryFacts DEF IsListener, AddCallback, streams, Kinds
  <2>3. CASE handles_io[f].kind = "Py" /\ Record(f, Entry("Py", handles_io[f].interest \cup i),
                                                 Reregister(f, handles_io[f].interest))
    <3>1. handles_io[f].interest \cup i \in Interests /\ handles_io[f].interest \cup i # {}
      BY <1>0, EntryFacts
    <3>2. QED
      BY <1>1, <1>3, <1>8, <2>3, <3>1 DEF IsListener, AddCallback, streams, Kinds
  <2>4. QED
    BY <1>8, <2>1, <2>2, <2>3 DEF AddCallback
<1>9. ASSUME NEW f \in FDs, NEW i \in {R, W}, RemoveCallback(f, i) PROVE EntryInv'
  <2>1. /\ \/ Record(f, None, {}) \/ Record(f, Entry("Py", Other(i)), Reregister(f, Other(i)))
        /\ ~IsListener(f) /\ UNCHANGED lsets
    BY <1>9 DEF RemoveCallback, Remains, IsListener, streams
  <2>2. GoodEntry(Entry("Py", Other(i))) /\ Entry("Py", Other(i)).kind = "Py"
    BY <1>3, EntryFacts DEF Kinds
  <2>3. QED
    BY <1>1, <1>4, <2>1, <2>2
<1>10. ASSUME NEW f \in FDs, TcpConn(f) \/ UdpConn(f) PROVE EntryInv'
  BY <1>5, <1>10 DEF TcpConn, UdpConn, Kinds, streams
<1>11. ASSUME NEW f \in FDs, NEW i \in {R, W}, StreamAdds(f, i) \/ StreamRems(f, i) PROVE EntryInv'
  BY <1>5, <1>6, <1>11 DEF StreamAdds, StreamRems, Kinds, streams
<1>12. ASSUME NEW f \in FDs, UdpClose(f) \/ StreamTears(f) PROVE EntryInv'
  BY <1>2, <1>6, <1>12 DEF UdpClose, StreamTears, streams
<1>13. ASSUME NEW f \in FDs, tcp_listener_add(f) PROVE EntryInv'
  <2>1. \A g \in FDs : handles_io'[g] = IF g = f THEN Entry("TCPListener", R) ELSE handles_io[g]
    BY <1>0, <1>13 DEF tcp_listener_add, Record
  <2>2. lsets' = lsets \cup {f}
    BY <1>13 DEF tcp_listener_add
  <2>3. GoodEntry(Entry("TCPListener", R)) /\ Entry("TCPListener", R).kind = "TCPListener"
    BY <1>3, EntryFacts DEF Kinds
  <2>4. QED
    BY <1>0, <2>1, <2>2, <2>3 DEF EntryInv, GoodEntry, IsListener
<1>14. ASSUME NEW s \in Servers, StartServing(s) PROVE EntryInv'
  <2>1. server[s].fd \in FDs
    BY <1>14, TypeFrame DEF StartServing, ServerType
  <2>2. QED
    BY <1>2, <1>13, <1>14, <2>1 DEF StartServing, streams
<1>15. ASSUME NEW s \in Servers, Close(s) \/ StreamsEnd(s) PROVE EntryInv'
  <2>1. Close(s) => server[s].fd \in FDs
    BY TypeFrame DEF Close, ServerType
  <2>2. QED
    BY <1>7, <1>15, <2>1 DEF Close, StreamsEnd
<1>16. ASSUME NEW f \in FDs, StreamDrops(f) PROVE EntryInv'
  BY <1>7, <1>16 DEF StreamDrops
<1>17. ASSUME NEW f \in FDs, os[f] = "free", pc # "robbed" PROVE ~IsListener(f)
  BY <1>17 DEF IInv, TableInv, Owned
<1>18. ASSUME NEW l \in FDs, NEW f \in FDs, AcceptOne(l, f) PROVE EntryInv'
  <2>1. ~IsListener(f) /\ UNCHANGED lsets
    BY <1>17, <1>18, RegistryConstants DEF AcceptOne
  <2>2. GoodEntry(Entry("TCPStream", R)) /\ Entry("TCPStream", R).kind = "TCPStream"
    BY <1>3, EntryFacts DEF Kinds
  <2>3. QED
    BY <1>1, <1>2, <1>18, <2>1, <2>2 DEF AcceptOne
<1>19. ASSUME NEW f \in FDs, SsockSet(f) PROVE EntryInv'
  <2>1. ~IsListener(f) /\ UNCHANGED lsets
    BY <1>17, <1>19 DEF SsockSet, Idle, streams
  <2>2. GoodEntry(Entry("Signals", R)) /\ Entry("Signals", R).kind = "Signals"
    BY <1>3, EntryFacts DEF Kinds
  <2>3. QED
    BY <1>1, <1>19, <2>1, <2>2 DEF SsockSet
<1>20. CASE SsockDel
  <2>1. ssock \in FDs /\ os[ssock] = "ssock"
    BY <1>20, TypeFrame DEF SsockDel, Idle, OtherType, IInv, TableInv, Owned
  <2>2. ~IsListener(ssock)
    BY <1>20, <2>1 DEF SsockDel, Idle, IInv, TableInv, Owned
  <2>3. QED
    BY <1>1, <1>4, <1>20, <2>1, <2>2 DEF SsockDel, streams
<1>21. QED
  BY <1>2, <1>8, <1>9, <1>10, <1>11, <1>12, <1>14, <1>15, <1>16, <1>18, <1>19, <1>20 DEF Next, vars,
     OpenFile, CloseFile, StreamCloses, Reclaim, Connect, Event, AcceptEnds, UdpError, UdpCloses,
     TcpServer, SsockStopped, table, streams
-----------------------------------------------------------------------------
(***************************************************************************)
(* The table, one descriptor at a time.                                    *)
(***************************************************************************)

\* PolledAsRecorded for one number
Polled(f) ==
  \/ f \in parted \/ reg[f] = handles_io[f].interest \/ os[f] = "regular"
  \/ handles_io[f].kind = "Py" /\ handles_io[f].interest = R \cup W /\ reg[f] \in {R, W}
FdInv(f) == Owned(f) /\ Watched(f) /\ Polled(f)

\* a step that does nothing to g, except that a connection or an event there may be taken
Spared(g) ==
  /\ os'[g] = os[g] /\ reg'[g] = reg[g] /\ handles_io'[g] = handles_io[g] /\ closes'[g] = closes[g]
  /\ tcp_transports'[g] = tcp_transports[g] /\ udp'[g] = udp[g]
  /\ g \in parted => g \in parted'
  /\ backlog'[g] > 0 => backlog[g] > 0
  /\ g \in armed' => g \in armed
  /\ pc' = g => pc = g \/ IsListener(g)
  /\ ssock' = g /\ pc' # "stopping" => ssock = g /\ pc # "stopping"

\* Such a step keeps what holds of g.
LEMMA SparedFd ==
  ASSUME NEW g \in FDs, FdInv(g), Spared(g)
  PROVE  FdInv(g)'
BY DEF FdInv, Owned, Watched, Polled, IsListener, Spared

\* The facts about one number that the steps start from.
LEMMA FdFacts ==
  ASSUME TypeOK, IInv, pc # "robbed", NEW g \in FDs
  PROVE  /\ FdInv(g) /\ handles_io[g] \in Entries /\ handles_io[g].kind \in Kinds
         /\ handles_io[g].interest \in Interests /\ GoodEntry(handles_io[g])
         /\ closes[g] \in Nat /\ backlog[g] \in Nat /\ g \notin {"idle", "poisoned", "stopping", "robbed", "none", NoFd}
<1>1. handles_io[g] \in Entries /\ closes[g] \in Nat /\ backlog[g] \in 0..MaxBacklog
  BY TypeFrame DEF TableType, QueueType
<1>2. FdInv(g) /\ GoodEntry(handles_io[g])
  BY DEF IInv, TableInv, PolledAsRecorded, FdInv, Polled, EntryInv, GoodEntry
<1>3. QED
  BY <1>1, <1>2, RegistryConstants DEF Entries

\* closing a number that nobody owns any more
LEMMA CloseFdKeeps ==
  ASSUME TypeOK, IInv, pc # "robbed", NEW f \in FDs, CloseFd(f), UNCHANGED <<handles_io, tcp_transports>>,
         ~IsListener(f), closes'[f] = 0, \A g \in FDs \ {f} : closes'[g] = closes[g] /\ udp'[g] = udp[g],
         tcp_transports[f] = "none", udp'[f] = "none", ssock' = f => pc' = "stopping",
         pc' \notin FDs, ssock' \in {ssock, NoFd}, pc = "stopping" => ssock' = NoFd
  PROVE  \A g \in FDs : FdInv(g)'
<1>1. ASSUME NEW g \in FDs \ {f} PROVE FdInv(g)'
  <2>1. Spared(g)
    BY TypeFrame, FdFacts DEF CloseFd, Spared, TableType, QueueType
  <2>2. QED
    BY <2>1, FdFacts, SparedFd
<1>2. FdInv(f)'
  <2>1. /\ os'[f] = "free" /\ reg'[f] = {} /\ backlog'[f] = 0 /\ f \notin armed'
        /\ handles_io[f] # None => f \in parted'
    BY TypeFrame DEF CloseFd, TableType, QueueType
  <2>2. QED
    BY <2>1, EntryFacts DEF FdInv, Owned, Watched, Polled, IsListener
<1>3. QED
  BY <1>1, <1>2

\* A socket that adds an interest is watched for what its entry says, unless
\* the last owner of the number left an entry there.
LEMMA SocketAddPolled ==
  ASSUME TypeOK, IInv, pc # "robbed", NEW f \in FDs, NEW i \in {R, W}, NEW k \in {"TCPStream", "UDPSocket"},
         SocketAdd(f, k, i), UNCHANGED parted, ~IsListener(f), os[f] # "regular"
  PROVE  /\ Polled(f)' /\ ~IsListener(f)'
         /\ \A g \in FDs \ {f} : handles_io'[g] = handles_io[g] /\ reg'[g] = reg[g]
<1> DEFINE e == handles_io[f]
<1>1. /\ Polled(f) /\ GoodEntry(e) /\ e.kind \in Kinds /\ e.interest \in Interests /\ i \in Interests
      /\ k \in Kinds /\ handles_io \in [FDs -> Entries] /\ reg \in [FDs -> Interests]
  BY FdFacts, TypeFrame, EntryFacts DEF FdInv, TableType, Kinds
<1>2. CASE e = None /\ Record(f, Entry(k, i), Register(f, i))
  <2>1. /\ handles_io'[f] = Entry(k, i) /\ reg'[f] = Register(f, i)
        /\ \A g \in FDs \ {f} : handles_io'[g] = handles_io[g] /\ reg'[g] = reg[g]
    BY <1>1, <1>2 DEF Record
  <2>2. Entry(k, i).kind = k /\ Entry(k, i).interest = i
    BY <1>1, EntryFacts
  <2>3. f \in parted \/ reg[f] = {}
    BY <1>1, <1>2, EntryFacts DEF Polled
  <2>4. QED
    BY <2>1, <2>2, <2>3 DEF Polled, IsListener, Register
<1>3. CASE UNCHANGED <<handles_io, reg>>
  BY <1>1, <1>3 DEF Polled, IsListener
<1>4. CASE /\ e.kind = k
           /\ Record(f, Entry(k, e.interest \cup i), Reregister(f, e.interest \cup i))
  <2>1. /\ handles_io'[f] = Entry(k, e.interest \cup i) /\ reg'[f] = Reregister(f, e.interest \cup i)
        /\ \A g \in FDs \ {f} : handles_io'[g] = handles_io[g] /\ reg'[g] = reg[g]
    BY <1>1, <1>4 DEF Record
  <2>2. /\ Entry(k, e.interest \cup i).kind = k /\ Entry(k, e.interest \cup i).interest = e.interest \cup i
        /\ e.interest # {}
    <3>1. e.interest \cup i \in Interests /\ e.kind # None.kind
      BY <1>1, <1>4, EntryFacts
    <3>2. e.interest # {}
      BY <1>1, <3>1 DEF GoodEntry
    <3>3. QED
      BY <1>1, <3>1, <3>2, EntryFacts
  <2>3. f \in parted \/ reg[f] # {}
    BY <1>1, <1>4, <2>2 DEF Polled
  <2>4. QED
    BY <2>1, <2>2, <2>3 DEF Polled, IsListener, Reregister
<1>5. QED
  BY <1>2, <1>3, <1>4 DEF SocketAdd

\* So is one that drops an interest.
LEMMA SocketRemPolled ==
  ASSUME TypeOK, IInv, pc # "robbed", NEW f \in FDs, NEW i \in {R, W}, SocketRem(f, i),
         handles_io[f].kind \in {"TCPStream", "UDPSocket"}, os[f] # "regular"
  PROVE  /\ Polled(f)' /\ ~IsListener(f)'
         /\ \A g \in FDs \ {f} : /\ handles_io'[g] = handles_io[g] /\ reg'[g] = reg[g]
                                 /\ g \in parted => g \in parted'
<1> DEFINE e == handles_io[f]
<1>1. /\ Polled(f) /\ GoodEntry(e) /\ e.kind \in Kinds /\ e.interest \in Interests /\ i \in Interests
      /\ handles_io \in [FDs -> Entries] /\ reg \in [FDs -> Interests]
  BY FdFacts, TypeFrame, EntryFacts DEF FdInv, TableType, Kinds
<1>2. CASE Record(f, None, {}) /\ parted' = parted \ {f}
  <2>1. /\ handles_io'[f] = None /\ reg'[f] = {}
        /\ \A g \in FDs \ {f} : handles_io'[g] = handles_io[g] /\ reg'[g] = reg[g]
    BY <1>1, <1>2 DEF Record
  <2>2. QED
    BY <1>2, <2>1, EntryFacts DEF Polled, IsListener
<1>3. CASE /\ Record(f, Entry(e.kind, e.interest \ i), Reregister(f, e.interest \ i))
           /\ UNCHANGED parted
  <2>1. /\ handles_io'[f] = Entry(e.kind, e.interest \ i) /\ reg'[f] = Reregister(f, e.interest \ i)
        /\ \A g \in FDs \ {f} : handles_io'[g] = handles_io[g] /\ reg'[g] = reg[g]
    BY <1>1, <1>3 DEF Record
  <2>2. /\ Entry(e.kind, e.interest \ i).kind = e.kind
        /\ Entry(e.kind, e.interest \ i).interest = e.interest \ i /\ e.interest # {}
    <3>1. e.interest \ i \in Interests /\ e.kind # None.kind
      BY <1>1, EntryFacts
    <3>2. e.interest # {}
      BY <1>1, <3>1 DEF GoodEntry
    <3>3. QED
      BY <1>1, <3>1, <3>2, EntryFacts
  <2>3. f \in parted \/ reg[f] # {}
    BY <1>1, <2>2 DEF Polled
  <2>4. QED
    BY <1>3, <2>1, <2>2, <2>3 DEF Polled, IsListener, Reregister
<1>4. QED
  BY <1>2, <1>3 DEF SocketRem

\* Dropping transports, and the listener of the one in X, keeps what holds of
\* every number.
LEMMA DropKeeps ==
  ASSUME TypeOK, IInv, pc = "idle", NEW S \in SUBSET FDs, NEW L, NEW X \in SUBSET FDs, DropStreams(S, L, X),
         UNCHANGED <<os, udp, ssock, pc, backlog>>, armed' = armed \ X,
         \A g \in FDs : closes'[g] = IF g \in X /\ IsListener(g) THEN closes[g] + 1 ELSE closes[g]
  PROVE  \A g \in FDs : FdInv(g)'
<1> SUFFICES ASSUME NEW g \in FDs PROVE FdInv(g)'
  OBVIOUS
<1>1. /\ FdInv(g) /\ g # "idle" /\ closes[g] \in Nat
      /\ None.kind = "none" /\ None.interest = {}
  BY FdFacts, EntryFacts
<1>2. /\ tcp_transports'[g] = IF g \in S THEN "none" ELSE tcp_transports[g]
      /\ \/ handles_io'[g] = handles_io[g] /\ reg'[g] = reg[g] /\ g \notin X
         \/ handles_io'[g] = None /\ reg'[g] = {} /\ (IsListener(g) => g \in X)
         \/ handles_io'[g] = None /\ reg'[g] = reg[g] /\ g \in X /\ ~IsListener(g)
      /\ g \in parted' <=> g \in parted \cup X /\ (handles_io'[g] # None \/ reg'[g] # {})
  BY DEF DropStreams, Removed, IsListener
<1>3. Owned(g)' /\ Watched(g)'
  BY <1>1, <1>2 DEF FdInv, Owned, Watched, IsListener
<1>4. Polled(g)'
  BY <1>1, <1>2 DEF FdInv, Polled
<1>5. QED
  BY <1>3, <1>4 DEF FdInv

\* The lock that is poisoned, and a descriptor closed under its owner, end a
\* behaviour; the reader that is stopped has its socket.
LEMMA Running ==
  ASSUME TypeOK, IInv, Next
  PROVE  /\ pc \notin {"robbed", "poisoned"} /\ (pc = "stopping" => ssock # NoFd)
         /\ pc' = "stopping" => ssock' # NoFd
<1>1. ASSUME NEW f \in FDs, (\E kind \in Files : OpenFile(f, kind)) \/ Connect(f)
      PROVE  pc \notin {"robbed", "poisoned"} /\ UNCHANGED <<pc, ssock>>
  BY <1>1 DEF OpenFile, Connect, Live
<1>2. ASSUME NEW f \in FDs, \/ CloseFile(f) \/ TcpConn(f) \/ StreamDrops(f) \/ StreamTears(f) \/ StreamCloses(f)
                             \/ UdpConn(f) \/ UdpClose(f) \/ UdpError(f) \/ UdpCloses(f) \/ SsockSet(f)
      PROVE  pc = "idle" /\ pc' = "idle"
  BY <1>2 DEF CloseFile, TcpConn, StreamDrops, StreamTears, StreamCloses, UdpConn, UdpClose, UdpError, UdpCloses, SsockSet, Idle
<1>3. ASSUME NEW f \in FDs, Reclaim(f) \/ Event(f) PROVE pc = "idle" /\ pc' # "stopping"
  BY <1>3, RegistryConstants DEF Reclaim, Event, Idle, After
<1>4. ASSUME NEW f \in FDs, NEW i \in {R, W}, AddCallback(f, i) \/ RemoveCallback(f, i) \/ StreamAdds(f, i) \/ StreamRems(f, i)
      PROVE  pc = "idle" /\ pc' # "stopping"
  BY <1>4 DEF AddCallback, RemoveCallback, StreamAdds, StreamRems, Idle
<1>5. ASSUME NEW l \in FDs, AcceptEnds(l) \/ \E f \in FDs : AcceptOne(l, f)
      PROVE  pc \notin {"robbed", "poisoned", "stopping"} /\ pc' # "stopping"
  BY <1>5, RegistryConstants DEF AcceptEnds, AcceptOne, Accepts
<1>6. ASSUME NEW s \in Servers, StartServing(s) \/ Close(s) \/ StreamsEnd(s) \/ \E f \in FDs : TcpServer(s, f)
      PROVE  pc = "idle" /\ pc' # "stopping"
  BY <1>6 DEF StartServing, Close, StreamsEnd, TcpServer, Idle, After
<1>7. SsockDel \/ SsockStopped => pc \in {"idle", "stopping"} /\ (pc' = "stopping" => ssock' # NoFd)
  BY DEF SsockDel, SsockStopped, Idle, After
<1>8. /\ pc \notin {"robbed", "poisoned"}
      /\ pc' = "stopping" => ssock' # NoFd \/ (pc = "stopping" /\ UNCHANGED ssock)
  BY <1>1, <1>2, <1>3, <1>4, <1>5, <1>6, <1>7 DEF Next
<1>9. pc = "stopping" => ssock # NoFd
  BY <1>8 DEF IInv, TableInv
<1>10. QED
  BY <1>8, <1>9

\* Every step that robs nobody keeps what holds of every number.
LEMMA FdNext ==
  ASSUME TypeOK, IInv, Next, pc' # "robbed"
  PROVE  \A g \in FDs : FdInv(g)'
<1>1. pc # "robbed" /\ (pc = "stopping" => ssock # NoFd)
  BY Running
<1>2. /\ \A g \in FDs : FdInv(g)
      /\ os \in [FDs -> {"free", "file", "regular", "stream", "listener", "udp", "ssock"}]
      /\ reg \in [FDs -> Interests] /\ handles_io \in [FDs -> Entries] /\ closes \in [FDs -> Nat]
      /\ tcp_transports \in [FDs -> FDs \cup {NoFd, "none"}]
      /\ udp \in [FDs -> {"none", "open", "closed", "failed", "ended"}]
      /\ backlog \in [FDs -> 0..MaxBacklog] /\ MaxBacklog \in Nat
      /\ \A g \in FDs : g \notin {"idle", "poisoned", "stopping", "robbed", "none", NoFd}
  BY <1>1, FdFacts, TypeFrame, RegistryConstants DEF TableType, StreamType, OtherType, QueueType
<1>3. ASSUME NEW f \in FDs, \A g \in FDs \ {f} : Spared(g), FdInv(f)'
      PROVE  \A g \in FDs : FdInv(g)'
  BY <1>2, <1>3, SparedFd
<1> USE DEF table, streams, queues
<1>4. ASSUME NEW f \in FDs, NEW kind \in Files, OpenFile(f, kind) PROVE \A g \in FDs : FdInv(g)'
  <2>1. \A g \in FDs \ {f} : Spared(g)
    BY <1>2, <1>4 DEF OpenFile, Spared
  <2>2. FdInv(f)'
    BY <1>2, <1>4 DEF OpenFile, Files, FdInv, Owned, Watched, Polled, IsListener
  <2>3. QED
    BY <1>3, <2>1, <2>2
<1>5. ASSUME NEW f \in FDs, CloseFile(f) \/ StreamCloses(f) PROVE \A g \in FDs : FdInv(g)'
  <2>1. /\ CloseFd(f) /\ UNCHANGED <<handles_io, closes, streams, udp, ssock, server, pc>>
        /\ pc = "idle" /\ os[f] \in {"file", "regular", "stream"} /\ (os[f] = "stream" => tcp_transports[f] = "none")
    BY <1>5 DEF CloseFile, Files, StreamCloses, Idle, Bound
  <2>2. /\ ~IsListener(f) /\ closes[f] = 0 /\ tcp_transports[f] = "none" /\ udp[f] = "none" /\ ssock # f
    BY <1>2, <2>1 DEF FdInv, Owned
  <2>3. QED
    BY <1>1, <1>2, <2>1, <2>2, CloseFdKeeps
<1>6. ASSUME NEW f \in FDs, NEW i \in {R, W}, AddCallback(f, i) PROVE \A g \in FDs : FdInv(g)'
  <2> DEFINE e == handles_io[f]
  <2>1. /\ os[f] \in {"file", "regular"} /\ pc = "idle" /\ pc' \in {"idle", "poisoned"}
        /\ UNCHANGED <<os, closes, parted, streams, queues, udp, ssock, server>>
    BY <1>6 DEF AddCallback, Files, Idle
  <2>2. /\ e.interest \in Interests /\ i \in Interests /\ GoodEntry(e) /\ None.interest = {}
        /\ FdInv(f) /\ None.kind = "none"
    BY <1>1, FdFacts, EntryFacts
  <2>3. /\ Polled(f)' /\ ~IsListener(f)'
        /\ \A g \in FDs \ {f} : handles_io'[g] = handles_io[g] /\ reg'[g] = reg[g]
    <3>1. CASE UNCHANGED <<handles_io, reg>>
      BY <2>1, <2>2, <3>1 DEF FdInv, Polled, IsListener, Owned
    <3>2. CASE e = None /\ Record(f, Entry("Py", i), Register(f, i))
      <4>1. /\ handles_io'[f] = Entry("Py", i) /\ reg'[f] = Register(f, i)
            /\ \A g \in FDs \ {f} : handles_io'[g] = handles_io[g] /\ reg'[g] = reg[g]
        BY <1>2, <3>2 DEF Record
      <4>2. Entry("Py", i).kind = "Py" /\ Entry("Py", i).interest = i
        BY <2>2, EntryFacts DEF Kinds
      <4>3. f \in parted \/ reg[f] = {} \/ os[f] = "regular"
        BY <2>2, <3>2, EntryFacts DEF FdInv, Polled
      <4>4. QED
        BY <2>1, <4>1, <4>2, <4>3 DEF Polled, IsListener, Register
    <3>3. CASE /\ e.kind = "Py" /\ e.interest # i
               /\ Record(f, Entry("Py", e.interest \cup i), Reregister(f, e.interest))
      <4>1. /\ handles_io'[f] = Entry("Py", e.interest \cup i) /\ reg'[f] = Reregister(f, e.interest)
            /\ \A g \in FDs \ {f} : handles_io'[g] = handles_io[g] /\ reg'[g] = reg[g]
        BY <1>2, <3>3 DEF Record
      <4>2. e.interest \cup i \in Interests
        BY <2>2, EntryFacts
      <4>3. Entry("Py", e.interest \cup i).kind = "Py" /\ Entry("Py", e.interest \cup i).interest = e.interest \cup i
        BY <4>2, EntryFacts DEF Kinds
      <4>4. e.interest # {}
        BY <2>2, <3>3 DEF GoodEntry
      <4>5. f \in parted \/ reg[f] # {} \/ os[f] = "regular"
        BY <2>2, <4>4 DEF FdInv, Polled, R, W
      <4>6. \/ e.interest = R \cup W /\ e.interest \cup i = e.interest
            \/ e.interest \in {R, W} /\ e.interest \cup i = R \cup W
        BY <2>2, <3>3, <4>4 DEF Interests, R, W
      <4>7. reg'[f] = {} \/ reg'[f] = e.interest
        BY <4>1 DEF Reregister
      <4>8. reg[f] # {} => reg'[f] = e.interest
        BY <4>1 DEF Reregister
      <4>9. QED
        BY <2>1, <4>1, <4>3, <4>5, <4>6, <4>8 DEF Polled, IsListener
    <3>4. QED
      BY <1>6, <3>1, <3>2, <3>3 DEF AddCallback
  <2>4. \A g \in FDs \ {f} : Spared(g)
    BY <1>2, <2>1, <2>3 DEF Spared
  <2>5. FdInv(f)'
    BY <1>2, <2>1, <2>2, <2>3 DEF FdInv, Owned, Watched, IsListener
  <2>6. QED
    BY <1>3, <2>4, <2>5
<1>7. ASSUME NEW f \in FDs, NEW i \in {R, W}, RemoveCallback(f, i) PROVE \A g \in FDs : FdInv(g)'
  <2> DEFINE e == handles_io[f]
  <2>1. /\ e.kind = "Py" /\ pc = "idle" 
        /\ UNCHANGED <<os, closes, streams, queues, udp, ssock, server, pc>>
    BY <1>7 DEF RemoveCallback, Idle
  <2>2. /\ e.interest \in Interests /\ i \in Interests /\ GoodEntry(e) /\ None.interest = {}
        /\ FdInv(f) /\ None.kind = "none" /\ Other(i) \in {R, W} /\ Other(i) \in Interests
    BY <1>1, FdFacts, EntryFacts
  <2>3. e.interest # {}
    BY <2>1, <2>2 DEF GoodEntry
  <2>4. /\ Polled(f)' /\ ~IsListener(f)' /\ (reg[f] = {} => reg'[f] = {})
        /\ \A g \in FDs \ {f} : /\ handles_io'[g] = handles_io[g] /\ reg'[g] = reg[g]
                                /\ g \in parted => g \in parted'
    <3>1. CASE Record(f, None, {}) /\ parted' = parted \ {f}
      <4>1. /\ handles_io'[f] = None /\ reg'[f] = {}
            /\ \A g \in FDs \ {f} : handles_io'[g] = handles_io[g] /\ reg'[g] = reg[g]
        BY <1>2, <3>1 DEF Record
      <4>2. QED
        BY <2>2, <3>1, <4>1 DEF Polled, IsListener
    <3>2. CASE Record(f, Entry("Py", Other(i)), Reregister(f, Other(i))) /\ UNCHANGED parted
      <4>1. /\ handles_io'[f] = Entry("Py", Other(i)) /\ reg'[f] = Reregister(f, Other(i))
            /\ \A g \in FDs \ {f} : handles_io'[g] = handles_io[g] /\ reg'[g] = reg[g]
        BY <1>2, <3>2 DEF Record
      <4>2. Entry("Py", Other(i)).kind = "Py" /\ Entry("Py", Other(i)).interest = Other(i)
        BY <2>2, EntryFacts DEF Kinds
      <4>3. f \in parted \/ reg[f] # {} \/ os[f] = "regular"
        BY <2>2, <2>3 DEF FdInv, Polled, R, W
      <4>4. QED
        BY <2>1, <3>2, <4>1, <4>2, <4>3 DEF Polled, IsListener, Reregister
    <3>3. QED
      BY <1>7, <3>1, <3>2 DEF RemoveCallback, Remains
  <2>5. \A g \in FDs \ {f} : Spared(g)
    BY <1>2, <2>1, <2>4 DEF Spared
  <2>6. FdInv(f)'
    <3>1. ~IsListener(f)
      BY <2>1 DEF IsListener
    <3>2. QED
      BY <1>2, <2>1, <2>2, <2>4, <3>1 DEF FdInv, Owned, Watched
  <2>7. QED
    BY <1>3, <2>5, <2>6
<1>8. ASSUME NEW f \in FDs, TcpConn(f) \/ UdpConn(f) PROVE \A g \in FDs : FdInv(g)'
  <2>1. /\ pc = "idle" /\ os[f] = "free" /\ UNCHANGED <<closes, parted, queues, ssock, pc>>
        /\ \A g \in FDs \ {f} : os'[g] = os[g] /\ tcp_transports'[g] = tcp_transports[g] /\ udp'[g] = udp[g]
        /\ \/ /\ os'[f] = "stream" /\ udp'[f] = udp[f] /\ SocketAdd(f, "TCPStream", R)
           \/ /\ os'[f] = "udp" /\ tcp_transports'[f] = tcp_transports[f] /\ SocketAdd(f, "UDPSocket", R)
    BY <1>2, <1>8 DEF TcpConn, UdpConn, Idle
  <2>2. ~IsListener(f) /\ FdInv(f)
    BY <1>2, <2>1 DEF FdInv, Owned
  <2>3. /\ Polled(f)' /\ ~IsListener(f)'
        /\ \A g \in FDs \ {f} : handles_io'[g] = handles_io[g] /\ reg'[g] = reg[g]
    BY <1>1, <2>1, <2>2, SocketAddPolled
  <2>4. \A g \in FDs \ {f} : Spared(g)
    BY <2>1, <2>3 DEF Spared
  <2>5. FdInv(f)'
    BY <1>2, <2>1, <2>2, <2>3 DEF FdInv, Owned, Watched
  <2>6. QED
    BY <1>3, <2>4, <2>5
<1>9. ASSUME NEW f \in FDs, NEW i \in {R, W}, StreamAdds(f, i) \/ StreamRems(f, i)
      PROVE  \A g \in FDs : FdInv(g)'
  <2>1. /\ pc = "idle" /\ UNCHANGED <<os, closes, streams, queues, udp, ssock, server, pc>>
        /\ \/ SocketAdd(f, "TCPStream", i) /\ UNCHANGED parted
           \/ SocketRem(f, i) /\ handles_io[f].kind = "TCPStream"
        /\ tcp_transports[f] # "none"
    BY <1>9 DEF StreamAdds, StreamRems, Idle, Bound
  <2>2. ~IsListener(f) /\ FdInv(f) /\ os[f] = "stream"
    BY <1>2, <2>1 DEF FdInv, Owned
  <2>3. /\ Polled(f)' /\ ~IsListener(f)'
        /\ \A g \in FDs \ {f} : /\ handles_io'[g] = handles_io[g] /\ reg'[g] = reg[g]
                                /\ g \in parted => g \in parted'
    BY <1>1, <2>1, <2>2, SocketAddPolled, SocketRemPolled
  <2>4. \A g \in FDs \ {f} : Spared(g)
    BY <2>1, <2>3 DEF Spared
  <2>5. FdInv(f)'
    BY <1>2, <2>1, <2>2, <2>3 DEF FdInv, Owned, Watched
  <2>6. QED
    BY <1>3, <2>4, <2>5
<1>27. ASSUME NEW f \in FDs, StreamTears(f) PROVE \A g \in FDs : FdInv(g)'
  <2>1. /\ pc = "idle" /\ UNCHANGED <<os, closes, queues, udp, ssock, server, pc>>
        /\ \/ handles_io[f].kind = "TCPStream" /\ SocketRem(f, R)
           \/ UNCHANGED <<handles_io, reg, parted>>
        /\ tcp_transports[f] # "none" /\ tcp_transports'[f] = "none"
        /\ \A g \in FDs \ {f} : tcp_transports'[g] = tcp_transports[g]
    BY <1>2, <1>27 DEF StreamTears, Idle, Bound
  <2>2. ~IsListener(f) /\ FdInv(f) /\ os[f] = "stream"
    BY <1>2, <2>1 DEF FdInv, Owned
  <2>3. /\ Polled(f)' /\ ~IsListener(f)'
        /\ \A g \in FDs \ {f} : /\ handles_io'[g] = handles_io[g] /\ reg'[g] = reg[g]
                                /\ g \in parted => g \in parted'
    <3>1. CASE UNCHANGED <<handles_io, reg, parted>>
      BY <2>1, <2>2, <3>1 DEF FdInv, Polled, IsListener
    <3>2. QED
      BY <1>1, <2>1, <2>2, <3>1, SocketRemPolled
  <2>4. \A g \in FDs \ {f} : Spared(g)
    BY <2>1, <2>3 DEF Spared
  <2>5. FdInv(f)'
    BY <1>2, <2>1, <2>2, <2>3 DEF FdInv, Owned, Watched
  <2>6. QED
    BY <1>3, <2>4, <2>5
<1>10. ASSUME NEW f \in FDs, StreamDrops(f) PROVE \A g \in FDs : FdInv(g)'
  <2>1. PICK L : DropStreams({f}, L, {})
    BY <1>10 DEF StreamDrops
  <2>2. QED
    BY <1>10, <2>1, DropKeeps DEF StreamDrops, Idle
<1>11. ASSUME NEW s \in Servers, StreamsEnd(s) PROVE \A g \in FDs : FdInv(g)'
  <2>1. PICK S \in SUBSET Streams(s), L \in SUBSET FDs : DropStreams(S, L, {})
    BY <1>11 DEF StreamsEnd
  <2>2. S \in SUBSET FDs
    BY DEF Streams, Bound
  <2>3. QED
    BY <1>11, <2>1, <2>2, DropKeeps DEF StreamsEnd, Idle
<1>12. ASSUME NEW s \in Servers, Close(s) PROVE \A g \in FDs : FdInv(g)'
  <2>1. PICK L : DropStreams(Streams(s), L, {server[s].fd})
    BY <1>12 DEF Close
  <2>2. server[s].fd \in FDs /\ Streams(s) \in SUBSET FDs
    BY <1>12, TypeFrame DEF Close, ServerType, Streams, Bound
  <2>3. \A g \in FDs : closes'[g] = IF g \in {server[s].fd} /\ IsListener(g) THEN closes[g] + 1 ELSE closes[g]
    BY <1>2, <1>12, <2>2 DEF Close, Retired, IsListener
  <2>4. QED
    BY <1>12, <2>1, <2>2, <2>3, DropKeeps DEF Close, Idle
<1>13. ASSUME NEW s \in Servers, NEW f \in FDs, TcpServer(s, f) PROVE \A g \in FDs : FdInv(g)'
  <2>1. \A g \in FDs \ {f} : Spared(g)
    BY <1>2, <1>13 DEF TcpServer, Spared
  <2>2. FdInv(f)'
    BY <1>2, <1>13 DEF TcpServer, Idle, FdInv, Owned, Watched, Polled, IsListener
  <2>3. QED
    BY <1>3, <2>1, <2>2
<1>14. ASSUME NEW s \in Servers, StartServing(s) PROVE \A g \in FDs : FdInv(g)'
  <2>1. PICK f \in FDs : f = server[s].fd
    BY <1>14, TypeFrame DEF StartServing, ServerType
  <2>2. pc = "idle" /\ UNCHANGED <<udp, ssock>>
    BY <1>14 DEF StartServing, Idle
  <2>3. CASE os[f] = "listener" /\ tcp_listener_add(f) /\ UNCHANGED <<os, tcp_transports, backlog, unseen, pc>>
    <3>1. /\ handles_io' = [handles_io EXCEPT ![f] = Entry("TCPListener", R)]
          /\ reg' = [reg EXCEPT ![f] = Register(f, R)] /\ parted' = parted \ {f} /\ Retired(f)
          /\ armed' \subseteq armed \cup {f}
      BY <2>3 DEF tcp_listener_add, Record
    <3>2. \A g \in FDs \ {f} : closes'[g] = closes[g]
      BY <1>2, <3>1 DEF Retired
    <3>3. \A g \in FDs \ {f} : Spared(g)
      BY <1>2, <2>2, <2>3, <3>1, <3>2 DEF Spared
    <3>4. Entry("TCPListener", R).kind = "TCPListener" /\ Entry("TCPListener", R).interest = R
      BY EntryFacts DEF Kinds
    <3>5. reg'[f] = R /\ handles_io'[f] = Entry("TCPListener", R)
      BY <1>2, <2>3, <3>1 DEF FdInv, Watched, Register
    <3>6. FdInv(f)'
      BY <1>2, <2>2, <2>3, <3>4, <3>5 DEF FdInv, Owned, Watched, Polled, IsListener
    <3>7. QED
      BY <1>3, <3>3, <3>6
  <2>4. CASE /\ os[f] = "free" /\ CloseFd(f) /\ pc' = "idle" /\ UNCHANGED <<handles_io, closes, streams>>
    <3>1. /\ ~IsListener(f) /\ closes[f] = 0 /\ tcp_transports[f] = "none" /\ udp[f] = "none" /\ ssock # f
      BY <1>2, <2>2, <2>4 DEF FdInv, Owned
    <3>2. QED
      BY <1>1, <1>2, <2>2, <2>4, <3>1, CloseFdKeeps
  <2>5. QED
    BY <1>14, <2>1, <2>3, <2>4 DEF StartServing, After
<1>15. ASSUME NEW f \in FDs, Reclaim(f) PROVE \A g \in FDs : FdInv(g)'
  <2>1. /\ closes[f] > 0 /\ closes' = [closes EXCEPT ![f] = @ - 1] /\ CloseFd(f) /\ pc = "idle"
        /\ pc' = "idle" /\ (os[f] = "free" \/ (closes[f] = 1 /\ ~IsListener(f)))
        /\ UNCHANGED <<handles_io, streams, udp, ssock, server>>
    BY <1>15 DEF Reclaim, After, Idle, IsListener
  <2>2. os[f] = "listener"
    BY <1>2, <2>1 DEF FdInv, Owned
  <2>3. /\ ~IsListener(f) /\ closes'[f] = 0 /\ tcp_transports[f] = "none" /\ udp[f] = "none" /\ ssock # f
        /\ \A g \in FDs \ {f} : closes'[g] = closes[g]
    BY <1>2, <2>1, <2>2 DEF FdInv, Owned
  <2>4. QED
    BY <1>1, <1>2, <2>1, <2>3, CloseFdKeeps
<1>16. ASSUME NEW f \in FDs, Connect(f) PROVE \A g \in FDs : FdInv(g)'
  <2>1. \A g \in FDs \ {f} : Spared(g)
    BY <1>2, <1>16 DEF Connect, Spared
  <2>2. FdInv(f)'
    BY <1>2, <1>16 DEF Connect, Listening, FdInv, Owned, Watched, Polled, IsListener
  <2>3. QED
    BY <1>3, <2>1, <2>2
<1>17. ASSUME NEW f \in FDs, Event(f) PROVE \A g \in FDs : FdInv(g)'
  <2>1. \A g \in FDs : Spared(g)
    BY <1>2, <1>17 DEF Event, Idle, IsListener, Spared
  <2>2. QED
    BY <1>2, <2>1, SparedFd
<1>18. ASSUME NEW l \in FDs, NEW f \in FDs, AcceptOne(l, f) PROVE \A g \in FDs : FdInv(g)'
  <2>1. /\ pc = l /\ os[f] = "free" /\ backlog[l] > 0 /\ backlog' = [backlog EXCEPT ![l] = @ - 1]
        /\ UNCHANGED <<lsets, armed, unseen, udp, ssock, server>>
    BY <1>18 DEF AcceptOne, Waiting
  <2>2. \A g \in FDs : backlog'[g] > 0 => backlog[g] > 0
    BY <1>2, <2>1
  <2>3. CASE pc' = "poisoned" /\ UNCHANGED <<os, reg, handles_io, closes, parted, tcp_transports, lstreams, torn>>
    <3>1. \A g \in FDs : Spared(g)
      BY <1>2, <2>1, <2>2, <2>3 DEF Spared
    <3>2. QED
      BY <1>2, <3>1, SparedFd
  <2>4. CASE /\ os' = [os EXCEPT ![f] = "stream"] /\ pc' = l
             /\ tcp_transports' = [tcp_transports EXCEPT ![f] = l]
             /\ Record(f, Entry("TCPStream", R), Register(f, R)) /\ Retired(f) /\ parted' = parted \ {f}
    <3>1. ~IsListener(f) /\ closes[f] = 0 /\ udp[f] = "none" /\ ssock # f /\ backlog[f] = 0 /\ l # f /\ reg[f] = {}
      BY <1>2, <2>1 DEF FdInv, Owned, Watched
    <3>2. UNCHANGED closes
      BY <2>4, <3>1 DEF Retired, IsListener
    <3>3. \A g \in FDs \ {f} : Spared(g)
      BY <1>2, <2>1, <2>2, <2>4, <3>2 DEF Spared, Record
    <3>4. Entry("TCPStream", R).kind = "TCPStream" /\ Entry("TCPStream", R).interest = R
      BY EntryFacts DEF Kinds
    <3>5. reg'[f] = R /\ handles_io'[f] = Entry("TCPStream", R) /\ os'[f] = "stream"
      BY <1>2, <2>1, <2>4, <3>1 DEF Record, Register
    <3>6. f \notin armed /\ backlog'[f] = 0
      BY <1>2, <2>1, <3>1 DEF FdInv, Watched
    <3>7. FdInv(f)'
      BY <1>2, <2>1, <2>4, <3>1, <3>2, <3>4, <3>5, <3>6 DEF FdInv, Owned, Watched, Polled, IsListener
    <3>8. QED
      BY <1>3, <3>3, <3>7
  <2>5. QED
    BY <1>18, <2>3, <2>4 DEF AcceptOne, Accepts
<1>19. ASSUME NEW l \in FDs, AcceptEnds(l) PROVE \A g \in FDs : FdInv(g)'
  <2>1. \A g \in FDs : Spared(g)
    BY <1>2, <1>19 DEF AcceptEnds, Waiting, Spared
  <2>2. QED
    BY <1>2, <2>1, SparedFd
<1>20. ASSUME NEW f \in FDs, UdpClose(f) PROVE \A g \in FDs : FdInv(g)'
  <2>1. /\ pc = "idle" /\ UNCHANGED <<os, closes, streams, queues, ssock, server, pc>> /\ udp[f] # "none"
        /\ \A g \in FDs \ {f} : udp'[g] = udp[g]
        /\ \/ handles_io[f].kind = "UDPSocket" /\ SocketRem(f, R)
           \/ UNCHANGED <<handles_io, reg, parted>>
    BY <1>2, <1>20 DEF UdpClose, Idle
  <2>2. ~IsListener(f) /\ FdInv(f) /\ os[f] = "udp"
    BY <1>2, <2>1 DEF FdInv, Owned
  <2>3. /\ Polled(f)' /\ ~IsListener(f)'
        /\ \A g \in FDs \ {f} : /\ handles_io'[g] = handles_io[g] /\ reg'[g] = reg[g]
                                /\ g \in parted => g \in parted'
    <3>1. CASE UNCHANGED <<handles_io, reg, parted>>
      BY <2>1, <2>2, <3>1 DEF FdInv, Polled, IsListener
    <3>2. QED
      BY <1>1, <2>1, <2>2, <3>1, SocketRemPolled
  <2>4. \A g \in FDs \ {f} : Spared(g)
    BY <2>1, <2>3 DEF Spared
  <2>5. FdInv(f)'
    BY <1>2, <2>1, <2>2, <2>3 DEF FdInv, Owned, Watched
  <2>6. QED
    BY <1>3, <2>4, <2>5
<1>21. ASSUME NEW f \in FDs, UdpError(f) PROVE \A g \in FDs : FdInv(g)'
  <2>1. \A g \in FDs \ {f} : Spared(g)
    BY <1>2, <1>21 DEF UdpError, Spared
  <2>2. FdInv(f)'
    BY <1>2, <1>21 DEF UdpError, FdInv, Owned, Watched, Polled, IsListener
  <2>3. QED
    BY <1>3, <2>1, <2>2
<1>22. ASSUME NEW f \in FDs, UdpCloses(f) PROVE \A g \in FDs : FdInv(g)'
  <2>1. /\ pc = "idle" /\ udp[f] # "none" /\ udp' = [udp EXCEPT ![f] = "none"] /\ CloseFd(f)
        /\ UNCHANGED <<handles_io, closes, streams, ssock, server, pc>>
    BY <1>22 DEF UdpCloses, Idle
  <2>2. ~IsListener(f) /\ closes[f] = 0 /\ tcp_transports[f] = "none" /\ ssock # f
    BY <1>2, <2>1 DEF FdInv, Owned
  <2>3. udp'[f] = "none" /\ \A g \in FDs \ {f} : udp'[g] = udp[g]
    BY <1>2, <2>1
  <2>4. QED
    BY <1>1, <1>2, <2>1, <2>2, <2>3, CloseFdKeeps
<1>23. ASSUME NEW f \in FDs, SsockSet(f) PROVE \A g \in FDs : FdInv(g)'
  <2>1. /\ pc = "idle" /\ os[f] = "free" /\ ssock' = f /\ os' = [os EXCEPT ![f] = "ssock"]
        /\ Record(f, Entry("Signals", R), Register(f, R)) /\ Retired(f) /\ parted' = parted \ {f}
        /\ UNCHANGED <<streams, queues, udp, server, pc>>
    BY <1>23 DEF SsockSet, Idle
  <2>2. ~IsListener(f) /\ closes[f] = 0 /\ udp[f] = "none" /\ tcp_transports[f] = "none" /\ backlog[f] = 0
        /\ reg[f] = {} /\ f \notin armed
    BY <1>2, <2>1 DEF FdInv, Owned, Watched
  <2>3. UNCHANGED closes
    BY <2>1, <2>2 DEF Retired, IsListener
  <2>4. \A g \in FDs \ {f} : Spared(g)
    BY <1>2, <2>1, <2>3 DEF Spared, Record
  <2>5. Entry("Signals", R).kind = "Signals" /\ Entry("Signals", R).interest = R
    BY EntryFacts DEF Kinds
  <2>6. reg'[f] = R /\ handles_io'[f] = Entry("Signals", R) /\ os'[f] = "ssock"
    BY <1>2, <2>1, <2>2 DEF Record, Register
  <2>7. FdInv(f)'
    BY <1>2, <2>1, <2>2, <2>3, <2>5, <2>6 DEF FdInv, Owned, Watched, Polled, IsListener
  <2>8. QED
    BY <1>3, <2>4, <2>7
<1>24. ASSUME SsockDel PROVE \A g \in FDs : FdInv(g)'
  <2>1. PICK f \in FDs : f = ssock
    BY <1>24, TypeFrame DEF SsockDel, OtherType
  <2>2. /\ pc = "idle" /\ pc' = "stopping" /\ os' = [os EXCEPT ![f] = "free"] /\ Record(f, None, {})
        /\ parted' = parted \ {f} /\ UNCHANGED <<closes, streams, queues, udp, ssock, server>>
    BY <1>24, <2>1 DEF SsockDel, Idle
  <2>3. \A g \in FDs \ {f} : Spared(g)
    BY <1>2, <2>1, <2>2 DEF Spared, Record
  <2>4. os[f] = "ssock" /\ FdInv(f)
    BY <1>2, <2>1, <2>2 DEF FdInv, Owned
  <2>5. os'[f] = "free" /\ handles_io'[f] = None /\ reg'[f] = {}
    BY <1>2, <2>2 DEF Record
  <2>6. FdInv(f)'
    BY <1>2, <2>1, <2>2, <2>4, <2>5, EntryFacts DEF FdInv, Owned, Watched, Polled, IsListener
  <2>7. QED
    BY <1>3, <2>3, <2>6
<1>25. ASSUME SsockStopped PROVE \A g \in FDs : FdInv(g)'
  <2>1. PICK f \in FDs : f = ssock
    BY <1>1, <1>25, TypeFrame DEF SsockStopped, OtherType
  <2>2. /\ pc = "stopping" /\ pc' = "idle" /\ os[f] = "free" /\ ssock' = NoFd /\ CloseFd(f)
        /\ UNCHANGED <<handles_io, closes, streams, udp, server>>
    BY <1>25, <2>1 DEF SsockStopped, After
  <2>3. ~IsListener(f) /\ closes[f] = 0 /\ tcp_transports[f] = "none" /\ udp[f] = "none"
    BY <1>2, <2>2 DEF FdInv, Owned
  <2>4. QED
    BY <1>1, <1>2, <2>2, <2>3, CloseFdKeeps
<1>26. QED
  BY <1>4, <1>5, <1>6, <1>7, <1>8, <1>9, <1>10, <1>11, <1>12, <1>13, <1>14, <1>15, <1>16, <1>17, <1>18,
     <1>19, <1>20, <1>21, <1>22, <1>23, <1>24, <1>25, <1>27 DEF Next

\* Every step keeps the table.
LEMMA TableNext ==
  ASSUME TypeOK, IInv, [Next]_vars
  PROVE  TableInv' /\ PolledAsRecorded'
<1>1. CASE Next
  <2>1. pc' # "robbed" => \A g \in FDs : FdInv(g)'
    BY <1>1, FdNext
  <2>2. pc' = "stopping" => ssock' # NoFd
    BY <1>1, Running
  <2>3. TableInv'
    BY <2>1, <2>2 DEF TableInv, FdInv
  <2>4. PolledAsRecorded'
    BY <2>1 DEF PolledAsRecorded, FdInv, Polled
  <2>5. QED
    BY <2>3, <2>4
<1>2. CASE UNCHANGED vars
  BY <1>2 DEF IInv, TableInv, PolledAsRecorded, Owned, Watched, IsListener, vars, table, streams, queues
<1>3. QED
  BY <1>1, <1>2

-----------------------------------------------------------------------------
(***************************************************************************)
(* The queues of the listeners.                                            *)
(***************************************************************************)
Announced(l) == reg[l] # {} /\ backlog[l] > 0 => l \in armed \cup unseen \/ pc \in {l, "poisoned"}

\* a step that leaves the queue of l alone
QueueSpared(l) ==
  /\ reg'[l] # {} /\ backlog'[l] > 0 => reg[l] # {} /\ backlog[l] > 0
  /\ l \in armed => l \in armed'
  /\ l \in unseen => l \in unseen'
  /\ pc # l

\* Every step keeps waiting connections announced.
LEMMA BacklogNext ==
  ASSUME TypeOK, IInv, [Next]_vars
  PROVE  BacklogAnnounced'
<1>1. CASE UNCHANGED vars
  BY <1>1 DEF IInv, BacklogAnnounced, vars, table, queues
<1> SUFFICES ASSUME Next, NEW l \in FDs PROVE Announced(l)'
  BY <1>1 DEF BacklogAnnounced, Announced
<1>2. pc \notin {"robbed", "poisoned"} /\ Announced(l)
  BY Running DEF IInv, BacklogAnnounced, Announced
<1>3. /\ \A g \in FDs : FdInv(g) /\ (backlog[g] > 0 => os[g] = "listener")
      /\ reg \in [FDs -> Interests] /\ backlog \in [FDs -> 0..MaxBacklog] /\ MaxBacklog \in Nat
      /\ \A g \in FDs : g \notin {"idle", "poisoned", "stopping", "robbed", "none", NoFd}
  BY <1>2, FdFacts, TypeFrame, RegistryConstants DEF TableType, QueueType, FdInv, Watched
<1>4. QueueSpared(l) => Announced(l)'
  BY <1>2 DEF QueueSpared, Announced
<1> USE DEF table, streams, queues
<1>5. ASSUME NEW f \in FDs, CloseFd(f), pc \in {"idle", "stopping"} PROVE Announced(l)'
  <2>1. l = f => backlog'[l] = 0
    BY <1>3, <1>5 DEF CloseFd
  <2>2. l # f => QueueSpared(l)
    BY <1>3, <1>5 DEF CloseFd, QueueSpared
  <2>3. QED
    BY <1>4, <2>1, <2>2 DEF Announced
<1>6. ASSUME NEW f \in FDs, pc = "idle", UNCHANGED queues, \A g \in FDs \ {f} : reg'[g] = reg[g],
             os[f] = "listener" /\ reg[f] = {} => reg'[f] = {}
      PROVE  Announced(l)'
  <2>1. QueueSpared(l)
    BY <1>3, <1>6 DEF QueueSpared
  <2>2. QED
    BY <1>4, <2>1
<1>7. ASSUME NEW f \in FDs, NEW k, NEW i, SocketAdd(f, k, i) \/ SocketRem(f, i)
      PROVE  \A g \in FDs \ {f} : reg'[g] = reg[g]
  BY <1>3, <1>7 DEF SocketAdd, SocketRem, Record
<1>8. ASSUME NEW f \in FDs, NEW i, SocketRem(f, i) PROVE reg[f] = {} => reg'[f] = {}
  BY <1>3, <1>8 DEF SocketRem, Record, Reregister
<1>9. ASSUME NEW f \in FDs, NEW i \in {R, W}, AddCallback(f, i) \/ RemoveCallback(f, i) PROVE Announced(l)'
  <2>1. CASE AddCallback(f, i) /\ UNCHANGED reg
    <3>1. pc = "idle" /\ UNCHANGED <<reg, queues>>
      BY <2>1 DEF AddCallback, Idle
    <3>2. QED
      BY <1>6, <3>1
  <2>2. CASE AddCallback(f, i) /\ pc = "idle" /\ \E e, j : Record(f, e, j)
    <3>1. os[f] # "listener" /\ UNCHANGED queues /\ \A g \in FDs \ {f} : reg'[g] = reg[g]
      BY <1>3, <2>2 DEF AddCallback, Files, Record
    <3>2. QED
      BY <1>6, <2>2, <3>1
  <2>3. CASE RemoveCallback(f, i)
    <3>1. pc = "idle" /\ UNCHANGED queues /\ (\A g \in FDs \ {f} : reg'[g] = reg[g]) /\ (reg[f] = {} => reg'[f] = {})
      BY <1>3, <2>3 DEF RemoveCallback, Idle, Record, Remains, Reregister
    <3>2. QED
      BY <1>6, <3>1
  <2>4. QED
    BY <1>9, <2>1, <2>2, <2>3 DEF AddCallback, Idle
<1>10. ASSUME NEW f \in FDs, TcpConn(f) \/ UdpConn(f) PROVE Announced(l)'
  <2>1. /\ pc = "idle" /\ os[f] = "free" /\ UNCHANGED queues
        /\ SocketAdd(f, "TCPStream", R) \/ SocketAdd(f, "UDPSocket", R)
    BY <1>10 DEF TcpConn, UdpConn, Idle
  <2>2. QED
    BY <1>6, <1>7, <2>1
<1>11. ASSUME NEW f \in FDs, NEW i \in {R, W}, StreamAdds(f, i) \/ StreamRems(f, i) PROVE Announced(l)'
  <2>1. /\ pc = "idle" /\ UNCHANGED queues /\ os[f] = "stream"
        /\ SocketAdd(f, "TCPStream", i) \/ SocketRem(f, i)
    BY <1>3, <1>11 DEF StreamAdds, StreamRems, Idle, Bound, FdInv, Owned
  <2>2. QED
    BY <1>6, <1>7, <2>1
<1>12. ASSUME NEW S, NEW L, DropStreams(S, L, {}), UNCHANGED queues, pc = "idle" PROVE Announced(l)'
  <2>1. QueueSpared(l)
    BY <1>3, <1>12 DEF DropStreams, QueueSpared
  <2>2. QED
    BY <1>4, <2>1
<1>13. ASSUME NEW s \in Servers, Close(s) PROVE Announced(l)'
  <2>1. PICK S, L : DropStreams(S, L, {server[s].fd})
    BY <1>13 DEF Close
  <2>2. pc = "idle" /\ UNCHANGED backlog /\ armed' = armed \ {server[s].fd} /\ unseen' = unseen \ {server[s].fd}
    BY <1>13 DEF Close, Idle
  <2>3. CASE l = server[s].fd
    <3>1. IsListener(l) => reg'[l] = {}
      BY <2>1, <2>3 DEF DropStreams, Removed, IsListener
    <3>2. reg'[l] # {} => reg[l] # {}
      BY <2>1 DEF DropStreams
    <3>3. ~IsListener(l) /\ backlog[l] > 0 => reg[l] = {}
      BY <1>3 DEF FdInv, Watched
    <3>4. QED
      BY <2>2, <3>1, <3>2, <3>3 DEF Announced
  <2>4. CASE l # server[s].fd
    <3>1. QueueSpared(l)
      BY <1>3, <2>1, <2>2, <2>4 DEF DropStreams, QueueSpared
    <3>2. QED
      BY <1>4, <3>1
  <2>5. QED
    BY <2>3, <2>4
<1>14. ASSUME NEW s \in Servers, StartServing(s) PROVE Announced(l)'
  <2>1. PICK f \in FDs : f = server[s].fd
    BY <1>14, TypeFrame DEF StartServing, ServerType
  <2>2. CASE tcp_listener_add(f) /\ UNCHANGED <<backlog, unseen, pc>>
    <3>1. pc = "idle"
      BY <1>14 DEF StartServing, Idle
    <3>2. \A g \in FDs \ {f} : reg'[g] = reg[g]
      BY <1>3, <2>2 DEF tcp_listener_add, Record
    <3>3. l # f => QueueSpared(l)
      BY <1>3, <2>2, <3>1, <3>2 DEF tcp_listener_add, QueueSpared
    <3>4. l = f => Announced(l)'
      BY <1>2, <1>3, <2>2, <3>1 DEF tcp_listener_add, Announced
    <3>5. QED
      BY <1>4, <3>3, <3>4
  <2>3. CASE CloseFd(f)
    BY <1>5, <1>14, <2>3 DEF StartServing, Idle
  <2>4. QED
    BY <1>14, <2>1, <2>2, <2>3 DEF StartServing
<1>15. ASSUME NEW f \in FDs, Connect(f) PROVE Announced(l)'
  <2>1. UNCHANGED <<reg, pc>> /\ \A g \in FDs \ {f} : backlog'[g] = backlog[g]
    BY <1>3, <1>15 DEF Connect
  <2>2. QED
    BY <1>2, <1>15, <2>1 DEF Connect, Announced
<1>16. ASSUME NEW f \in FDs, Event(f) PROVE Announced(l)'
  <2>1. IsListener(f) /\ pc = "idle"
    BY <1>3, <1>16 DEF Event, Idle, FdInv, Watched
  <2>2. QED
    BY <1>2, <1>3, <1>16, <2>1 DEF Event, IsListener, Announced
<1>17. ASSUME NEW m \in FDs, NEW f \in FDs, AcceptOne(m, f) PROVE Announced(l)'
  <2>1. /\ pc = m /\ pc' \in {m, "poisoned"} /\ UNCHANGED <<armed, unseen>> /\ os[f] = "free"
        /\ \A g \in FDs \ {m} : backlog'[g] = backlog[g]
        /\ \A g \in FDs \ {f} : reg'[g] = reg[g]
    BY <1>3, <1>17 DEF AcceptOne, Accepts, Record
  <2>2. backlog[f] = 0
    BY <1>3, <2>1
  <2>3. QED
    BY <1>2, <1>3, <2>1, <2>2 DEF Announced
<1>18. ASSUME NEW m \in FDs, AcceptEnds(m) PROVE Announced(l)'
  <2>1. /\ pc = m /\ UNCHANGED <<armed, reg>> /\ unseen \subseteq unseen'
        /\ \A g \in FDs \ {m} : backlog'[g] = backlog[g]
        /\ backlog'[m] > 0 => m \in unseen'
    BY <1>3, <1>18 DEF AcceptEnds
  <2>2. QED
    BY <1>2, <1>3, <2>1 DEF Announced
<1>19. ASSUME NEW f \in FDs, UdpClose(f) \/ StreamTears(f) PROVE Announced(l)'
  <2>1. pc = "idle" /\ UNCHANGED queues /\ (UNCHANGED reg \/ SocketRem(f, R))
    BY <1>19 DEF UdpClose, StreamTears, Idle
  <2>2. QED
    BY <1>6, <1>7, <1>8, <2>1
<1>20. ASSUME NEW f \in FDs, SsockSet(f) PROVE Announced(l)'
  <2>1. pc = "idle" /\ UNCHANGED queues /\ os[f] = "free" /\ \A g \in FDs \ {f} : reg'[g] = reg[g]
    BY <1>3, <1>20 DEF SsockSet, Idle, Record
  <2>2. QED
    BY <1>6, <2>1
<1>21. ASSUME SsockDel PROVE Announced(l)'
  <2>1. PICK f \in FDs : f = ssock
    BY <1>21, TypeFrame DEF SsockDel, OtherType
  <2>2. pc = "idle" /\ UNCHANGED queues /\ reg' = [reg EXCEPT ![f] = {}]
    BY <1>21, <2>1 DEF SsockDel, Idle, Record
  <2>3. QED
    BY <1>3, <1>6, <2>2
<1>22. ASSUME SsockStopped PROVE Announced(l)'
  <2>1. ssock \in FDs
    BY <1>22, Running, TypeFrame DEF SsockStopped, OtherType
  <2>2. QED
    BY <1>5, <1>22, <2>1 DEF SsockStopped
<1>23. ASSUME NEW f \in FDs, (\E kind \in Files : OpenFile(f, kind)) \/ UdpError(f) PROVE Announced(l)'
  BY <1>2, <1>23 DEF OpenFile, UdpError, Announced
<1>24. ASSUME NEW f \in FDs, CloseFile(f) \/ StreamCloses(f) \/ Reclaim(f) \/ UdpCloses(f) PROVE Announced(l)'
  BY <1>5, <1>24 DEF CloseFile, StreamCloses, Reclaim, UdpCloses, Idle
<1>25. ASSUME NEW f \in FDs, StreamDrops(f) PROVE Announced(l)'
  BY <1>12, <1>25 DEF StreamDrops, Idle
<1>26. ASSUME NEW s \in Servers, StreamsEnd(s) \/ \E f \in FDs : TcpServer(s, f) PROVE Announced(l)'
  <2>1. CASE StreamsEnd(s)
    BY <1>12, <2>1 DEF StreamsEnd, Idle
  <2>2. QED
    BY <1>2, <1>26, <2>1 DEF TcpServer, Announced
<1>27. QED
  BY <1>9, <1>10, <1>11, <1>13, <1>14, <1>15, <1>16, <1>17, <1>18, <1>19, <1>20, <1>21, <1>22, <1>23,
     <1>24, <1>25, <1>26 DEF Next
-----------------------------------------------------------------------------
(***************************************************************************)
(* Servers and their connections.                                          *)
(***************************************************************************)

\* ServerInv by its parts
ServerOwns == \A s \in Servers : server[s].fd # NoFd /\ ~server[s].closed => os[server[s].fd] = "listener"
ServerAlone ==
  \A s, r \in Servers : s # r /\ server[s].fd = server[r].fd /\ server[s].fd # NoFd
                          => server[s].closed \/ server[r].closed
LastClose ==
  \A f \in FDs, s \in Servers : closes[f] = 1 /\ f \notin lsets /\ server[s].fd = f => server[s].closed

\* Every step keeps the sockets of the servers.
LEMMA ServerNext ==
  ASSUME TypeOK, IInv, [Next]_vars
  PROVE  ServerInv'
<1>1. CASE UNCHANGED vars
  BY <1>1 DEF IInv, ServerInv, IsListener, vars, table
<1>2. \A f \in FDs : (IsListener(f) <=> f \in lsets) /\ (IsListener(f)' <=> f \in lsets')
  BY EntryNext DEF IInv, EntryInv
<1> SUFFICES ASSUME Next, pc' # "robbed" PROVE ServerOwns' /\ ServerAlone' /\ LastClose'
  <2>1. ServerOwns' /\ ServerAlone' /\ LastClose' => ServerInv'
    BY <1>2 DEF ServerInv, ServerOwns, ServerAlone, LastClose
  <2>2. pc' = "robbed" => ServerInv'
    BY DEF ServerInv
  <2>3. QED
    BY <1>1, <2>1, <2>2
<1>3. pc # "robbed" /\ ServerOwns /\ ServerAlone /\ LastClose
  BY <1>2, Running DEF IInv, ServerInv, ServerOwns, ServerAlone, LastClose
<1>4. /\ \A g \in FDs : FdInv(g)
      /\ os \in [FDs -> {"free", "file", "regular", "stream", "listener", "udp", "ssock"}]
      /\ closes \in [FDs -> Nat] /\ NoFd \notin FDs
      /\ server \in [Servers -> [fd : FDs \cup {NoFd}, listens : Nat, closed : BOOLEAN, again : BOOLEAN]]
  BY <1>3, FdFacts, TypeFrame, RegistryConstants DEF TableType, ServerType
<1>5. ASSUME UNCHANGED <<server, closes, lsets>>, \A g \in FDs : os[g] = "listener" => os'[g] = "listener"
      PROVE  ServerOwns' /\ ServerAlone' /\ LastClose'
  <2>1. ServerAlone' /\ LastClose'
    BY <1>3, <1>5 DEF ServerAlone, LastClose
  <2>2. ServerOwns'
    BY <1>3, <1>4, <1>5 DEF ServerOwns
  <2>3. QED
    BY <2>1, <2>2
<1> USE DEF table, streams
<1>6. ASSUME NEW f \in FDs, CloseFile(f) \/ StreamCloses(f) \/ UdpCloses(f)
      PROVE  ServerOwns' /\ ServerAlone' /\ LastClose'
  <2>1. os[f] # "listener" /\ CloseFd(f) /\ UNCHANGED <<server, closes, lsets>>
    BY <1>4, <1>6 DEF CloseFile, Files, StreamCloses, UdpCloses, FdInv, Owned
  <2>2. QED
    BY <1>4, <1>5, <2>1 DEF CloseFd
<1>7. ASSUME NEW f \in FDs, Reclaim(f) PROVE ServerOwns' /\ ServerAlone' /\ LastClose'
  <2>1. /\ closes[f] > 0 /\ closes' = [closes EXCEPT ![f] = @ - 1] /\ os' = [os EXCEPT ![f] = "free"]
        /\ os[f] = "free" \/ (closes[f] = 1 /\ ~IsListener(f))
    BY <1>7 DEF Reclaim, After, CloseFd, IsListener
  <2>2. closes[f] = 1 /\ f \notin lsets /\ UNCHANGED <<server, lsets>>
    BY <1>2, <1>4, <1>7, <2>1 DEF FdInv, Owned, Reclaim
  <2>3. ServerOwns'
    BY <1>3, <1>4, <2>1, <2>2 DEF ServerOwns, LastClose
  <2>4. ServerAlone'
    BY <1>3, <2>2 DEF ServerAlone
  <2>5. closes'[f] = 0 /\ \A g \in FDs \ {f} : closes'[g] = closes[g]
    BY <1>4, <2>1, <2>2
  <2>6. LastClose'
    BY <1>3, <2>2, <2>5 DEF LastClose
  <2>7. QED
    BY <2>3, <2>4, <2>6
<1>8. ASSUME NEW s \in Servers, NEW f \in FDs, TcpServer(s, f) PROVE ServerOwns' /\ ServerAlone' /\ LastClose'
  <2>1. /\ server[s].fd = NoFd /\ os[f] = "free" /\ os'[f] = "listener" /\ UNCHANGED <<closes, lsets>>
        /\ \A g \in FDs \ {f} : os'[g] = os[g]
        /\ server'[s].fd = f
        /\ \A r \in Servers : /\ server'[r].closed <=> server[r].closed
                              /\ r # s => server'[r].fd = server[r].fd
        /\ \A r \in Servers : server[r].fd \in FDs \cup {NoFd}
    BY <1>4, <1>8 DEF TcpServer
  <2>2. closes[f] = 0
    BY <1>4, <2>1 DEF FdInv, Owned
  <2>3. \A r \in Servers : server[r].fd = f => server[r].closed
    BY <1>3, <1>4, <2>1 DEF ServerOwns
  <2>4. ServerOwns'
    BY <1>3, <2>1 DEF ServerOwns
  <2>5. ServerAlone'
    BY <1>3, <2>1, <2>3 DEF ServerAlone
  <2>6. LastClose'
    BY <1>3, <2>1, <2>2 DEF LastClose
  <2>7. QED
    BY <2>4, <2>5, <2>6
<1>9. ASSUME NEW s \in Servers, StartServing(s) PROVE ServerOwns' /\ ServerAlone' /\ LastClose'
  <2>1. PICK f \in FDs : f = server[s].fd
    BY <1>9, TypeFrame DEF StartServing, ServerType
  <2>2. \A r \in Servers : server'[r].fd = server[r].fd /\ server'[r].closed = server[r].closed
    <3>1. PICK n, a : server' = [server EXCEPT ![s].listens = n, ![s].again = a]
      BY <1>9 DEF StartServing
    <3>2. QED
      BY <1>4, <3>1
  <2>3. ServerAlone'
    BY <1>3, <2>2 DEF ServerAlone
  <2>4. CASE tcp_listener_add(f) /\ UNCHANGED os
    <3>1. lsets' = lsets \cup {f} /\ \A g \in FDs \ {f} : closes'[g] = closes[g]
      BY <1>4, <2>4 DEF tcp_listener_add, Retired
    <3>2. ServerOwns' /\ LastClose'
      BY <1>3, <2>2, <2>4, <3>1 DEF ServerOwns, LastClose
    <3>3. QED
      BY <2>3, <3>2
  <2>5. CASE os[f] # "listener" /\ CloseFd(f) /\ UNCHANGED <<closes, lsets>>
    <3>1. \A g \in FDs : os[g] = "listener" => os'[g] = "listener"
      BY <1>4, <2>5 DEF CloseFd
    <3>2. ServerOwns'
      BY <1>3, <1>4, <2>2, <3>1 DEF ServerOwns
    <3>3. LastClose'
      BY <1>3, <2>2, <2>5 DEF LastClose
    <3>4. QED
      BY <2>3, <3>2, <3>3
  <2>6. QED
    BY <1>9, <2>1, <2>4, <2>5 DEF StartServing
<1>10. ASSUME NEW s \in Servers, Close(s) PROVE ServerOwns' /\ ServerAlone' /\ LastClose'
  <2>1. PICK f \in FDs : f = server[s].fd
    BY <1>10, TypeFrame DEF Close, ServerType
  <2>2. /\ ~server[s].closed /\ UNCHANGED os /\ Retired(f) /\ lsets' = lsets \ Removed({f})
        /\ \A r \in Servers : server'[r].fd = server[r].fd /\ server'[r].closed = (server[r].closed \/ r = s)
    BY <1>4, <1>10, <2>1 DEF Close, DropStreams
  <2>3. /\ \A g \in FDs \ {f} : closes'[g] = closes[g] /\ (g \in lsets' <=> g \in lsets)
        /\ f \notin lsets' /\ (f \notin lsets => closes'[f] = closes[f])
    BY <1>2, <1>4, <2>2 DEF Retired, Removed, IsListener
  <2>4. \A r \in Servers : server[r].fd = f => server[r].closed \/ r = s
    BY <1>3, <1>4, <2>1, <2>2 DEF ServerAlone
  <2>5. ServerOwns' /\ ServerAlone'
    BY <1>3, <2>2 DEF ServerOwns, ServerAlone
  <2>6. LastClose'
    BY <1>3, <2>2, <2>3, <2>4 DEF LastClose
  <2>7. QED
    BY <2>5, <2>6
<1>11. ASSUME NEW f \in FDs, SsockSet(f) \/ (\E l \in FDs : AcceptOne(l, f))
       PROVE  ServerOwns' /\ ServerAlone' /\ LastClose'
  <2>1. /\ os[f] = "free" /\ UNCHANGED <<server, lsets>> /\ (Retired(f) \/ UNCHANGED closes)
        /\ os' = os \/ \E k : os' = [os EXCEPT ![f] = k]
    BY <1>11 DEF SsockSet, AcceptOne
  <2>2. UNCHANGED closes
    BY <1>4, <2>1 DEF Retired, FdInv, Owned, IsListener
  <2>3. QED
    BY <1>4, <1>5, <2>1, <2>2
<1>12. ASSUME SsockDel PROVE ServerOwns' /\ ServerAlone' /\ LastClose'
  <2>1. PICK f \in FDs : f = ssock
    BY <1>12, TypeFrame DEF SsockDel, OtherType
  <2>2. os[f] = "ssock" /\ os' = [os EXCEPT ![f] = "free"] /\ UNCHANGED <<server, closes, lsets>>
    BY <1>4, <1>12, <2>1 DEF SsockDel, Idle, FdInv, Owned
  <2>3. QED
    BY <1>4, <1>5, <2>2
<1>13. ASSUME SsockStopped PROVE ServerOwns' /\ ServerAlone' /\ LastClose'
  <2>1. PICK f \in FDs : f = ssock
    BY <1>13, Running, TypeFrame DEF SsockStopped, OtherType
  <2>2. os[f] = "free" /\ os' = [os EXCEPT ![f] = "free"] /\ UNCHANGED <<server, closes, lsets>>
    BY <1>13, <2>1 DEF SsockStopped, After, CloseFd
  <2>3. QED
    BY <1>4, <1>5, <2>2
<1>14. ASSUME NEW f \in FDs, (\E kind \in Files : OpenFile(f, kind)) \/ TcpConn(f) \/ UdpConn(f)
       PROVE  ServerOwns' /\ ServerAlone' /\ LastClose'
  <2>1. os[f] = "free" /\ UNCHANGED <<server, closes, lsets>> /\ \E k : os' = [os EXCEPT ![f] = k]
    BY <1>14 DEF OpenFile, TcpConn, UdpConn
  <2>2. QED
    BY <1>4, <1>5, <2>1
<1>15. ASSUME NEW f \in FDs, \/ StreamDrops(f) \/ StreamTears(f) \/ Connect(f) \/ Event(f) \/ AcceptEnds(f)
                             \/ UdpClose(f) \/ UdpError(f)
                             \/ \E i \in {R, W} : \/ AddCallback(f, i) \/ RemoveCallback(f, i)
                                                  \/ StreamAdds(f, i) \/ StreamRems(f, i)
       PROVE  ServerOwns' /\ ServerAlone' /\ LastClose'
  <2>1. UNCHANGED <<os, server, closes, lsets>>
    BY <1>15 DEF StreamDrops, StreamTears, DropStreams, Removed, Connect, Event, AcceptEnds, UdpClose, UdpError, AddCallback,
                 RemoveCallback, StreamAdds, StreamRems
  <2>2. QED
    BY <1>5, <2>1
<1>16. ASSUME NEW s \in Servers, StreamsEnd(s) PROVE ServerOwns' /\ ServerAlone' /\ LastClose'
  <2>1. UNCHANGED <<os, server, closes, lsets>>
    BY <1>16 DEF StreamsEnd, DropStreams, Removed
  <2>2. QED
    BY <1>5, <2>1
<1>17. QED
  BY <1>6, <1>7, <1>8, <1>9, <1>10, <1>11, <1>12, <1>13, <1>14, <1>15, <1>16 DEF Next

\* StreamInv by its parts
ClosedHasFd == \A s \in Servers : server[s].closed => server[s].fd # NoFd
SetsLive == \A l \in FDs : l \in lsets => LiveServer(l)
TransportsLive == \A f \in FDs : tcp_transports[f] \in FDs => LiveServer(tcp_transports[f])
KnownBound == \A l, f \in FDs : <<l, f>> \in lstreams /\ <<l, f>> \notin torn => tcp_transports[f] = l
Once(l) == \A s \in Servers : server[s].fd = l => ~server[s].again
BoundKnown == \A l \in FDs : Once(l) => \A f \in FDs : tcp_transports[f] = l => <<l, f>> \in lstreams

\* Every step keeps the connections with their servers.
LEMMA StreamNext ==
  ASSUME TypeOK, IInv, [Next]_vars
  PROVE  StreamInv'
<1>1. CASE UNCHANGED <<streams, server>>
  BY <1>1 DEF IInv, StreamInv, LiveServer, streams
<1>2. /\ StreamInv <=> ClosedHasFd /\ SetsLive /\ TransportsLive /\ KnownBound /\ BoundKnown
      /\ StreamInv' <=> (ClosedHasFd /\ SetsLive /\ TransportsLive /\ KnownBound /\ BoundKnown)'
  BY DEF StreamInv, ClosedHasFd, SetsLive, TransportsLive, KnownBound, BoundKnown, Once
<1>3. ClosedHasFd /\ SetsLive /\ TransportsLive /\ KnownBound /\ BoundKnown
  BY <1>2 DEF IInv
<1>4. CASE UNCHANGED vars
  BY <1>1, <1>4 DEF vars
<1> SUFFICES ASSUME Next PROVE StreamInv'
  BY <1>4
<1>5. /\ pc # "robbed" /\ \A g \in FDs : FdInv(g)
      /\ NoFd \notin FDs /\ "none" \notin FDs
      /\ tcp_transports \in [FDs -> FDs \cup {NoFd, "none"}] /\ lstreams \subseteq FDs \X FDs
      /\ server \in [Servers -> [fd : FDs \cup {NoFd}, listens : Nat, closed : BOOLEAN, again : BOOLEAN]]
  BY Running, FdFacts, TypeFrame, RegistryConstants DEF StreamType, ServerType
<1>6. \A f \in FDs : os[f] = "free" => tcp_transports[f] = "none"
  BY <1>5 DEF FdInv, Owned
<1>7. \A l \in FDs : l \in lsets <=> IsListener(l)
  BY DEF IInv, EntryInv
<1> USE DEF streams
<1>8. ASSUME NEW f \in FDs, TcpConn(f) PROVE StreamInv'
  <2>1. /\ tcp_transports[f] = "none" /\ tcp_transports'[f] = NoFd /\ UNCHANGED <<lsets, lstreams, torn, server>>
        /\ \A g \in FDs \ {f} : tcp_transports'[g] = tcp_transports[g]
    BY <1>5, <1>6, <1>8 DEF TcpConn
  <2>2. ClosedHasFd' /\ SetsLive'
    BY <1>3, <2>1 DEF ClosedHasFd, SetsLive, LiveServer
  <2>3. TransportsLive'
    BY <1>3, <1>5, <2>1 DEF TransportsLive, LiveServer
  <2>4. KnownBound' /\ BoundKnown'
    BY <1>3, <1>5, <2>1 DEF KnownBound, BoundKnown, Once
  <2>5. QED
    BY <1>2, <2>2, <2>3, <2>4
<1>9. ASSUME NEW S, NEW L, NEW X \in SUBSET FDs, DropStreams(S, L, X)
      PROVE  /\ \A f \in FDs : tcp_transports'[f] = IF f \in S THEN "none" ELSE tcp_transports[f]
             /\ lsets' = {l \in lsets : l \notin X}
             /\ \A l, f \in FDs : <<l, f>> \in lstreams' <=>
                  /\ <<l, f>> \in lstreams /\ (f \notin S \/ tcp_transports[f] # l)
                  /\ ~(l \in X /\ IsListener(l))
             /\ torn' = torn \cap lstreams'
  <2>1. Removed(X) = {l \in X : IsListener(l)}
    BY DEF Removed, IsListener
  <2>2. lsets' = {l \in lsets : l \notin X}
    BY <1>7, <1>9, <2>1, TypeFrame DEF DropStreams, StreamType
  <2>3. \A l, f \in FDs : <<l, f>> \in lstreams' <=>
          <<l, f>> \in Forget(S) /\ l \notin Removed(X)
    BY <1>9 DEF DropStreams
  <2>4. \A l, f \in FDs : <<l, f>> \in Forget(S) <=>
          <<l, f>> \in lstreams /\ (f \notin S \/ tcp_transports[f] # l)
    BY DEF Forget
  <2>5. QED
    BY <1>9, <2>1, <2>2, <2>3, <2>4 DEF DropStreams
<1>10. ASSUME NEW S, NEW L, DropStreams(S, L, {}), UNCHANGED server PROVE StreamInv'
  <2>1. /\ \A f \in FDs : tcp_transports'[f] = IF f \in S THEN "none" ELSE tcp_transports[f]
        /\ lsets' = {l \in lsets : l \notin {}}
        /\ \A l, f \in FDs : <<l, f>> \in lstreams' <=>
             <<l, f>> \in lstreams /\ (f \notin S \/ tcp_transports[f] # l)
        /\ torn' = torn \cap lstreams'
    BY <1>9, <1>10
  <2>2. ClosedHasFd' /\ SetsLive'
    BY <1>3, <1>10, <2>1 DEF ClosedHasFd, SetsLive, LiveServer
  <2>3. TransportsLive'
    BY <1>3, <1>5, <1>10, <2>1 DEF TransportsLive, LiveServer
  <2>4. KnownBound' /\ BoundKnown'
    BY <1>3, <1>5, <1>10, <2>1 DEF KnownBound, BoundKnown, Once
  <2>5. QED
    BY <1>2, <2>2, <2>3, <2>4
<1>11. ASSUME NEW s \in Servers, Close(s) PROVE StreamInv'
  <2>1. PICK m \in FDs : m = server[s].fd
    BY <1>5, <1>11 DEF Close
  <2>2. PICK L : DropStreams(Streams(s), L, {m})
    BY <1>11, <2>1 DEF Close
  <2>3. /\ \A f \in FDs : tcp_transports'[f] = IF f \in Streams(s) THEN "none" ELSE tcp_transports[f]
        /\ lsets' = {l \in lsets : l \notin {m}}
        /\ \A l, f \in FDs : <<l, f>> \in lstreams' <=>
             /\ <<l, f>> \in lstreams /\ (f \notin Streams(s) \/ tcp_transports[f] # l)
             /\ ~(l \in {m} /\ IsListener(l))
        /\ torn' = torn \cap lstreams'
    BY <1>9, <2>2
  <2>4. /\ \A r \in Servers : /\ server'[r].fd = server[r].fd /\ server'[r].listens = server[r].listens
                              /\ server'[r].again = server[r].again /\ (r # s => server'[r] = server[r])
        /\ ~server[s].closed
    BY <1>5, <1>11 DEF Close
  <2>5. \A l \in FDs : l # m /\ LiveServer(l) => LiveServer(l)'
    BY <2>1, <2>4 DEF LiveServer
  <2>6. \A l \in FDs : Once(l)' <=> Once(l)
    BY <2>4 DEF Once
  <2>7. \A f \in FDs : f \in Streams(s) <=> tcp_transports[f] # "none" /\ <<m, f>> \in lstreams
    BY <2>1 DEF Streams, Bound
  <2>8. ~Once(m) => LiveServer(m)'
    BY <2>4 DEF Once, LiveServer
  <2>9. \A f \in FDs : tcp_transports'[f] = m => ~Once(m)
    BY <1>3, <1>5, <2>3, <2>7 DEF BoundKnown
  <2>10. ClosedHasFd'
    BY <1>3, <1>5, <2>1, <2>4 DEF ClosedHasFd
  <2>11. SetsLive'
    BY <1>3, <2>3, <2>5 DEF SetsLive
  <2>12. TransportsLive'
    <3> SUFFICES ASSUME NEW f \in FDs, NEW l \in FDs, l = tcp_transports'[f] PROVE LiveServer(l)'
      BY DEF TransportsLive, LiveServer
    <3>1. tcp_transports[f] = l
      BY <1>5, <2>3
    <3>2. LiveServer(l)
      BY <1>3, <3>1 DEF TransportsLive
    <3>3. QED
      BY <2>5, <2>8, <2>9, <3>2
  <2>13. KnownBound'
    BY <1>3, <2>3 DEF KnownBound
  <2>14. BoundKnown'
    BY <1>3, <1>5, <2>3, <2>6, <2>9 DEF BoundKnown
  <2>15. QED
    BY <1>2, <2>10, <2>11, <2>12, <2>13, <2>14
<1>12. ASSUME NEW s \in Servers, NEW f \in FDs, TcpServer(s, f) PROVE StreamInv'
  <2>1. /\ UNCHANGED streams /\ server[s].fd = NoFd /\ server'[s].fd = f
        /\ \A r \in Servers : r # s => server'[r] = server[r]
    BY <1>5, <1>12 DEF TcpServer
  <2>2. \A l \in FDs : (LiveServer(l) => LiveServer(l)') /\ (Once(l)' => Once(l))
    BY <1>5, <2>1 DEF LiveServer, Once
  <2>3. ClosedHasFd'
    BY <1>3, <1>5, <2>1 DEF ClosedHasFd
  <2>4. SetsLive' /\ KnownBound' /\ BoundKnown'
    BY <1>3, <2>1, <2>2 DEF SetsLive, KnownBound, BoundKnown
  <2>5. TransportsLive'
    <3> SUFFICES ASSUME NEW g \in FDs, NEW l \in FDs, l = tcp_transports'[g] PROVE LiveServer(l)'
      BY DEF TransportsLive, LiveServer
    <3>1. QED
      BY <1>3, <2>1, <2>2 DEF TransportsLive
  <2>6. QED
    BY <1>2, <2>3, <2>4, <2>5
<1>13. ASSUME NEW s \in Servers, StartServing(s) PROVE StreamInv'
  <2>1. PICK m \in FDs : m = server[s].fd
    BY <1>5, <1>13 DEF StartServing
  <2>2. /\ \A r \in Servers : /\ server'[r].fd = server[r].fd /\ (server'[r].closed <=> server[r].closed)
                              /\ r # s => server'[r] = server[r]
        /\ server'[s].listens = server[s].listens + 1 /\ server[s].listens \in Nat
        /\ server'[s].again <=> server[s].again \/ server[s].closed \/ server[s].listens > 0
    <3> DEFINE n == server[s].listens + 1
               a == server[s].again \/ server[s].closed \/ server[s].listens > 0
    <3>1. server' = [server EXCEPT ![s].listens = n, ![s].again = a] /\ server[s].listens \in Nat
      BY <1>5, <1>13 DEF StartServing
    <3>2. server'[s].again = a /\ server'[s].listens = n
      <4> HIDE DEF n, a
      <4>1. QED
        BY <1>5, <3>1
    <3>3. \A r \in Servers : /\ server'[r].fd = server[r].fd /\ server'[r].closed = server[r].closed
                             /\ r # s => server'[r] = server[r]
      <4> HIDE DEF n, a
      <4>1. QED
        BY <1>5, <3>1
    <3>4. QED
      BY <3>1, <3>2, <3>3
  <2>3. \A l \in FDs : (LiveServer(l) => LiveServer(l)') /\ (Once(l)' => Once(l))
    BY <2>2 DEF LiveServer, Once
  <2>4. LiveServer(m)'
    BY <2>1, <2>2 DEF LiveServer
  <2>5. ClosedHasFd'
    BY <1>3, <2>2 DEF ClosedHasFd
  <2>6. CASE UNCHANGED streams
    <3>1. SetsLive' /\ KnownBound' /\ BoundKnown'
      BY <1>3, <2>3, <2>6 DEF SetsLive, KnownBound, BoundKnown
    <3>2. TransportsLive'
      <4> SUFFICES ASSUME NEW g \in FDs, NEW l \in FDs, l = tcp_transports'[g] PROVE LiveServer(l)'
        BY DEF TransportsLive, LiveServer
      <4>1. QED
        BY <1>3, <2>3, <2>6 DEF TransportsLive
    <3>3. QED
      BY <1>2, <2>5, <3>1, <3>2
  <2>7. CASE tcp_listener_add(m) /\ UNCHANGED tcp_transports
    <3>1. /\ lsets' = lsets \cup {m} /\ torn' = torn \cap lstreams'
          /\ \A l, f \in FDs : <<l, f>> \in lstreams' <=> <<l, f>> \in lstreams /\ l # m
      BY <2>7 DEF tcp_listener_add
    <3>2. SetsLive'
      BY <1>3, <2>3, <2>4, <3>1 DEF SetsLive
    <3>3. TransportsLive'
      <4> SUFFICES ASSUME NEW g \in FDs, NEW l \in FDs, l = tcp_transports'[g] PROVE LiveServer(l)'
        BY DEF TransportsLive, LiveServer
      <4>1. QED
        BY <1>3, <2>3, <2>7 DEF TransportsLive
    <3>4. KnownBound'
      BY <1>3, <2>7, <3>1 DEF KnownBound
    <3>5. Once(m)' => ~LiveServer(m)
      <4>1. SUFFICES ASSUME Once(m)' PROVE ~LiveServer(m)
        OBVIOUS
      <4>2. ~server[s].again /\ ~server[s].closed /\ ~(server[s].listens > 0) /\ Once(m)
        BY <2>1, <2>2, <2>3, <4>1 DEF Once
      <4>3. \A r \in Servers : r # s /\ server[r].fd = m => server[r].closed
        BY <1>5, <2>1, <4>2 DEF IInv, ServerInv
      <4>4. QED
        BY <4>2, <4>3 DEF LiveServer, Once
    <3>6. BoundKnown'
      BY <1>3, <2>3, <2>7, <3>1, <3>5 DEF BoundKnown, TransportsLive
    <3>7. QED
      BY <1>2, <2>5, <3>2, <3>3, <3>4, <3>6
  <2>8. QED
    BY <1>13, <2>1, <2>6, <2>7 DEF StartServing
<1>14. ASSUME NEW l \in FDs, NEW f \in FDs, AcceptOne(l, f) PROVE StreamInv'
  <2>1. pc = l /\ os[f] = "free" /\ UNCHANGED <<lsets, server>>
    BY <1>14 DEF AcceptOne
  <2>2. CASE UNCHANGED <<tcp_transports, lstreams, torn>>
    BY <1>1, <2>1, <2>2
  <2>3. CASE /\ tcp_transports' = [tcp_transports EXCEPT ![f] = l]
             /\ lstreams' = lstreams \cup {<<l, f>>} /\ torn' = torn \ {<<l, f>>}
    <3>1. tcp_transports[f] = "none" /\ LiveServer(l)
      BY <1>3, <1>5, <1>6, <1>7, <2>1 DEF FdInv, Watched, SetsLive
    <3>2. ClosedHasFd' /\ SetsLive'
      BY <1>3, <2>1 DEF ClosedHasFd, SetsLive, LiveServer
    <3>3. /\ \A g \in FDs : tcp_transports'[g] = IF g = f THEN l ELSE tcp_transports[g]
          /\ \A m, g \in FDs : <<m, g>> \in lstreams' <=> <<m, g>> \in lstreams \/ (m = l /\ g = f)
          /\ \A m, g \in FDs : <<m, g>> \in torn' <=> <<m, g>> \in torn /\ ~(m = l /\ g = f)
      BY <1>5, <2>3
    <3>4. TransportsLive'
      BY <1>3, <2>1, <3>1, <3>3 DEF TransportsLive, LiveServer
    <3>5. KnownBound' /\ BoundKnown'
      BY <1>3, <1>5, <2>1, <3>1, <3>3 DEF KnownBound, BoundKnown, Once
    <3>6. QED
      BY <1>2, <3>2, <3>4, <3>5
  <2>4. QED
    BY <1>14, <2>2, <2>3 DEF AcceptOne
<1>20. ASSUME NEW f \in FDs, StreamTears(f) PROVE StreamInv'
  <2>1. /\ tcp_transports'[f] = "none" /\ UNCHANGED <<lsets, lstreams, server>>
        /\ \A g \in FDs \ {f} : tcp_transports'[g] = tcp_transports[g]
        /\ \A l, g \in FDs : <<l, g>> \in torn' <=>
             <<l, g>> \in torn \/ (<<l, g>> \in lstreams /\ g = f /\ l = tcp_transports[f])
    BY <1>5, <1>20 DEF StreamTears
  <2>2. ClosedHasFd' /\ SetsLive'
    BY <1>3, <2>1 DEF ClosedHasFd, SetsLive, LiveServer
  <2>3. TransportsLive'
    BY <1>3, <1>5, <2>1 DEF TransportsLive, LiveServer
  <2>4. KnownBound'
    BY <1>3, <2>1 DEF KnownBound
  <2>5. BoundKnown'
    BY <1>3, <1>5, <2>1 DEF BoundKnown, Once
  <2>6. QED
    BY <1>2, <2>2, <2>3, <2>4, <2>5
<1>15. ASSUME NEW f \in FDs, StreamDrops(f) PROVE StreamInv'
  BY <1>10, <1>15 DEF StreamDrops
<1>16. ASSUME NEW s \in Servers, StreamsEnd(s) PROVE StreamInv'
  BY <1>10, <1>16 DEF StreamsEnd
<1>17. ASSUME NEW f \in FDs, \/ (\E kind \in Files : OpenFile(f, kind)) \/ CloseFile(f) \/ StreamCloses(f) \/ Reclaim(f) \/ Connect(f)
                             \/ Event(f) \/ AcceptEnds(f) \/ UdpConn(f) \/ UdpClose(f) \/ UdpError(f)
                             \/ UdpCloses(f) \/ SsockSet(f)
                             \/ \E i \in {R, W} : \/ AddCallback(f, i) \/ RemoveCallback(f, i)
                                                  \/ StreamAdds(f, i) \/ StreamRems(f, i)
       PROVE  StreamInv'
  <2>1. UNCHANGED <<streams, server>>
    BY <1>17 DEF OpenFile, CloseFile, StreamCloses, Reclaim, Connect, Event, AcceptEnds, UdpConn, UdpClose, UdpError,
                 UdpCloses, SsockSet, AddCallback, RemoveCallback, StreamAdds, StreamRems
  <2>2. QED
    BY <1>1, <2>1
<1>18. ASSUME SsockDel \/ SsockStopped PROVE StreamInv'
  BY <1>1, <1>18 DEF SsockDel, SsockStopped
<1>19. QED
  BY <1>8, <1>11, <1>12, <1>13, <1>14, <1>15, <1>16, <1>17, <1>18, <1>20 DEF Next
-----------------------------------------------------------------------------
(***************************************************************************)
(* The theorems.                                                           *)
(***************************************************************************)

\* The types and the inductive invariant hold always.
LEMMA RegistryAlways == Spec => [](TypeOK /\ IInv)
<1>1. Init => TypeOK /\ IInv
  <2> SUFFICES ASSUME Init PROVE TypeOK /\ IInv
    OBVIOUS
  <2>1. NoFd \notin FDs /\ "idle" \notin FDs /\ "none" \notin FDs /\ NoFd # "none" /\ MaxBacklog \in Nat
    BY RegistryConstants
  <2>2. None \in Entries /\ None.kind = "none" /\ None.interest = {} /\ {} \in Interests
    BY EntryFacts
  <2>3. TypeOK
    <3>1. TableType /\ StreamType /\ OtherType /\ QueueType
      BY <2>1, <2>2 DEF Init, TableType, StreamType, OtherType, QueueType
    <3>2. ServerType
      BY DEF Init, ServerType
    <3>3. QED
      BY <3>1, <3>2, TypeParts
  <2>4. EntryInv /\ PolledAsRecorded
    BY <2>2 DEF Init, EntryInv, IsListener, PolledAsRecorded
  <2>5. TableInv /\ BacklogAnnounced
    BY <2>1, <2>2 DEF Init, TableInv, Owned, Watched, IsListener, BacklogAnnounced
  <2>6. ServerInv /\ StreamInv
    BY <2>1, <2>2 DEF Init, ServerInv, StreamInv, LiveServer
  <2>7. QED
    BY <2>3, <2>4, <2>5, <2>6 DEF IInv
<1>2. TypeOK /\ IInv /\ [Next]_vars => (TypeOK /\ IInv)'
  BY NextTypes, EntryNext, TableNext, ServerNext, StreamNext, BacklogNext DEF IInv
<1>3. QED
  BY <1>1, <1>2, PTL DEF Spec

\* The state has its type: the kinds of entries, the interests and the numbers
\* that handles_io, the poller and the servers hold stay in their domains.
THEOREM TypeCorrect == Spec => []TypeOK
BY RegistryAlways, PTL

\* The poller watches what handles_io records, for every number whose last
\* owner took its entry along: add_reader, add_writer, the streams, the UDP
\* sockets and the listeners keep the two in step however they interleave with
\* the reuse of numbers.
THEOREM PollerInStep == Spec => []PolledAsRecorded
<1>1. IInv => PolledAsRecorded
  BY DEF IInv
<1>2. QED
  BY <1>1, RegistryAlways, PTL

\* A connection that waits at a listener the poller watches is announced, or
\* the listener gave up on it in handle_io_tcpl.
THEOREM BacklogsAnnounced == Spec => []BacklogAnnounced
<1>1. IInv => BacklogAnnounced
  BY DEF IInv
<1>2. QED
  BY <1>1, RegistryAlways, PTL

\* tcp_lstreams holds streams that are bound and were accepted by the listener
\* it lists them under, but for the ones left there by a tcp_stream_close that
\* panicked after a failed write, and all of them unless the server was started
\* again.
THEOREM ConnectionsTracked == Spec => []StreamsTracked
<1>1. TypeOK /\ IInv => StreamsTracked
  <2> SUFFICES ASSUME TypeOK, IInv PROVE StreamsTracked
    OBVIOUS
  <2>1. lsets \subseteq FDs /\ "none" \notin FDs /\ \A l \in FDs : IsListener(l) => l \in lsets
    BY TypeFrame, RegistryConstants DEF StreamType, IInv, EntryInv
  <2>2. StreamInv
    BY DEF IInv
  <2>3. QED
    BY <2>1, <2>2 DEF StreamInv, StreamsTracked, Bound, IsListener
<1>2. QED
  BY <1>1, RegistryAlways, PTL

\* A server that was closed, and not started again, has neither a connection
\* nor an entry: _close finds every stream that was accepted for it.
THEOREM ServersEnd == Spec => []ServerEnds
<1>1. TypeOK /\ IInv => ServerEnds
  <2> SUFFICES ASSUME TypeOK, IInv, NEW s \in Servers, server[s].closed, ~server[s].again,
                      \A r \in Servers \ {s} : server[r].fd # server[s].fd
               PROVE  /\ server[s].fd \notin lsets /\ handles_io[server[s].fd].kind # "TCPListener"
                      /\ \A f \in FDs : tcp_transports[f] # server[s].fd
    BY DEF ServerEnds
  <2>1. PICK l \in FDs : l = server[s].fd
    BY TypeFrame DEF ServerType, IInv, StreamInv
  <2>2. ~LiveServer(l)
    BY <2>1 DEF LiveServer
  <2>3. QED
    BY <2>1, <2>2 DEF IInv, EntryInv, IsListener, StreamInv
<1>2. QED
  BY <1>1, RegistryAlways, PTL
=============================================================================
