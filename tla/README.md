# TLA+ models of rloop and TokioLoop

The repository is an asyncio event loop written in Rust with a Python shell. It
holds two loops: **RLoop**, built on mio, and **TokioLoop**, built on tokio. This
directory models the parts of both that carry concurrency, ordering and failure,
checks them with TLC on small instances, and proves with TLAPS, for every instance,
the safety properties of both loops, of their TCP transports and of RLoop's tables.

## 1. Inventory

| Component | State | Operations | Who touches it |
|---|---|---|---|
| RLoop core (`src/event_loop.rs`, `time.rs`, `handles.rs`) | `handles_ready`, `counter_ready`, `handles_sched`, `idle`, `stopping`, the locals of `step` | `_run`, `step`, `call_soon`, `call_soon_threadsafe`, `_call_later`, `schedule*`, `wake` | the loop thread; any thread that schedules |
| RLoop signals (`event_loop.rs`, `rloop/loop.py`) | self-socket, `sig_handlers`, `sig_loop_handled` | `_signals_resume/_pause`, `_sig_add`, `handle_io_signals`, `sig_handle` | C signal handler, loop thread |
| RLoop I/O registry (`event_loop.rs`) | `handles_io` and the registrations of mio | `add_reader/writer`, `remove_*`, `tcp_stream_add/rem`, `udp_socket_*` | loop thread, transports |
| RLoop TCP (`tcp.rs`, `server.rs`) | transport flags, write buffer, TLS session, `tcp_lstreams` | read and write handles, `close`, `abort`, `write_eof`, pause and resume, listener | loop thread |
| RLoop UDP (`udp.rs`) | write buffer, closing flag | read and write handles, `sendto`, `close`, `abort` | loop thread |
| TokioLoop core (`tokio_event_loop.rs`) | scheduler channel, the loop task's `current_handles` and `delayed_tasks`, `stopping`, `io_callbacks` | `_run`, `schedule_handle`, `call_*`, `add_reader/writer`, `_stop` | loop task, other threads |
| TokioLoop signals | `signal_socket` channel, `sig_listening`, one reader task per run | `_ssock_set`, `_ssock_del`, the signal branch of `select!` | reader task, loop task |
| TokioLoop TCP transport (`tokio_tcp.rs`) | atomic flags and the same flags under a mutex, write buffer | `io_processing_loop`, `attach`, the transport methods | I/O task, loop task |
| TokioLoop TCP server | `closed`, the list of transports | `start_listening`, `close` | listener task, loop task |
| Lifecycle, sockets, subprocesses (`rloop/*.py`) | executor, child watchers, socket futures | `run_until_complete`, `sock_*`, `subprocess_*` | loop thread, executors |

How they interact: Python code calls into the loop from callbacks (loop thread,
GIL held), from other threads (`call_soon_threadsafe`) and, in TokioLoop, from the
worker threads of tokio, where the protocol callbacks run. The kernel reaches the
loop through readiness edges and through the byte that the C signal handler writes
into the self-socket.

What is hard: the sleep and wake-up protocol between `counter_ready`, `idle` and
the waker; a counter that is changed after the queue it counts; events left over
from an earlier poll; interrupted polls; `select!`, which picks among ready
branches at random and drops the futures of the others; locals that vanish when a
run ends; flags that are kept twice; edge-triggered readiness, which is announced
once; descriptor numbers that are reused while tables still know them; sockets
that have two owners. `PROJECT.json` lists each hazard at its line.

What makes each component correct: no callback is lost, run twice or out of order;
the loop sleeps only when it has nothing to do and no longer than to its first
timer; stop ends a run promptly; every readiness edge and every signal is
delivered; a transport sends the bytes it was given in order and calls its
protocol in the order asyncio prescribes; what the poller watches is what the
tables say; nothing waits behind an edge that was already used up; a server that is
closed leaves no connection behind.

## 2. Modules

| Module | Models |
|---|---|
| `EventLoop` | the RLoop core and its signals |
| `MCEventLoop`, `EventLoop_*.cfg` | instances for TLC |
| `EventLoopProofs` | theorems about `EventLoop`: types, sleep and wake-up, edges, stop |
| `EventLoopOrderProofs` | more of them: order of callbacks and timers, `counter_ready` |
| `TokioLoop` | the TokioLoop core and its signals |
| `MCTokioLoop`, `TokioLoop_*.cfg` | instances for TLC |
| `TokioLoopProofs` | theorems about `TokioLoop` |
| `StreamProtocol` | abstract: the calls a stream transport makes to its protocol |
| `TokioTCPTransport` | the TCP transport of TokioLoop; it implements `StreamProtocol` |
| `MCTokioTCPTransport`, `TokioTCP_*.cfg` | instances for TLC |
| `TokioTCPTransportProofs` | theorems about `TokioTCPTransport`, the refinement included |
| `TCPTransport` | a TCP transport of RLoop, plain or TLS, with its handles, its entry in the poller, the kernel and the peer |
| `MCTCPTransport`, `TCP_*.cfg` | instances for TLC |
| `TCPTransportProofs` | theorems about `TCPTransport` |
| `IORegistry` | `handles_io`, `tcp_transports`, `tcp_lstreams`, `udp_transports`, the servers and the self-socket over a table of descriptors |
| `MCIORegistry`, `IORegistry.cfg` | instance for TLC |
| `IORegistryProofs` | theorems about `IORegistry` |

`PROJECT.json` maps every definition to the lines it translates. The definitions
with a comment that begins with "mutation", and those named after the definition
that follows them (`IsFirstMaxHeap` before `IsFirst`), are deliberate faults:
replacing the definition by its faulty form must violate the property that
`PROJECT.json` pairs it with.

### EventLoop

One action per atomic piece of `step()`: the load of `counter_ready`, the look at
the first timer, the store of `idle`, the poll, the withdrawal of `idle`, taking
the GIL again, the swap of the queue, the subtraction, the collection of events,
signals and due timers, and each callback. Between two of them other threads run.
`GIL` chooses the build: with it a caller keeps the lock for its whole native
call; without it (the extension is declared `gil_used = false`, and the public
Rust functions `schedule*` attach only to build the handle) a push, its
`fetch_add` and its `wake()` are three separate steps, and so are the look at the
clock, the push and the `wake()` of a thread that adds a timer (`ThreadLater`,
`ThreadPush`, `ThreadWake`). `CallLater`, on the thread of the loop, is one step:
nothing between its two halves looks at the heap.

Abstractions: a handle is one call of `call_soon` or `call_later`; a source is a
descriptor with a reader callback; time is counted in ticks, of which
`SkipWindow` stand for the 250 microseconds within which polls are skipped.
`wake()` (a load and a write to an eventfd) is one step: the write only ever adds
a wake-up. `Events::with_capacity(128)` is taken to be large enough. A poll fails
only with EINTR; other errors leave `_run` with an exception at once. The branch
of `sig_handle` for a cancelled handler is not reachable, since nobody is given
the handle. `run_forever` is called on the main thread.

### TokioLoop

The loop task is `select`, one of its branches, and the test of `stopping`. The
branches follow `_run`; `RunEnd` drops the locals of the task and runs
`_run_forever_post`. Each run has a self-socket and a reader task of its own. The
reader calls `dup()` when it first runs: if the run is over, the number is either
free (`"done"`) or that of some other file (`"astray"`; what such a reader does to
that file is not followed). It keeps a copy of the write end, so it never sees the
end of its socket. `check_signals()` has no effect off the main thread. A callback
that fails is logged and returns like any other.

### TokioTCPTransport

The I/O task, with the write future of `select!` as explicit state (`wstate`,
`writing`, `shutting`): it is polled once, writes as far as the send buffer
allows, and is dropped if another branch wins. Every method is two steps, the
atomic flag and the locked state; the I/O task looks at the locked state between
them in any build, another method only in a free-threaded one. Bytes are numbered
in the order they are written. `LoopThread` stands for the thread that runs
`attach` (the loop, or the listener task) and for the loop's callbacks.

### TCPTransport

One transport from its creation to its end. RLoop runs everything on one thread;
what interleaves are the handles of a batch, the methods that protocol callbacks
call at any point where Python runs (`InPython`), the kernel and the peer. `pc`
says which handle is in progress and inside which callback it waits, so that every
method can be called in the middle of a read or a write. `t` holds the fields of
`TCPTransport` and its state, `io` the entry of `handles_io` and whether the
descriptor is on the ready list of the poller (`armed`). A change of the interest
puts a ready descriptor on that list again, as `EPOLL_CTL_MOD` does, and the poll
takes it off: this is what edge-triggered means here, and `handle_io_tcps` then
chooses one handle.

Bytes are numbered in the order they are written. In the output 0 is a flight of the
TLS handshake and -1 the close alert; in the input there are data, flights and
alerts. rustls is what the transport can see of it: flights to send, `wants_write`,
the end of the handshake, decrypted data, a close alert, and its limits. Its writer
takes bytes until `TlsLimit` records are held and then fails (64 KiB); one
`write_tls` hands out at most `TlsChunks` records (64); one `read_tls` takes some of
what was read (about 4 KiB), and `recv_direct` drops the rest (`ReadTls`). A read
may fill `read_buf` at any point of the input. Two histories say that a limit was
reached: `tls_missed`, input was read that rustls did not get, and `tls_full`,
rustls refused bytes or kept records behind a `write_tls`. A BufferedProtocol takes
`recv_buffered` also over TLS, and is given the bytes of the socket (`Raw`). The
peer follows TLS 1.2, which has the most flights. A direct write of `try_write` may
be refused (EWOULDBLOCK, EINTR) although there is room. A reset makes one call fail,
and later reads find the end. `pause_writing` is called with the state borrowed, so
methods called from it panic; they are not called from there. A direct write that
fails panics as well, after `connection_lost` and inside `tcp_stream_close`
(`WriteError`): the process ends (`panic = "abort"` in the release profile) or
`run_forever` does (`"aborted"`), or a task or the protocol catches the
`PanicException` and the loop goes on. `ssl_close_timeout` may run out whenever the
write handle looks at it (`CloseTimeout`).

### IORegistry

The tables that are keyed by descriptor numbers, with numbers that are closed and
used again by whoever opens next. `reg` is what the poller watches: `register` fails
on a number that is known and on a regular file, `reregister` on a number that is
not known, and the code ignores the errors. The kernel forgets a registration when
its descriptor is closed. Streams are coarse: a bound transport adds and removes
interests, is dropped with its entry or without it (`TCPTransport` shows that both
happen), is torn out of `tcp_transports` by a direct write that fails, where
`tcp_stream_close` panics before it looks at `tcp_lstreams` (`StreamTears`), and its
socket is closed when its last reference goes. A listener handle that is replaced or
removed from `handles_io` closes its socket when papaya frees it (`closes`,
`Reclaim`). Ghosts: `parted`, the numbers that were closed while an entry was left
under them; `torn`, the pairs that such a panic left in `tcp_lstreams`; `unseen`,
the listeners whose accept loop ended with connections in the queue; `server.again`,
a server that was started twice or after its close. `pc = "poisoned"`: a panic while
the lock `io` was held, after which nothing else happens. `pc = "robbed"`: a
descriptor was closed under its owner, by the second close of the self-socket or of
a listener; what follows depends on the owner, and the behaviour ends. Python
callbacks are added for descriptors that are open: EBADF is not modelled.

## 3. Runs

All runs set `CHECK_DEADLOCK FALSE`: an idle loop, or a transport whose peer is
silent, waits for ever, and the clock is bounded.

| Run | Shows |
|---|---|
| `EventLoop_sched` | with a GIL, one scheduling thread, three handles, two delays and two runs: `NoLostWakeup`, `PollBounded`, `TimerOrder`, `StopNeverPolls` |
| `EventLoop_free` | without a GIL, two threads, a counter of 2 bits that really wraps, a source with two edges, skipped and interrupted polls: `TypeOK`, `CounterAccounts`, `ReadyFifo`, `EdgeAccounting` |
| `EventLoop_live` | `ScheduledRuns` and, with two signals, `SignalsRead`, under fairness |
| `TokioLoop_sched` | three handles, a descriptor, a timer, two runs: `TypeOK`, `SoonFifo`, `TimersKept` |
| `TokioLoop_live` | two handles, two termination signals of which one arrives: `ScheduledRuns`, `StopEnds`, `SignalStops` under fairness |
| `TokioTCP_task` | two chunks of two bytes and a send buffer of one, both threads calling every method: `TypeOK`, `WireOrdered`, `FinLast`, `FlagsAgree`, `CallbackOrder` (refinement of `StreamProtocol`); `CloseEnds` and `EofEnds` under fairness |
| `TCP_plain` | accepted and connected plain transports, two writes of two bytes, a send buffer of two, marks that are crossed, two pieces of input, FIN and reset: `TypeOK`, `WireFaithful`, `FlowControl`, `OutputPolled`, `InputAnnounced`, `Dropped`, `FinLast`, `DataBeforeEof`; `CloseEnds` under fairness |
| `TCP_tls` | the same with TLS, either kind of protocol, two writes of one byte, a send buffer of one and one piece of input, rustls with room for two records of which one `write_tls` hands out one: `OutputPolled`, `InputAnnounced`; `HandshakeEnds` under fairness |
| `IORegistry` | three numbers, one server, two listens, a queue of two: `TypeOK`, `PolledAsRecorded`, `StreamsTracked`, `ServerEnds`, `BacklogAnnounced` |

Runs that end in a counterexample, each a disagreement of the code with what the
repository says of it (quoted in `PROJECT.json`, "findings"):

| Run | Counterexample |
|---|---|
| `EventLoop_overdue` | a timer that is due when the timeout is computed gives no timeout; an idle loop sleeps over it |
| `TokioTCP_echo` | a chunk is lost with the write future that `select!` drops |
| `TCP_stall` | an event that is readable and writable queues the read handle only; the write edge is lost, and the buffer waits although the peer has read everything |

Bounds. Every interleaving in question needs at most two actors and two or three
handles: one handle that waits, one that arrives, and one that follows it to show
the order. Two runs are enough to see what one run leaves behind for the next. Two
ticks let a timer be in the future, due and overdue. A send buffer smaller than a
chunk makes every write wait. In `TCP_plain` the two writes fill the send buffer and
exceed the default high mark; two calls of `connection_lost` and of `eof_received`
are enough to see a repeated one. `CloseEnds` is about accepted connections: one
that was connected, and that writes and closes inside `connection_made`, is
registered for READABLE again by `_tcp_conn` and may then wait as in `TCP_stall`. In
`TCP_tls` rustls reaches each of its limits: it refuses the second of two chunks,
and it keeps a record back while nothing asks for WRITABLE; a flight, a piece of
data and an alert can be in one read and are split by a full buffer and by
`read_tls`. The order of the bytes over TLS, and records of one `write_tls` that the
kernel takes in part, are left to the theorems (`BytesInOrder`, `SendsPolled`),
which have send buffers and limits of any size. Three numbers are a listener, a
stream that it accepted and one more that takes a number over; with `FDs` symmetric,
which number is which does not matter. Two connections in a queue of which one is
accepted are what an edge can strand.

Fairness. `EventLoop`: the loop thread and a thread inside a native call go on; a
callback returns; a thread that waits for the GIL gets it although others keep
taking it (strong fairness of `StepAttach` and `CbReturn`: CPython forces a switch
after its switch interval); time passes. `TokioLoop`: tokio runs tasks that are
ready, and `select!` begins with a random branch, so a branch that is ready again
and again is taken (strong fairness of the branches). `TokioTCPTransport`: the I/O
task goes on, methods return, and the write branch is polled if it is enabled
again and again. `TCPTransport`: the loop goes on and callbacks return, the peer
reads what it is sent and goes on with a handshake. `IORegistry` states safety
only. Nothing else is assumed of Python callers, signals or the peer.

## 4. Proofs

Every invariant that a passing run checks, and the refinement of `StreamProtocol`,
is also a theorem, for all values of the constants. TLC shows an invariant on a
small instance; the theorem shows it for any number of handles, threads,
descriptors, servers, chunks and runs, and for buffers and marks of any size. The
bounds named in the constants (`MaxReady`, `MaxWrites`, ...) may be any numbers.

Assumptions. Each module names what it assumes of its constants
(`ConstantsAssumption`, `TokioConstants`, `TransportConstants`, `TCPConstants`,
`RegistryConstants`), and TLC evaluates it on every run. They say that the bounds
are numbers, that sets which stand for different things are disjoint (handles,
sources and signals; descriptors and the labels of `pc`), that `Handles`, `Sources`
and `FDs` are finite, that a chunk and a send buffer hold at least one byte, and
that rustls holds and hands out at least one record, and that the counter can hold a
full ready queue (a `usize` and a queue in memory). Four theorems have the
hypothesis `GIL = TRUE`; a free-threaded build violates each of those properties
(section 6).

Each proof shows an inductive invariant, one lemma per action or group of actions,
and concludes with the properties it implies. The invariant, and why the property
alone is not inductive:

**EventLoopProofs**

* `TypeCorrect`: `TypeOK`. The batch that `StepCollect` builds consists of known
  callbacks through the lemmas about `Orders`.
* `WakeupSafe` and `PollInTime`: with a GIL, `NoLostWakeup` and `PollBounded`.
  `WakeInv` adds that the GIL is held by exactly the actor whose program point needs
  it (`GilHeld`), that the counter equals the queue except while a thread is between
  push and count (`CountExact`), and that a loop on its way to a sleeping poll has
  an empty queue and a deadline not after any timer (`GoesToSleep`). From the load
  of the counter to the store of `idle` nobody else schedules, because the loop
  holds the GIL: without this the property is false.
* `EdgesDelivered`: `EdgeAccounting`, strengthened by `EdgeInv`, which relates
  `skip_poll`, `events` and the program point.
* `StopPrompt`: `StopNeverPolls`, which is inductive.

**EventLoopOrderProofs**, in both builds

* `QueueFifo` and `TimersByDeadline`: `ReadyFifo` and `TimerOrder`, from `OrderInv`.
  The order in which handles entered the queue is what has run, then the part of the
  batch that came from the queue, then the queue (`FifoInv`). A handle is never both
  in the queue and in the heap (`OnceInv`), or one of the queue could come back as a
  timer. That is so also of a timer that a thread is about to push (`Pending`). The
  timers of a batch are due (`TimerInv`), so one that is made later is not earlier.
  With a GIL nobody is about to push one while the loop puts a batch together
  (`GilInv`), and none in the heap is earlier either; without one, a thread that has
  read the clock may push after the batch was taken, and `TimerOrder` promises the
  order within the batch only.
* `CounterExact`: `CounterAccounts`. `counter_ready` is, modulo its width, what is
  queued and what is taken and not yet subtracted, less one for each thread between
  its push and its `fetch_add`. The set of those threads is finite because each of
  them got there by a step (`CountInv` carries this), not because `Threads` is.

**TokioLoopProofs**

* `TypeCorrect`: `TypeOK`, with `UsedInv`: a handle that was not used yet is in no
  queue.
* `SoonInOrder`: `SoonFifo`, which is inductive given the types and `UsedInv`: what
  left, `current_handles` and the channel follow each other in the order they were
  sent (`Fifo`). The history `place`, the order of the sends, must be fresh for the
  task that is sent next, and `UsedInv` says so. `Accounted` is the part for the end
  of a run, which drops what the loop task had taken and only that.
* `TimersNotLost`: `TimersKept`, also on `UsedInv`.

**TokioTCPTransportProofs**

* `TypeCorrect`: `TypeOK`, in both builds, from a sharper `TypeInv` that bounds the
  numbers of the bytes.
* `CallbacksInOrder`: the transport implements `StreamProtocol`: its initial states
  map to initial states, and every step to a protocol call that is allowed or to a
  stutter. It needs `TypeInv` and `Spawned`: no task runs before `attach` has begun.
* `WireInOrder`: `WireOrdered`, in both builds. The wire, the chunk in the write
  future and the buffer, read one after the other, are increasing (`SentInv`,
  `WrittenInv`) and bounded by what was accepted (`BoundInv`). A future that is
  dropped leaves a gap; it cannot repeat or reorder.
* `FlagsInStep`: with a GIL, `FlagsAgree`. `CallInv`: one method at a time is
  between the atomic flag and the locked one (`OneCall`), and the two differ exactly
  when that method is.
* `FinComesLast`: with a GIL, `FinLast`. `FinInv` adds that `shutting` and
  `write_shutdown_done` imply `weof` and an empty buffer, and that no `write` is
  between its test of the atomic flag and the lock once `aweof` is set; it rests on
  `CallInv`.

**TCPTransportProofs**, plain and TLS, accepted and connected

* `Invariant` shows `IInv`, one conjunct per concern, each of which holds at every
  point where Python can call a method: the size of the buffer and the marks
  (`BufferInv`); no TLS state in a plain transport (`PlainInv`); no bytes in rustls
  between two writes, below its limits (`HeldInv`); what a FIN rules out (`FinInv`);
  which handle may be in the batch (`BatchInv`); what was sent, read and delivered
  (`InputInv`); the interest in WRITABLE (`PolledInv`, with rustls empty inside the
  write handle below its limits); what a dropped transport has done and is still
  polled for (`DropInv`); unread input and the ready list (`AnnounceInv`, with an
  exception inside the read handle). It gives `PausedInTime` (`FlowControl`),
  `SendsPolled` (`OutputPolled`), `ReadsAnnounced` (`InputAnnounced`),
  `DroppedClosed` (`Dropped`), `ShutdownLast` (`FinLast`), `EofAfterData`
  (`DataBeforeEof`) and `TypeCorrect` (`TypeOK`).
* `BytesInOrder`: `WireFaithful`, from `WireInv`: the numbers on the wire and in
  `write_buf` increase and do not exceed what was written, control records aside;
  for a plain connection without a reset their count is the number of bytes written.
  Increasing numbers below a bound, as many as the bound, are all of them.
* Over TLS three of these theorems speak of a transport in which no limit of rustls
  was reached, and the histories say which: `BytesInOrder` and the rustls part of
  `SendsPolled` of `~tls_full`, the latter and `ReadsAnnounced` of `~tls_missed`.
  Section 6 says what the code does beyond the limits. `ReadsAnnounced` covers a
  BufferedProtocol over TLS too.

**IORegistryProofs**

* `IInv` says, besides the properties, who owns a number and how it is watched
  (`Owned`, `Watched` in `TableInv`), that entries are well formed and that the keys
  of `tcp_lstreams` are the listeners of `handles_io` (`EntryInv`), that a server
  which is open has its socket alone and that the last close of a number comes after
  the close of its servers (`ServerInv`), and that streams and sets of streams
  belong to a server that may have connections, a listed stream that is not in
  `torn` being bound (`StreamInv`). Ownership holds until `pc = "robbed"`: what
  comes after a descriptor is closed under its owner is not claimed.
* It gives `PollerInStep` (`PolledAsRecorded`), `BacklogsAnnounced`
  (`BacklogAnnounced`), `ConnectionsTracked` (`StreamsTracked`), `ServersEnd`
  (`ServerEnds`); `TypeCorrect` (`TypeOK`).

Only model-checked: `ScheduledRuns`, `SignalsRead`, `StopEnds`, `SignalStops`,
`CloseEnds`, `EofEnds` and `HandshakeEnds`, which are liveness under fairness and
out of the prover's reach, and the three runs that end in a counterexample.

## 5. Plan

1. done: `EventLoop` with its runs and proofs; `TokioLoop`; `TokioTCPTransport`.
2. done: `TCPTransport`, plain and TLS; `IORegistry` with the listeners, the
   servers, the UDP sockets and the self-socket.
3. done: a theorem for every invariant that the runs check.
4. `TokioTCPServer`: listener tasks, `close` racing an accept.
5. The lifecycle (`run_until_complete`, signal handlers, executor shutdown); the
   socket coroutines; child watchers.
6. Proofs about what 4 and 5 add, and action properties of the transports, such as
   the order of what a TLS close sends.

`TCPTransport` is not shown to implement `StreamProtocol`, because it does not: see
the calls after `connection_lost` below.

## 6. Not modelled

TLS configuration (`ssl.rs`), logging and Python glue (`log.rs`, `py.rs`,
`utils.rs`, `exc.py`): no state of their own. `tokio_udp.rs`: a stub. Name
resolution and the executor: the operating system's. Memory exhaustion, and panics
other than those named here.
`pause_reading()` of the Tokio transport also stops its writes; this is in the
model, and no property says that it should be otherwise.

Observed while modelling, in the model but without a property of their own:
`sig_loop_handled` stays set after a handled signal that interrupted no poll, so
that `StepEnd` takes the next unhandled one for handled; the signal reader of
TokioLoop may duplicate a descriptor that was closed meanwhile (`ReaderStart`,
`"astray"`); `add_reader` of TokioLoop runs its callback once and at once, and the
handle it returns is not the one it schedules, so cancelling it has no effect
(`io_handles`); in a free-threaded build `FlagsAgree` does not hold, since the
two steps of `pause_reading` and `resume_reading` on two threads can cross, and
neither does `FinLast`: a `write` that has tested the atomic flag can push after
`write_eof` on another thread has led to the shutdown.

Behaviour of the loops that is in the modules and that no property of a run
promises otherwise:

* In a free-threaded build `step()` loads `counter_ready`, then stores `idle`, and
  does not look again. A thread that pushes, counts and finds `idle` false in
  between does not wake the loop, which sleeps with work queued (`NoLostWakeup` with
  `GIL = FALSE`); or it sleeps past a timer that was added there (`PollBounded`).
* In such a build, or from the Rust functions `schedule_later*`, a timer's deadline
  is read off the clock before the lock of the heap is taken. If a batch is taken in
  between, timers that are due later run first.
* `stop()` throws away the callbacks and timers that the loop task of TokioLoop had
  already taken from the scheduler channel (`RunEnd`); the next run never sees them.
* `attach` of the Tokio transport spawns the I/O task before it calls
  `connection_made`, so `data_received` can come first.

RLoop's transports and tables:

* `connection_lost` may be called more than once (`abort` after `close`, a failing
  write of a closing transport), and the loop of the read handle goes on after
  `data_received` has closed the transport, so that data and an EOF may follow.
* A write that fails in the write handle of a transport that is not closing clears
  the buffer and closes nothing.
* A direct write that fails calls `connection_lost` and `tcp_stream_close` with the
  state of the transport borrowed, and `is_tls()` panics (`event_loop.rs:403`): a
  release build aborts. In a build that unwinds, the descriptor stays in the set of
  its listener: when the number is used again, `close_clients` of that server closes
  a connection that is not its own (`torn`, `StreamTears`, `StreamsEnd`).
* TLS: data that precedes a close alert in the same read is dropped; after the
  peer's alert `connection_lost` is never called, nor after a close with pending
  data; records that the kernel does not take at once are lost; the end of the
  socket is not seen at all; the timeout of the close is only looked at in the write
  handle, for which nothing polls any more.
* TLS beyond the limits of rustls. Input that `read_tls` did not take is dropped
  with `read_buf`, and what follows cannot be decrypted; the read loop then ends
  (`tcp.rs:1069`, `1169`) although the socket may hold more, against its own comment
  at `tcp.rs:1149`, and no edge announces the rest. A chunk that fits in part is
  "put back" whole (`tcp.rs:1252`), and its first bytes are sent twice. Records
  behind the first 64 stay in rustls while the write handle gives up WRITABLE, until
  the next write.
* A BufferedProtocol over TLS is given ciphertext, and its handshake never ends.
* An `add_reader` on a descriptor that has a writer registers the interest of the
  writer again: the reader is recorded and not watched (and the other way round)
  until one of the two is removed. The second `add_reader` on a descriptor panics
  with the lock `io` held. The exception in `PolledAsRecorded` is this. A regular
  file is recorded and not watched, since `register` fails and its error is ignored.
* A dropped transport may leave its entry in `handles_io` (a connected one that
  closes inside `connection_made`, one that writes after it was lost, TLS). The
  number is then watched or not watched for a new owner by accident: numbers in
  `parted` are exempt.
* `start_serving` followed by `serve_forever` listens twice on one descriptor: the
  set of accepted streams is emptied, and the replaced handle closes the socket.
* `close` and `abort` of a UDP transport leave it in `udp_transports`, so its socket
  stays open; after a read error the transport is gone and its entry is not, and the
  next event panics in `get_udp_transport`. `sendto` panics always (`udp.rs:176`
  borrows what line 172 has borrowed mutably).
* The self-socket is closed by `_ssock_del` and again by the Python sockets.
* `remove_signal_handler` calls `self._is_main_thread()`, which does not exist
  (`loop.py:1086`), and always raises.
* `futures.py:11` passes a socket where `remove_reader` expects a number.
