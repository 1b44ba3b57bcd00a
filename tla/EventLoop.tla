------------------------------ MODULE EventLoop ------------------------------
(***************************************************************************)
(* The mio based event loop (RLoop): EventLoop::_run and EventLoop::step   *)
(* on the loop thread, and the operations through which callbacks, timers, *)
(* file descriptors and signals reach it.                                  *)
(*                                                                         *)
(* The loop thread goes through the program points of lpc:                 *)
(*   "off"     not inside _run; the main thread runs other Python code     *)
(*   "check"   head of the loop of _run                                    *)
(*   "count"   about to load counter_ready                                 *)
(*   "sched"   counter_ready was 0, about to look at the first timer       *)
(*   "detach"  about to publish `idle` and to release the GIL              *)
(*   "poll"    inside Poll::poll, without the GIL                          *)
(*   "unidle"  poll returned, about to withdraw `idle`                     *)
(*   "attach"  about to take the GIL again                                 *)
(*   "swap"    about to take the whole ready queue                         *)
(*   "collect" about to account for it and to append I/O and timers        *)
(*   "run"     between two callbacks of the batch                          *)
(*   "cb"      inside a callback                                           *)
(*                                                                         *)
(* GIL = TRUE is a build with the global interpreter lock: a caller holds  *)
(* it for the whole native call.  GIL = FALSE is a free-threaded build     *)
(* (the module is declared gil_used = false), and also a Rust thread that  *)
(* calls the pub schedule functions, which attach only to build the        *)
(* handle.                                                                 *)
(***************************************************************************)
EXTENDS Integers, Sequences, FiniteSets

CONSTANTS Handles,     \* one-shot handles: one per call_soon/call_later call
          Sources,     \* file descriptors with a registered reader callback
          Signals,     \* signal numbers
          Ssock,       \* the read end of the self-socket of the signals
          Threads,     \* threads other than the loop thread
          Loop, Nobody, \* the loop thread, and "the GIL is free"
          Never,       \* "no deadline"
          GIL,         \* is there a global interpreter lock?
          Delays,      \* delays passed to call_later, in ticks
          CounterMod,  \* 2^w for the w bits of the AtomicUsize counter_ready
          SkipWindow,  \* the 250 microseconds of step(), in ticks
          MaxReady,    \* bound: length of handles_ready
          MaxTime,     \* bound: the clock
          MaxEdges,    \* bound: readiness edges per source
          MaxSignals,  \* bound: signals delivered
          MaxRuns      \* bound: calls of run_forever

ASSUME ConstantsAssumption ==
  /\ GIL \in BOOLEAN
  /\ Delays \subseteq Nat
  /\ {MaxReady, MaxTime, MaxEdges, MaxSignals, MaxRuns, SkipWindow} \subseteq Nat
  /\ CounterMod \in Nat /\ CounterMod > MaxReady
  /\ Never \notin Nat
  /\ Loop \notin Threads /\ Nobody \notin Threads /\ Loop # Nobody
  /\ IsFiniteSet(Handles) /\ IsFiniteSet(Sources) /\ Ssock \notin Sources
  /\ Handles \cap Sources = {} /\ Handles \cap Signals = {} /\ Sources \cap Signals = {}
  /\ Handles \cap {"out", "count", "wake"} = {}

VARIABLES
  lpc, gil, now, runs,
  handles_ready,     \* Mutex<VecDeque<BoxedHandle>>
  counter_ready,     \* AtomicUsize, changed after the queue it counts
  handles_sched,     \* Mutex<BinaryHeap<Timer>>
  when,              \* Timer.when of the handles that were given a delay
  idle, woken,       \* AtomicBool; a write to the waker not yet polled
  stopping,
  cancelled,         \* handles whose cancelled flag is set
  deadline,          \* when the poll in progress times out
  skip_poll, idle_swap, poll_result, tick_last, \* locals of step()
  cb_handles,        \* the batch of step()
  events,            \* state.events: the edges reported by the last poll
  edges,             \* edges still in the kernel
  ssock, eintr,      \* bytes in the self-socket; a signal hit the poll
  sig_handlers, sig_loop_handled,
  tpc,               \* program points of the other threads; a handle: its timer is
                     \* made and about to be pushed
  \* histories: handles given to the loop; soon-handles in the order in which
  \* they were queued and popped; edges raised and delivered; signals sent
  used, order, popped, raised, delivered, sent

readyvars == <<handles_ready, counter_ready>>
timervars == <<handles_sched, when>>
wakevars == <<idle, woken>>
pollvars == <<deadline, skip_poll, idle_swap, poll_result, tick_last>>
batchvars == <<cb_handles, events>>
iovars == <<edges, raised, delivered>>
sigvars == <<ssock, eintr, sig_handlers, sig_loop_handled, sent>>
histvars == <<used, order, popped>>
vars == <<lpc, gil, now, runs, readyvars, timervars, wakevars, stopping, cancelled,
          pollvars, batchvars, iovars, sigvars, tpc, histvars>>

Callbacks == Handles \cup Sources \cup Signals
HoldsGil == {"check", "count", "sched", "detach", "swap", "collect", "run"}
LoopPCs == HoldsGil \cup {"off", "poll", "unidle", "attach", "cb"}

\* a free GIL is taken; in a free-threaded build there is nothing to take
Acquire(a) == gil = Nobody /\ gil' = IF GIL THEN a ELSE Nobody
Release == gil' = Nobody

\* the orders in which the members of a set can come
Orders(S) == {q \in [1..Cardinality(S) -> S] : \A i, j \in DOMAIN q : i # j => q[i] # q[j]}

\* AtomicUsize::fetch_add(1) and fetch_sub(n), for n < CounterMod
Inc(c) == IF c + 1 = CounterMod THEN 0 ELSE c + 1
DecUnwrapped(c, n) == c - n
Dec(c, n) == IF c >= n THEN c - n ELSE c - n + CounterMod

Init ==
  /\ lpc = "off" /\ gil = Nobody /\ now = 0 /\ runs = 0
  /\ handles_ready = <<>> /\ counter_ready = 0
  /\ handles_sched = {} /\ when = [h \in Handles |-> 0]
  /\ idle = FALSE /\ woken = FALSE /\ stopping = FALSE /\ cancelled = {}
  /\ deadline = Never /\ skip_poll = FALSE /\ idle_swap = FALSE
  /\ poll_result = "ok" /\ tick_last = 0 /\ cb_handles = <<>> /\ events = {}
  /\ edges = {} /\ ssock = <<>> /\ eintr = FALSE
  /\ sig_handlers = {} /\ sig_loop_handled = FALSE
  /\ tpc = [t \in Threads |-> "out"]
  /\ used = {} /\ order = <<>> /\ popped = <<>> /\ sent = 0
  /\ raised = [s \in Sources |-> 0] /\ delivered = [s \in Sources |-> 0]
-----------------------------------------------------------------------------
(***************************************************************************)
(* The loop thread: _run and step.                                         *)
(***************************************************************************)

\* run_forever opens a new self-socket and enters _run with a fresh
\* EventLoopRunState
RunForever ==
  /\ lpc = "off" /\ runs < MaxRuns /\ runs' = runs + 1
  /\ Acquire(Loop) /\ lpc' = "check"
  /\ tick_last' = 0 /\ events' = {} /\ ssock' = <<>> /\ eintr' = FALSE
  /\ edges' = edges \ {Ssock}
  /\ UNCHANGED <<now, readyvars, timervars, wakevars, stopping, cancelled, deadline, skip_poll,
                 idle_swap, poll_result, cb_handles, raised, delivered, sig_handlers,
                 sig_loop_handled, sent, tpc, histvars>>

\* leave _run; _run_forever_post drops the self-socket and resets _stopping
LeaveRun == lpc' = "off" /\ Release /\ stopping' = FALSE /\ ssock' = <<>>

StopRequestedDrained == stopping /\ counter_ready = 0
StopRequested == stopping

RunCheck ==
  /\ lpc = "check"
  /\ \/ StopRequested /\ LeaveRun
     \/ ~StopRequested /\ lpc' = "count" /\ UNCHANGED <<gil, stopping, ssock>>
  /\ UNCHANGED <<now, runs, readyvars, timervars, wakevars, cancelled, pollvars, batchvars, iovars,
                 eintr, sig_handlers, sig_loop_handled, sent, tpc, histvars>>

\* with work ready the poll has a zero timeout, or is skipped altogether
StepLoadCounter ==
  /\ lpc = "count"
  /\ LET ready == counter_ready > 0
         skip == ready /\ now - tick_last < SkipWindow
     IN /\ skip_poll' = skip
        /\ idle_swap' = ~ready
        /\ deadline' = IF ready THEN now ELSE Never
        /\ lpc' = IF skip THEN "swap" ELSE IF ready THEN "detach" ELSE "sched"
  /\ poll_result' = "ok"
  /\ UNCHANGED <<gil, now, runs, readyvars, timervars, wakevars, stopping, cancelled, tick_last,
                 batchvars, iovars, sigvars, tpc, histvars>>

IsFirstMaxHeap(h) == h \in handles_sched /\ \A k \in handles_sched : when[h] >= when[k]

\* BinaryHeap::peek under the reversed order of Timer
IsFirst(h) == h \in handles_sched /\ \A k \in handles_sched : when[h] <= when[k]

\* the timeout is the time to the first timer, if that timer is in the future
StepPeekTimer ==
  /\ lpc = "sched" /\ lpc' = "detach"
  /\ \/ \E h \in handles_sched : IsFirst(h) /\ when[h] > now /\ deadline' = when[h]
     \/ /\ \A h \in handles_sched : IsFirst(h) => when[h] <= now
        /\ deadline' = Never
  /\ UNCHANGED <<gil, now, runs, readyvars, timervars, wakevars, stopping, cancelled, skip_poll,
                 idle_swap, poll_result, tick_last, batchvars, iovars, sigvars, tpc, histvars>>

PublishIdleTimed == idle' = (idle \/ (idle_swap /\ deadline # Never))
PublishIdle == idle' = (idle \/ idle_swap)

StepDetach ==
  /\ lpc = "detach" /\ lpc' = "poll" /\ PublishIdle /\ Release
  /\ UNCHANGED <<now, runs, readyvars, timervars, woken, stopping, cancelled, pollvars, batchvars,
                 iovars, sigvars, tpc, histvars>>

\* Poll::poll takes the edges and the wake-up out of the kernel
TakeEvents == events' = edges /\ edges' = {} /\ woken' = FALSE

PollReturn ==
  /\ lpc = "poll" /\ lpc' = "unidle"
  /\ edges # {} \/ woken \/ (deadline # Never /\ now >= deadline)
  /\ TakeEvents /\ eintr' = FALSE
  /\ UNCHANGED <<gil, now, runs, readyvars, timervars, idle, stopping, cancelled, pollvars,
                 cb_handles, raised, delivered, ssock, sig_handlers, sig_loop_handled, sent, tpc,
                 histvars>>

\* epoll_wait fails with EINTR and reports nothing
PollInterrupted ==
  /\ lpc = "poll" /\ lpc' = "unidle"
  /\ eintr /\ eintr' = FALSE
  /\ poll_result' = "intr" /\ events' = {}
  /\ UNCHANGED <<gil, now, runs, readyvars, timervars, wakevars, stopping, cancelled, deadline,
                 skip_poll, idle_swap, tick_last, cb_handles, iovars, ssock, sig_handlers,
                 sig_loop_handled, sent, tpc, histvars>>

\* an interrupted poll is repeated once, with a zero timeout
StepClearIdle ==
  /\ lpc = "unidle" /\ lpc' = "attach"
  /\ idle' = (idle /\ ~idle_swap)
  /\ \/ poll_result = "intr" /\ TakeEvents
     \/ poll_result = "ok" /\ UNCHANGED <<events, edges, woken>>
  /\ UNCHANGED <<gil, now, runs, readyvars, timervars, stopping, cancelled, pollvars, cb_handles,
                 raised, delivered, sigvars, tpc, histvars>>

StepAttach ==
  /\ lpc = "attach" /\ lpc' = "swap" /\ Acquire(Loop) /\ tick_last' = now
  /\ UNCHANGED <<now, runs, readyvars, timervars, wakevars, stopping, cancelled, deadline,
                 skip_poll, idle_swap, poll_result, batchvars, iovars, sigvars, tpc, histvars>>

\* mem::replace under the lock of handles_ready
StepSwap ==
  /\ lpc = "swap" /\ lpc' = "collect"
  /\ cb_handles' = handles_ready /\ handles_ready' = <<>>
  /\ UNCHANGED <<gil, now, runs, counter_ready, timervars, wakevars, stopping, cancelled, pollvars,
                 events, iovars, sigvars, tpc, histvars>>

CountTakenStore == 0

\* fetch_sub of the length of the batch, before I/O and timers are appended
CountTaken == Dec(counter_ready, Len(cb_handles))

DispatchedStale == events

\* the events of this step; those left over by an earlier poll are not looked at
Dispatched == IF skip_poll THEN {} ELSE events

\* read_from_sock reads until the socket is empty
SockRead == IF Ssock \in Dispatched THEN ssock ELSE <<>>
SockLeftOneRead == IF Ssock \in Dispatched /\ ssock # <<>> THEN Tail(ssock) ELSE ssock
SockLeft == IF Ssock \in Dispatched THEN <<>> ELSE ssock

\* sig_handle: the bytes with a handler, in their order (exactly one such sequence)
HandledBytes == {i \in DOMAIN SockRead : SockRead[i] \in sig_handlers}
SignalBatches ==
  {[k \in DOMAIN e |-> SockRead[e[k]]] :
     e \in {q \in Orders(HandledBytes) : \A i, j \in DOMAIN q : i < j => q[i] < q[j]}}

Due == {h \in handles_sched : when[h] <= now}

TimeOrderedReversed(q) == \A i, j \in DOMAIN q : i < j => when[q[i]] >= when[q[j]]

\* BinaryHeap::pop takes the first timer; equal timers come in any order
TimeOrdered(q) == \A i, j \in DOMAIN q : i < j => when[q[i]] <= when[q[j]]
TimerBatches == {q \in Orders(Due) : TimeOrdered(q)}

\* the events come in any order, the signals all at the place of their socket
StepCollect ==
  /\ lpc = "collect" /\ lpc' = "run"
  /\ counter_ready' = CountTaken
  /\ \E before \in SUBSET (Dispatched \cap Sources) :
       \E io1 \in Orders(before), io2 \in Orders((Dispatched \cap Sources) \ before),
          sigs \in SignalBatches, timers \in TimerBatches :
         cb_handles' = cb_handles \o io1 \o sigs \o io2 \o timers
  /\ handles_sched' = handles_sched \ Due
  /\ delivered' = [s \in Sources |-> delivered[s] + IF s \in Dispatched THEN 1 ELSE 0]
  /\ ssock' = SockLeft
  /\ sig_loop_handled' = (sig_loop_handled \/ HandledBytes # {})
  /\ UNCHANGED <<gil, now, runs, handles_ready, when, wakevars, stopping, cancelled, pollvars,
                 events, edges, raised, eintr, sig_handlers, sent, tpc, histvars>>

\* handles queued by call_soon, as opposed to timers and I/O callbacks
Soon == {order[i] : i \in DOMAIN order}

\* pop_front; a callback gives up the GIL now and then, a cancelled one is skipped
RunNext ==
  /\ lpc = "run" /\ cb_handles # <<>>
  /\ cb_handles' = Tail(cb_handles)
  /\ popped' = IF Head(cb_handles) \in Soon THEN Append(popped, Head(cb_handles)) ELSE popped
  /\ \/ Head(cb_handles) \in cancelled /\ UNCHANGED <<lpc, gil>>
     \/ Head(cb_handles) \notin cancelled /\ lpc' = "cb" /\ Release
  /\ UNCHANGED <<now, runs, readyvars, timervars, wakevars, stopping, cancelled, pollvars, events,
                 iovars, sigvars, tpc, used, order>>

CbReturn ==
  /\ lpc = "cb" /\ lpc' = "run" /\ Acquire(Loop)
  /\ UNCHANGED <<now, runs, readyvars, timervars, wakevars, stopping, cancelled, pollvars, batchvars,
                 iovars, sigvars, tpc, histvars>>

\* after an interrupted step _run goes on only if a handler of the loop took the signal
StepEnd ==
  /\ lpc = "run" /\ cb_handles = <<>>
  /\ \/ poll_result = "ok" /\ lpc' = "check" /\ UNCHANGED <<gil, stopping, ssock, sig_loop_handled>>
     \/ /\ poll_result = "intr" /\ sig_loop_handled /\ sig_loop_handled' = FALSE
        /\ lpc' = "check" /\ UNCHANGED <<gil, stopping, ssock>>
     \/ poll_result = "intr" /\ ~sig_loop_handled /\ LeaveRun /\ UNCHANGED sig_loop_handled
  /\ UNCHANGED <<now, runs, readyvars, timervars, wakevars, cancelled, pollvars, batchvars, iovars,
                 eintr, sig_handlers, sent, tpc, histvars>>
-----------------------------------------------------------------------------
(***************************************************************************)
(* What Python code on the loop thread calls, from a callback or outside   *)
(* of run_forever.  The native call keeps the GIL.                         *)
(***************************************************************************)
InPython == lpc \in {"cb", "off"} /\ gil = Nobody

PushReadyFront(h) ==
  /\ h \in Handles \ used /\ used' = used \cup {h}
  /\ Len(handles_ready) < MaxReady
  /\ handles_ready' = <<h>> \o handles_ready /\ order' = Append(order, h)

\* push_back under the lock of handles_ready
PushReady(h) ==
  /\ h \in Handles \ used /\ used' = used \cup {h}
  /\ Len(handles_ready) < MaxReady
  /\ handles_ready' = Append(handles_ready, h) /\ order' = Append(order, h)

\* the clock is read first, without any lock
NewTimer(h, delay) ==
  /\ h \in Handles \ used /\ used' = used \cup {h}
  /\ when' = [when EXCEPT ![h] = now + delay]

\* push under the lock of handles_sched
PushTimer(h) == handles_sched' = handles_sched \cup {h}

CallSoon(h) ==
  /\ InPython /\ PushReady(h) /\ counter_ready' = Inc(counter_ready)
  /\ UNCHANGED <<lpc, gil, now, runs, timervars, wakevars, stopping, cancelled, pollvars, batchvars,
                 iovars, sigvars, tpc, popped>>

\* one step: between its two halves nobody else looks at the heap
CallLater(h, delay) ==
  /\ InPython /\ NewTimer(h, delay) /\ PushTimer(h)
  /\ UNCHANGED <<lpc, gil, now, runs, readyvars, wakevars, stopping, cancelled, pollvars, batchvars,
                 iovars, sigvars, tpc, order, popped>>

Stop ==
  /\ InPython /\ ~stopping /\ stopping' = TRUE
  /\ UNCHANGED <<lpc, gil, now, runs, readyvars, timervars, wakevars, cancelled, pollvars, batchvars,
                 iovars, sigvars, tpc, histvars>>

AddSignalHandler(g) ==
  /\ InPython /\ g \notin sig_handlers /\ sig_handlers' = sig_handlers \cup {g}
  /\ UNCHANGED <<lpc, gil, now, runs, readyvars, timervars, wakevars, stopping, cancelled, pollvars,
                 batchvars, iovars, ssock, eintr, sig_loop_handled, sent, tpc, histvars>>

\* CBHandle.cancel and TimerHandle.cancel, from any thread that runs Python
Cancel(h) ==
  /\ gil = Nobody /\ h \in used \ cancelled /\ cancelled' = cancelled \cup {h}
  /\ UNCHANGED <<lpc, gil, now, runs, readyvars, timervars, wakevars, stopping, pollvars, batchvars,
                 iovars, sigvars, tpc, histvars>>
-----------------------------------------------------------------------------
(***************************************************************************)
(* Other threads: call_soon_threadsafe and schedule_handle.                *)
(***************************************************************************)
Goto(t, pc) == tpc' = [tpc EXCEPT ![t] = pc]

ThreadSoon(t, h) ==
  /\ tpc[t] = "out" /\ Acquire(t) /\ PushReady(h) /\ Goto(t, "count")
  /\ UNCHANGED <<lpc, now, runs, counter_ready, timervars, wakevars, stopping, cancelled, pollvars,
                 batchvars, iovars, sigvars, popped>>

ThreadCount(t) ==
  /\ tpc[t] = "count" /\ counter_ready' = Inc(counter_ready) /\ Goto(t, "wake")
  /\ UNCHANGED <<lpc, gil, now, runs, handles_ready, timervars, wakevars, stopping, cancelled,
                 pollvars, batchvars, iovars, sigvars, histvars>>

\* two steps: without a GIL the loop may take a batch between them
ThreadLater(t, h, delay) ==
  /\ tpc[t] = "out" /\ Acquire(t) /\ NewTimer(h, delay) /\ Goto(t, h)
  /\ UNCHANGED <<lpc, now, runs, readyvars, handles_sched, wakevars, stopping, cancelled, pollvars,
                 batchvars, iovars, sigvars, order, popped>>

ThreadPush(t) ==
  /\ tpc[t] \in Handles /\ PushTimer(tpc[t]) /\ Goto(t, "wake")
  /\ UNCHANGED <<lpc, gil, now, runs, readyvars, when, wakevars, stopping, cancelled, pollvars,
                 batchvars, iovars, sigvars, histvars>>

WakeMissing == woken' = woken
Wake == woken' = (woken \/ idle)

ThreadWake(t) ==
  /\ tpc[t] = "wake" /\ Wake /\ Goto(t, "out") /\ Release
  /\ UNCHANGED <<lpc, now, runs, readyvars, timervars, idle, stopping, cancelled, pollvars, batchvars,
                 iovars, sigvars, histvars>>
-----------------------------------------------------------------------------
(***************************************************************************)
(* The environment: the clock, the kernel and the C signal handler.        *)
(***************************************************************************)
Tick ==
  /\ now < MaxTime /\ now' = now + 1
  /\ UNCHANGED <<lpc, gil, runs, readyvars, timervars, wakevars, stopping, cancelled, pollvars,
                 batchvars, iovars, sigvars, tpc, histvars>>

\* edges of a source coalesce until a poll takes them
SourceReady(s) ==
  /\ s \notin edges /\ raised[s] < MaxEdges
  /\ edges' = edges \cup {s} /\ raised' = [raised EXCEPT ![s] = @ + 1]
  /\ UNCHANGED <<lpc, gil, now, runs, readyvars, timervars, wakevars, stopping, cancelled, pollvars,
                 batchvars, delivered, sigvars, tpc, histvars>>

\* the C handler writes the signal number to the wakeup fd of set_wakeup_fd;
\* only a signal delivered to the thread in epoll_wait interrupts it
SignalArrive(g) ==
  /\ lpc # "off" /\ sent < MaxSignals /\ sent' = sent + 1
  /\ ssock' = Append(ssock, g) /\ edges' = edges \cup {Ssock}
  /\ (lpc = "poll" /\ eintr' = TRUE) \/ eintr' = eintr
  /\ UNCHANGED <<lpc, gil, now, runs, readyvars, timervars, wakevars, stopping, cancelled, pollvars,
                 batchvars, raised, delivered, sig_handlers, sig_loop_handled, tpc,
                 histvars>>
-----------------------------------------------------------------------------
LoopStep ==
  \/ RunCheck \/ StepLoadCounter \/ StepPeekTimer \/ StepDetach
  \/ PollReturn \/ PollInterrupted \/ StepClearIdle \/ StepAttach
  \/ StepSwap \/ StepCollect \/ RunNext \/ CbReturn \/ StepEnd

LoopCall ==
  \/ RunForever \/ Stop
  \/ \E h \in Handles : CallSoon(h) \/ Cancel(h) \/ \E d \in Delays : CallLater(h, d)
  \/ \E g \in Signals : AddSignalHandler(g)

ThreadCall(t) == \E h \in Handles : ThreadSoon(t, h) \/ \E d \in Delays : ThreadLater(t, h, d)
ThreadStep(t) == ThreadCount(t) \/ ThreadPush(t) \/ ThreadWake(t)

Environment ==
  \/ Tick
  \/ \E s \in Sources : SourceReady(s)
  \/ \E g \in Signals : SignalArrive(g)

Next ==
  \/ LoopStep \/ LoopCall \/ Environment
  \/ \E t \in Threads : ThreadCall(t) \/ ThreadStep(t)

\* the loop thread and a thread inside a native call are never suspended for
\* ever, a callback returns, and time passes
Fairness ==
  /\ WF_vars(LoopStep) /\ SF_vars(StepAttach) /\ SF_vars(CbReturn) /\ WF_vars(Tick)
  /\ \A t \in Threads : WF_vars(ThreadStep(t))

Spec == Init /\ [][Next]_vars /\ Fairness
-----------------------------------------------------------------------------
(***************************************************************************)
(* Properties.                                                             *)
(***************************************************************************)

ControlType ==
  /\ lpc \in LoopPCs /\ gil \in Threads \cup {Loop, Nobody} /\ now \in Nat /\ runs \in Nat
  /\ stopping \in BOOLEAN /\ cancelled \subseteq Handles
  /\ tpc \in [Threads -> {"out", "count", "wake"} \cup Handles]
ReadyType ==
  /\ handles_ready \in Seq(Handles) /\ Len(handles_ready) <= MaxReady
  /\ counter_ready \in 0..(CounterMod - 1)
TimerType == handles_sched \subseteq Handles /\ when \in [Handles -> Nat]
PollType ==
  /\ idle \in BOOLEAN /\ woken \in BOOLEAN /\ skip_poll \in BOOLEAN /\ idle_swap \in BOOLEAN
  /\ deadline \in Nat \cup {Never} /\ poll_result \in {"ok", "intr"} /\ tick_last \in Nat
BatchType ==
  /\ cb_handles \in Seq(Callbacks) /\ (lpc = "collect" => Len(cb_handles) <= MaxReady)
  /\ events \subseteq Sources \cup {Ssock}
IoType ==
  /\ edges \subseteq Sources \cup {Ssock}
  /\ raised \in [Sources -> Nat] /\ delivered \in [Sources -> Nat]
SignalType ==
  /\ ssock \in Seq(Signals) /\ eintr \in BOOLEAN /\ sig_handlers \subseteq Signals
  /\ sig_loop_handled \in BOOLEAN /\ sent \in Nat
HistoryType == used \subseteq Handles /\ order \in Seq(Handles) /\ popped \in Seq(Handles)

\* The state of the loop has its type; the ready queue, the counter and the
\* batch taken from the queue stay within their bounds.
TypeOK ==
  /\ ControlType /\ ReadyType /\ TimerType /\ PollType
  /\ BatchType /\ IoType /\ SignalType /\ HistoryType

\* counter_ready is, modulo its width, what is queued and not yet accounted
\* for: it may run below the queue, and wrap below zero, only by the threads
\* that are between push_back and fetch_add (call_soon_threadsafe).
CounterAccounts ==
  counter_ready = ((Len(handles_ready) + (IF lpc = "collect" THEN Len(cb_handles) ELSE 0))
                   - Cardinality({t \in Threads : tpc[t] = "count"})) % CounterMod

\* A loop that went to sleep in poll (step() published idle) never sleeps over
\* a queued callback: the waker was written, or the thread that queued it is
\* still on its way to wake() and will find idle set.
NoLostWakeup ==
  (lpc = "poll" /\ idle_swap /\ handles_ready # <<>> /\ ~woken)
    => (idle /\ \E t \in Threads : tpc[t] \in {"count", "wake"})

\* A poll with a timeout never sleeps past the first timer, a timer that
\* another thread adds meanwhile (schedule_handle) included.
PollBounded ==
  (lpc = "poll" /\ idle_swap /\ deadline # Never /\ ~woken)
    => \/ \A h \in handles_sched : deadline <= when[h]
       \/ idle /\ \E t \in Threads : tpc[t] = "wake"

\* call_soon and call_soon_threadsafe: every handle is popped exactly once, in
\* the order of the queue, whatever I/O, timers, stop() or an interrupted poll
\* come between.  The first n of a batch are those of the queue.
ReadyFifo ==
  \E n \in 0..Len(cb_handles) :
    /\ order = popped \o SubSeq(cb_handles, 1, n) \o handles_ready
    /\ \A i \in (n + 1)..Len(cb_handles) : cb_handles[i] \notin Soon

\* The timers of a batch run in the order of their deadlines.  With a GIL no
\* timer in the heap is due before one in the batch either; without one, a
\* thread that has read the clock may push its timer after the batch was taken
\* (schedule_handle), and an earlier timer then runs in a later batch.
TimersOfBatch == {i \in DOMAIN cb_handles : cb_handles[i] \in Handles \ Soon}
TimerOrder ==
  \A i \in TimersOfBatch :
    /\ \A j \in TimersOfBatch : i < j => when[cb_handles[i]] <= when[cb_handles[j]]
    /\ GIL => \A h \in handles_sched : when[cb_handles[i]] <= when[h]

\* mio registers edge-triggered: every readiness edge of a descriptor gives
\* its callback one place in one batch; none is lost when a poll is skipped or
\* interrupted, none is dispatched twice from stale state.events.
EdgeAccounting ==
  \A s \in Sources :
    raised[s] = delivered[s] + (IF s \in edges THEN 1 ELSE 0)
                + (IF s \in events /\ ~skip_poll /\ lpc \in {"unidle", "attach", "swap", "collect"}
                   THEN 1 ELSE 0)

\* stop() lets the batch finish and nothing more: the loop that was told to
\* stop never polls or starts another step.
StopNeverPolls == stopping => lpc \in {"off", "check", "run", "cb"}

\* A callback queued from anywhere is reached, unless the loop stops first.
ScheduledRuns ==
  \A h \in Handles : (h \in Soon) ~> (lpc = "off" \/ \E i \in DOMAIN popped : popped[i] = h)

\* The bytes of the signals that arrived are read, although the self-socket is
\* edge-triggered and polls may be skipped or interrupted.
SignalsRead == (ssock # <<>>) ~> (ssock = <<>>)

\* step() says it will "compute poll timeout based on scheduled work": it never
\* sleeps without a timeout while a timer is waiting.
TimeoutFromSchedule ==
  ~(lpc = "poll" /\ deadline = Never /\ ~woken /\ \E h \in handles_sched : when[h] <= now)
=============================================================================
