------------------------------ MODULE TokioLoop ------------------------------
(***************************************************************************)
(* The scheduler of the tokio based event loop (TokioLoop): the task that  *)
(* TEventLoop::_run spawns, schedule_handle and its callers, the reader    *)
(* task of the self-socket of the signals, and add_reader and add_writer.  *)
(*                                                                         *)
(* The loop task goes through the program points of lpc:                   *)
(*   "off"      not inside _run                                            *)
(*   "select"   inside tokio::select!, which takes a ready branch at random *)
(*   "callback" running a Python callback                                  *)
(*   "check"    after select!, about to look at `stopping`                 *)
(*   "ending"   the task returned, _run_forever_post has not run yet       *)
(* The thread that called run_forever is blocked meanwhile; callbacks and  *)
(* other threads schedule, cancel and stop at any time.                    *)
(***************************************************************************)
EXTENDS Integers, Sequences, FiniteSets, Functions

CONSTANTS Handles,     \* one-shot handles: one per scheduling call
          Fds,         \* descriptors passed to add_reader and add_writer
          SigNums,     \* signal numbers
          Termination, \* those of them that stop the loop: SIGINT and SIGTERM
          Soon,        \* the `when` of an Immediate task
          NoHandle,    \* py.None() in io_callbacks; no callback running
          Delays,      \* delays passed to call_later, in ticks
          MaxTime,     \* bound: the clock
          MaxSignals,  \* bound: signals delivered
          MaxRuns      \* bound: calls of run_forever

ASSUME TokioConstants ==
  /\ IsFiniteSet(Handles) /\ Delays \subseteq Nat \ {0} /\ {MaxTime, MaxSignals, MaxRuns} \subseteq Nat
  /\ Termination \subseteq SigNums /\ Soon \notin Nat /\ NoHandle \notin Handles

VARIABLES
  lpc, now, runs,
  scheduler,        \* the unbounded channel scheduler_tx / scheduler_rx
  when,             \* TokioTimer.when, or Soon
  current_handles, delayed_tasks, \* locals of the loop task: mpsc channel, BinaryHeap
  running,          \* the handle whose callback runs
  stopping, closed,
  cancelled,
  io_callbacks,     \* reader and writer callback of a descriptor
  io_handles,       \* handles of add_reader and add_writer: the caller gets another one
  signal_socket,    \* the channel signal_socket_tx / signal_socket_rx
  sig_listening,    \* the AtomicBool of TEventLoop
  ssock,            \* bytes in the self-socket of each run
  reader,           \* program point of the reader task that each run spawns
  \* histories: handles passed to schedule_handle; how many of them it sent, and
  \* the place of each among them, 0 for none; the Immediate ones in the order
  \* they left current_handles; handles the end of a run discarded, or
  \* schedule_handle ignored; signals sent
  used, sends, place, gone, discarded, ignored, sent

taskvars == <<current_handles, delayed_tasks, running>>
queuevars == <<scheduler, when, used, sends, place, ignored>>
sigvars == <<signal_socket, sig_listening, ssock, reader, sent>>
iovars == <<io_callbacks, io_handles>>
vars == <<lpc, now, runs, taskvars, queuevars, stopping, closed, cancelled, iovars, sigvars,
          gone, discarded>>

Runs == 1..MaxRuns
LoopPCs == {"off", "select", "callback", "check", "ending"}

\* the orders in which the members of a set can come
Orders(S) == {q \in [1..Cardinality(S) -> S] : \A i, j \in DOMAIN q : i # j => q[i] # q[j]}

Pending == Range(scheduler) \cup delayed_tasks \cup Range(current_handles)

Init ==
  /\ lpc = "off" /\ now = 0 /\ runs = 0
  /\ scheduler = <<>> /\ when = [h \in Handles |-> Soon]
  /\ current_handles = <<>> /\ delayed_tasks = {} /\ running = NoHandle
  /\ stopping = FALSE /\ closed = FALSE /\ cancelled = {}
  /\ io_callbacks = [f \in Fds |-> [reader |-> NoHandle, writer |-> NoHandle]]
  /\ io_handles = {}
  /\ signal_socket = <<>> /\ sig_listening = FALSE
  /\ ssock = [r \in Runs |-> <<>>] /\ reader = [r \in Runs |-> "none"]
  /\ used = {} /\ sends = 0 /\ place = [h \in Handles |-> 0] /\ gone = <<>> /\ discarded = {}
  /\ ignored = {} /\ sent = 0
-----------------------------------------------------------------------------
(***************************************************************************)
(* The loop task.                                                          *)
(***************************************************************************)

\* _run_forever_pre opens a self-socket and spawns its reader (_ssock_set)
RunForever ==
  /\ lpc = "off" /\ ~closed /\ runs < MaxRuns
  /\ runs' = runs + 1 /\ lpc' = "select"
  /\ reader' = [reader EXCEPT ![runs + 1] = "spawned"]
  /\ UNCHANGED <<now, taskvars, queuevars, stopping, closed, cancelled, iovars, signal_socket,
                 sig_listening, ssock, sent, gone, discarded>>

\* mutation: immediate tasks join the heap when others wait already
ImmediateIfIdle(h) == when[h] = Soon /\ current_handles = <<>>
Immediate(h) == when[h] = Soon

\* scheduler_rx.recv()
RecvTask ==
  /\ lpc = "select" /\ lpc' = "check" /\ scheduler # <<>>
  /\ scheduler' = Tail(scheduler)
  /\ LET h == Head(scheduler)
     IN \/ /\ Immediate(h) /\ current_handles' = Append(current_handles, h)
           /\ UNCHANGED delayed_tasks
        \/ /\ ~Immediate(h) /\ delayed_tasks' = delayed_tasks \cup {h}
           /\ UNCHANGED current_handles
  /\ UNCHANGED <<now, runs, when, used, sends, place, ignored, running, stopping, closed, cancelled, iovars,
                 sigvars, gone, discarded>>

\* mutation: a timer fires a tick early
DueEarly(h) == when[h] <= now + 1
Due(h) == when[h] <= now

\* the due timers leave the heap in the order of `when`; cancelled ones go nowhere
TimerExpire ==
  /\ lpc = "select" /\ lpc' = "check"
  /\ LET due == {h \in delayed_tasks : Due(h)}
     IN /\ due # {} /\ delayed_tasks' = delayed_tasks \ due
        /\ \E q \in Orders(due \ cancelled) :
             /\ \A i, j \in DOMAIN q : i < j => when[q[i]] <= when[q[j]]
             /\ current_handles' = current_handles \o q
  /\ UNCHANGED <<now, runs, queuevars, running, stopping, closed, cancelled, iovars, sigvars, gone,
                 discarded>>

\* the sleep of at most 100 microseconds towards the first timer, or the one
\* of a millisecond when there is none, ends; a timer may have become due
\* since the sleep began
SelectSleep ==
  /\ lpc = "select" /\ lpc' = "check"
  /\ UNCHANGED <<now, runs, taskvars, queuevars, stopping, closed, cancelled, iovars, sigvars, gone,
                 discarded>>

\* mutation: one of the two termination signals is not matched
StopsLoopOneOf(g) == g = CHOOSE t \in Termination : TRUE
StopsLoop(g) == g \in Termination

\* signal_socket_rx.recv()
RecvSignal ==
  /\ lpc = "select" /\ signal_socket # <<>>
  /\ signal_socket' = Tail(signal_socket)
  /\ stopping' = (stopping \/ StopsLoop(Head(signal_socket)))
  /\ lpc' = IF sig_listening THEN "check" ELSE "ending"
  /\ UNCHANGED <<now, runs, taskvars, queuevars, closed, cancelled, iovars, sig_listening, ssock,
                 reader, sent, gone, discarded>>

\* mutation: the queue is emptied for one callback
TakeFirstDropRest == current_handles' = <<>> /\ running' = Head(current_handles)
TakeFirst == current_handles' = Tail(current_handles) /\ running' = Head(current_handles)

\* current_handles_rx.recv()
RecvHandle ==
  /\ lpc = "select" /\ current_handles # <<>> /\ TakeFirst
  /\ lpc' = IF running' \in cancelled THEN "check" ELSE "callback"
  /\ gone' = IF when[running'] = Soon THEN Append(gone, running') ELSE gone
  /\ UNCHANGED <<now, runs, queuevars, delayed_tasks, stopping, closed, cancelled, iovars, sigvars,
                 discarded>>

CallbackReturn ==
  /\ lpc = "callback" /\ lpc' = "check"
  /\ UNCHANGED <<now, runs, taskvars, queuevars, stopping, closed, cancelled, iovars, sigvars, gone,
                 discarded>>

\* mutation: `stopping` is looked at after callbacks only
StopSeenAfterCallback == stopping /\ running # NoHandle
StopSeen == stopping

CheckStop ==
  /\ lpc = "check" /\ running' = NoHandle
  /\ lpc' = IF StopSeen THEN "ending" ELSE "select"
  /\ UNCHANGED <<now, runs, queuevars, current_handles, delayed_tasks, stopping, closed, cancelled,
                 iovars, sigvars, gone, discarded>>

\* the locals of the task are dropped with it; _run_forever_post follows
\* (_ssock_del, then _stopping = False)
RunEnd ==
  /\ lpc = "ending" /\ lpc' = "off"
  /\ current_handles' = <<>> /\ delayed_tasks' = {} /\ running' = NoHandle
  /\ discarded' = discarded \cup Range(current_handles) \cup delayed_tasks
  /\ sig_listening' = FALSE /\ stopping' = FALSE
  /\ UNCHANGED <<now, runs, queuevars, closed, cancelled, iovars, signal_socket, ssock, reader, sent,
                 gone>>
-----------------------------------------------------------------------------
(***************************************************************************)
(* Calls from callbacks, from other threads and from outside of a run.     *)
(***************************************************************************)
\* mutation: the newest task goes first
SendFirst(h) == scheduler' = <<h>> \o scheduler
Send(h) == scheduler' = Append(scheduler, h)

\* schedule_handle ignores what comes while the loop is stopping or closed
Schedule(h, w) ==
  /\ h \in Handles \ used /\ used' = used \cup {h}
  /\ when' = [when EXCEPT ![h] = w]
  /\ \/ /\ stopping \/ closed
        /\ ignored' = ignored \cup {h} /\ UNCHANGED <<scheduler, sends, place>>
     \/ /\ ~(stopping \/ closed)
        /\ Send(h) /\ sends' = sends + 1 /\ place' = [place EXCEPT ![h] = sends + 1]
        /\ UNCHANGED ignored

CallSoon(h) ==
  /\ Schedule(h, Soon)
  /\ UNCHANGED <<lpc, now, runs, taskvars, stopping, closed, cancelled, iovars, sigvars, gone,
                 discarded>>

CallLater(h, delay) ==
  /\ now + delay <= MaxTime \* bound: timers beyond the last tick
  /\ Schedule(h, now + delay)
  /\ UNCHANGED <<lpc, now, runs, taskvars, stopping, closed, cancelled, iovars, sigvars, gone,
                 discarded>>

\* the callback is stored, in place of what was there, and scheduled at once
AddReader(f, h) ==
  /\ Schedule(h, Soon)
  /\ io_callbacks' = [io_callbacks EXCEPT ![f] = [reader |-> h, writer |-> NoHandle]]
  /\ io_handles' = io_handles \cup {h}
  /\ UNCHANGED <<lpc, now, runs, taskvars, stopping, closed, cancelled, sigvars, gone,
                 discarded>>

AddWriter(f, h) ==
  /\ Schedule(h, Soon)
  /\ io_callbacks' = [io_callbacks EXCEPT ![f] = [reader |-> NoHandle, writer |-> h]]
  /\ io_handles' = io_handles \cup {h}
  /\ UNCHANGED <<lpc, now, runs, taskvars, stopping, closed, cancelled, sigvars, gone,
                 discarded>>

\* remove_reader and remove_writer both drop the whole entry
RemoveIo(f) ==
  /\ io_callbacks[f] # [reader |-> NoHandle, writer |-> NoHandle]
  /\ io_callbacks' = [io_callbacks EXCEPT ![f] = [reader |-> NoHandle, writer |-> NoHandle]]
  /\ UNCHANGED <<lpc, now, runs, taskvars, queuevars, stopping, closed, cancelled, io_handles,
                 sigvars, gone, discarded>>

\* TCBHandle.cancel; nobody has the handles that add_reader and add_writer schedule
Cancel(h) ==
  /\ h \in used \ (cancelled \cup io_handles) /\ cancelled' = cancelled \cup {h}
  /\ UNCHANGED <<lpc, now, runs, taskvars, queuevars, stopping, closed, iovars, sigvars, gone,
                 discarded>>

Stop ==
  /\ ~stopping /\ stopping' = TRUE
  /\ UNCHANGED <<lpc, now, runs, taskvars, queuevars, closed, cancelled, iovars, sigvars, gone,
                 discarded>>

Close ==
  /\ lpc = "off" /\ ~closed /\ closed' = TRUE
  /\ UNCHANGED <<lpc, now, runs, taskvars, queuevars, stopping, cancelled, iovars, sigvars, gone,
                 discarded>>
-----------------------------------------------------------------------------
(***************************************************************************)
(* Signals: the reader task of each run, and the environment.              *)
(***************************************************************************)
SocketOpen(r) == r = runs /\ lpc # "off"

\* dup() runs when the spawned task does; if the run is over by then, the
\* number is free (dup fails) or belongs to another file
ReaderStart(r) ==
  /\ reader[r] = "spawned"
  /\ \/ /\ SocketOpen(r) /\ reader' = [reader EXCEPT ![r] = "reading"] /\ sig_listening' = TRUE
     \/ /\ ~SocketOpen(r) /\ reader' = [reader EXCEPT ![r] = "done"] /\ UNCHANGED sig_listening
     \/ /\ ~SocketOpen(r) /\ reader' = [reader EXCEPT ![r] = "astray"] /\ sig_listening' = TRUE
  /\ UNCHANGED <<lpc, now, runs, taskvars, queuevars, stopping, closed, cancelled, iovars,
                 signal_socket, ssock, sent, gone, discarded>>

\* every byte of a read is forwarded; check_signals does nothing off the main thread
ReaderRead(r) ==
  /\ reader[r] = "reading" /\ ssock[r] # <<>>
  /\ \/ /\ ~sig_listening /\ reader' = [reader EXCEPT ![r] = "done"]
        /\ UNCHANGED <<signal_socket, ssock>>
     \/ /\ sig_listening /\ signal_socket' = signal_socket \o ssock[r]
        /\ ssock' = [ssock EXCEPT ![r] = <<>>] /\ UNCHANGED reader
  /\ UNCHANGED <<lpc, now, runs, taskvars, queuevars, stopping, closed, cancelled, iovars,
                 sig_listening, sent, gone, discarded>>

\* the C handler writes to the wakeup fd, set from _signals_resume to _signals_pause
SignalArrive(g) ==
  /\ lpc # "off" /\ sent < MaxSignals /\ sent' = sent + 1
  /\ ssock' = [ssock EXCEPT ![runs] = Append(@, g)]
  /\ UNCHANGED <<lpc, now, runs, taskvars, queuevars, stopping, closed, cancelled, iovars,
                 signal_socket, sig_listening, reader, gone, discarded>>

Tick ==
  /\ now < MaxTime /\ now' = now + 1
  /\ UNCHANGED <<lpc, runs, taskvars, queuevars, stopping, closed, cancelled, iovars, sigvars, gone,
                 discarded>>
-----------------------------------------------------------------------------
SelectBranch ==
  RecvTask \/ TimerExpire \/ SelectSleep \/ RecvSignal \/ RecvHandle

LoopTask == SelectBranch \/ CallbackReturn \/ CheckStop \/ RunEnd

Calls ==
  \/ RunForever \/ Stop \/ Close
  \/ \E h \in Handles : \/ CallSoon(h) \/ Cancel(h)
                        \/ \E d \in Delays : CallLater(h, d)
                        \/ \E f \in Fds : AddReader(f, h) \/ AddWriter(f, h)
  \/ \E f \in Fds : RemoveIo(f)

Readers == \E r \in Runs : ReaderStart(r) \/ ReaderRead(r)

Environment ==
  \/ Tick
  \/ \E g \in SigNums : SignalArrive(g)

Next == LoopTask \/ Calls \/ Readers \/ Environment

\* tokio runs every task that is ready, and select! starts from a random
\* branch, so a branch that is ready again and again is taken; callbacks
\* return and time passes
Fairness ==
  /\ WF_vars(LoopTask) /\ WF_vars(Tick)
  /\ SF_vars(RecvTask) /\ SF_vars(TimerExpire) /\ SF_vars(RecvSignal) /\ SF_vars(RecvHandle)
  /\ \A r \in Runs : WF_vars(ReaderStart(r)) /\ WF_vars(ReaderRead(r))

Spec == Init /\ [][Next]_vars /\ Fairness
-----------------------------------------------------------------------------
(***************************************************************************)
(* Properties.                                                             *)
(***************************************************************************)

\* The state of the loop has its type; the heap holds timers only.
TypeOK ==
  /\ lpc \in LoopPCs /\ now \in Nat /\ runs \in 0..MaxRuns
  /\ scheduler \in Seq(Handles) /\ when \in [Handles -> Nat \cup {Soon}]
  /\ current_handles \in Seq(Handles)
  /\ delayed_tasks \subseteq {h \in Handles : when[h] \in Nat}
  /\ running \in Handles \cup {NoHandle}
  /\ stopping \in BOOLEAN /\ closed \in BOOLEAN /\ cancelled \subseteq Handles
  /\ io_callbacks \in [Fds -> [reader : Handles \cup {NoHandle}, writer : Handles \cup {NoHandle}]]
  /\ io_handles \subseteq used
  /\ signal_socket \in Seq(SigNums) /\ sig_listening \in BOOLEAN
  /\ ssock \in [Runs -> Seq(SigNums)]
  /\ reader \in [Runs -> {"none", "spawned", "reading", "astray", "done"}]
  /\ used \subseteq Handles /\ sends \in Nat /\ place \in [Handles -> Nat] /\ gone \in Seq(Handles)
  /\ discarded \subseteq Handles /\ ignored \subseteq Handles /\ sent \in Nat

\* g was sent before h, if both are Immediate
SentBefore(g, h) == when[g] = Soon /\ when[h] = Soon => place[g] < place[h]

\* call_soon: the Immediate tasks leave in the order they were sent, each one
\* once, although they pass two channels and share the second with timers;
\* the end of a run discards only what already was in the second, so what was
\* sent before a discarded one has left, or is discarded too.
SoonFifo ==
  /\ \A q \in {gone, current_handles, scheduler} :
       \A i, j \in DOMAIN q : i < j => SentBefore(q[i], q[j])
  /\ \A g \in Range(gone), h \in Range(current_handles) \cup Range(scheduler) : SentBefore(g, h)
  /\ \A g \in Range(current_handles), h \in Range(scheduler) : SentBefore(g, h)
  /\ \A g \in Handles : place[g] > 0 /\ when[g] = Soon =>
       \/ g \in Range(gone) \cup discarded
       \/ /\ g \in Range(current_handles) \cup Range(scheduler)
          /\ \A h \in discarded : when[h] = Soon => place[h] < place[g]

\* call_later: no timer reaches the callbacks before its time.  Until it is due
\* one that the loop accepted is in the channel or in the heap, unless the end of
\* a run drops it.
TimersKept ==
  \A h \in used \ (ignored \cup discarded) :
    when[h] # Soon =>
      \/ h \in Range(scheduler) \cup delayed_tasks
      \/ when[h] <= now

\* Whatever waits in the channels or in the heap while the loop runs reaches
\* its callback, or is cancelled, unless the run ends first.
ScheduledRuns ==
  \A h \in Handles :
    (lpc # "off" /\ h \in Pending) ~> (running = h \/ h \in cancelled \/ lpc = "off")

\* stop(), and a termination signal, end the run.
StopEnds == (stopping /\ lpc # "off") ~> (lpc = "off")

\* A termination signal that the reader took ends the run.
SignalStops ==
  (lpc # "off" /\ \E i \in DOMAIN signal_socket : signal_socket[i] \in Termination)
    ~> (lpc = "off")
=============================================================================
