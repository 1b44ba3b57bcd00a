--------------------------- MODULE EventLoopProofs ---------------------------
(***************************************************************************)
(* Proofs about EventLoop, for every value of its constants.               *)
(***************************************************************************)
EXTENDS EventLoop, FiniteSetTheorems, SequenceTheorems, TLAPS

\* The orders of a finite set are sequences of its members (the order in which
\* events and equal timers reach a batch).
LEMMA OrdersAreSequences ==
  ASSUME NEW S, IsFiniteSet(S), NEW q \in Orders(S)
  PROVE  q \in Seq(S)
<1>1. Cardinality(S) \in Nat
  BY FS_CardinalityType
<1>2. QED
  BY <1>1 DEF Orders

\* The signals of a batch are signals that were read from the self-socket.
LEMMA SignalSequences ==
  ASSUME TypeOK, NEW sigs \in SignalBatches
  PROVE  sigs \in Seq(Signals)
<1>0. SockRead \in Seq(Signals)
  BY DEF TypeOK, SignalType, SockRead
<1>1. PICK e \in Orders(HandledBytes) : sigs = [k \in DOMAIN e |-> SockRead[e[k]]]
  BY DEF SignalBatches
<1>2. HandledBytes \subseteq 1..Len(SockRead) /\ Len(SockRead) \in Nat
  BY <1>0 DEF HandledBytes
<1>3. IsFiniteSet(HandledBytes)
  <2>1. IsFiniteSet(1..Len(SockRead))
    BY <1>2, FS_Interval
  <2>2. QED
    BY <1>2, <2>1, FS_Subset
<1>4. e \in Seq(HandledBytes)
  BY <1>3, OrdersAreSequences
<1>5. \A i \in HandledBytes : SockRead[i] \in Signals
  BY <1>0, <1>2
<1>6. DOMAIN e = 1..Len(e) /\ Len(e) \in Nat /\ \A k \in 1..Len(e) : e[k] \in HandledBytes
  BY <1>4
<1>7. sigs \in [1..Len(e) -> Signals]
  BY <1>1, <1>5, <1>6
<1>8. QED
  BY <1>6, <1>7

\* What step() appends to a batch are callbacks the loop knows.
LEMMA BatchTypes ==
  ASSUME TypeOK
  PROVE  /\ SockLeft \in Seq(Signals)
         /\ \A S \in SUBSET Sources : \A q \in Orders(S) : q \in Seq(Callbacks)
         /\ \A sigs \in SignalBatches : sigs \in Seq(Callbacks)
         /\ \A q \in TimerBatches : q \in Seq(Callbacks)
<1>1. SockRead \in Seq(Signals) /\ SockLeft \in Seq(Signals)
  BY DEF TypeOK, SignalType, SockRead, SockLeft
<1>2. ASSUME NEW sigs \in SignalBatches PROVE sigs \in Seq(Signals)
  BY SignalSequences
<1>3. ASSUME NEW S \in SUBSET Sources, NEW q \in Orders(S) PROVE q \in Seq(Callbacks)
  <2>1. IsFiniteSet(S)
    BY ConstantsAssumption, FS_Subset
  <2>2. q \in Seq(S)
    BY <2>1, OrdersAreSequences
  <2>3. QED
    BY <2>2 DEF Callbacks
<1>4. ASSUME NEW q \in TimerBatches PROVE q \in Seq(Callbacks)
  <2>1. q \in Orders(Due) /\ Due \subseteq Handles
    BY <1>4 DEF TimerBatches, Due, TypeOK, TimerType
  <2>2. IsFiniteSet(Due)
    BY <2>1, ConstantsAssumption, FS_Subset
  <2>3. q \in Seq(Due)
    BY <2>1, <2>2, OrdersAreSequences
  <2>4. QED
    BY <2>1, <2>3 DEF Callbacks
<1>5. QED
  BY <1>1, <1>2, <1>3, <1>4 DEF Callbacks

\* A step that leaves the variables of a part of the state alone keeps its type.
LEMMA TypeFrame ==
  ASSUME TypeOK
  PROVE  /\ UNCHANGED <<lpc, gil, now, runs, stopping, cancelled, tpc>> => ControlType'
         /\ UNCHANGED readyvars => ReadyType'
         /\ UNCHANGED timervars => TimerType'
         /\ UNCHANGED <<wakevars, pollvars>> => PollType'
         /\ UNCHANGED batchvars /\ lpc' # "collect" => BatchType'
         /\ UNCHANGED batchvars /\ UNCHANGED lpc => BatchType'
         /\ UNCHANGED iovars => IoType'
         /\ UNCHANGED sigvars => SignalType'
         /\ UNCHANGED histvars => HistoryType'
<1>1. UNCHANGED <<lpc, gil, now, runs, stopping, cancelled, tpc>> => ControlType'
  BY DEF TypeOK, ControlType
<1>2. UNCHANGED readyvars => ReadyType'
  BY DEF TypeOK, ReadyType, readyvars
<1>3. UNCHANGED timervars => TimerType'
  BY DEF TypeOK, TimerType, timervars
<1>4. UNCHANGED <<wakevars, pollvars>> => PollType'
  BY DEF TypeOK, PollType, wakevars, pollvars
<1>5. /\ UNCHANGED batchvars /\ lpc' # "collect" => BatchType'
      /\ UNCHANGED batchvars /\ UNCHANGED lpc => BatchType'
  BY DEF TypeOK, BatchType, batchvars
<1>6. UNCHANGED iovars => IoType'
  BY DEF TypeOK, IoType, iovars
<1>7. UNCHANGED sigvars => SignalType'
  BY DEF TypeOK, SignalType, sigvars
<1>8. UNCHANGED histvars => HistoryType'
  BY DEF TypeOK, HistoryType, histvars
<1>9. QED
  BY <1>1, <1>2, <1>3, <1>4, <1>5, <1>6, <1>7, <1>8

\* The collection of a batch, which appends I/O callbacks and timers, keeps the
\* types (StepCollect is the only step with a choice of orders).
LEMMA CollectTypes ==
  ASSUME TypeOK, StepCollect
  PROVE  TypeOK'
<1>1. PICK before \in SUBSET (Dispatched \cap Sources) :
        \E io1 \in Orders(before), io2 \in Orders((Dispatched \cap Sources) \ before),
           sigs \in SignalBatches, timers \in TimerBatches :
          cb_handles' = cb_handles \o io1 \o sigs \o io2 \o timers
  BY DEF StepCollect
<1>2. PICK io1 \in Orders(before), io2 \in Orders((Dispatched \cap Sources) \ before),
           sigs \in SignalBatches, timers \in TimerBatches :
        cb_handles' = cb_handles \o io1 \o sigs \o io2 \o timers
  BY <1>1
<1>3. /\ io1 \in Seq(Callbacks) /\ io2 \in Seq(Callbacks)
      /\ sigs \in Seq(Callbacks) /\ timers \in Seq(Callbacks)
  BY BatchTypes
<1>4. BatchType'
  <2>1. cb_handles' \in Seq(Callbacks)
    BY <1>2, <1>3 DEF TypeOK, BatchType
  <2>2. QED
    BY <2>1 DEF StepCollect, TypeOK, BatchType
<1>5. SignalType'
  BY BatchTypes DEF StepCollect, TypeOK, SignalType
<1>6. ReadyType'
  <2>1. counter_ready \in 0..(CounterMod - 1) /\ CounterMod \in Nat
    BY ConstantsAssumption DEF TypeOK, ReadyType
  <2>2. Len(cb_handles) \in 0..MaxReady /\ MaxReady \in Nat /\ MaxReady < CounterMod
    BY ConstantsAssumption DEF TypeOK, BatchType, StepCollect
  <2>3. counter_ready' \in 0..(CounterMod - 1)
    BY <2>1, <2>2 DEF StepCollect, CountTaken, Dec
  <2>4. QED
    BY <2>3 DEF StepCollect, TypeOK, ReadyType
<1>7. ControlType'
  BY DEF StepCollect, TypeOK, ControlType, LoopPCs, HoldsGil
<1>8. TimerType'
  BY DEF StepCollect, TypeOK, TimerType
<1>9. IoType'
  BY DEF StepCollect, TypeOK, IoType
<1>10. QED
  BY <1>4, <1>5, <1>6, <1>7, <1>8, <1>9, TypeFrame DEF StepCollect, TypeOK

\* Every step of the loop thread keeps the types.
LEMMA LoopStepTypes ==
  ASSUME TypeOK, LoopStep
  PROVE  TypeOK'
<1> USE ConstantsAssumption DEF TypeOK
<1>1. CASE RunCheck
  <2>1. ControlType'
    BY <1>1 DEF RunCheck, LeaveRun, Release, ControlType, LoopPCs, HoldsGil
  <2>2. SignalType'
    <3>1. ssock' = ssock \/ ssock' = <<>>
      BY <1>1 DEF RunCheck, LeaveRun
    <3>2. ssock \in Seq(Signals)
      BY DEF SignalType
    <3>3. <<>> \in Seq(Signals)
      OBVIOUS
    <3>4. ssock' \in Seq(Signals)
      BY <3>1, <3>2, <3>3, Zenon
    <3>5. QED
      BY <1>1, <3>4 DEF RunCheck, SignalType
  <2>3. QED
    BY <1>1, <2>1, <2>2, TypeFrame DEF RunCheck, LeaveRun, TypeOK
<1>2. CASE StepLoadCounter
  <2>1. ControlType'
    BY <1>2 DEF StepLoadCounter, ControlType, LoopPCs, HoldsGil
  <2>2. PollType'
    BY <1>2 DEF StepLoadCounter, ControlType, PollType, wakevars, pollvars
  <2>3. QED
    BY <1>2, <2>1, <2>2, TypeFrame DEF StepLoadCounter, TypeOK
<1>3. CASE StepPeekTimer
  <2>1. ControlType'
    BY <1>3 DEF StepPeekTimer, ControlType, LoopPCs, HoldsGil
  <2>2. PollType'
    BY <1>3 DEF StepPeekTimer, TimerType, PollType, wakevars, pollvars
  <2>3. QED
    BY <1>3, <2>1, <2>2, TypeFrame DEF StepPeekTimer, TypeOK
<1>4. CASE StepDetach
  <2>1. ControlType'
    BY <1>4 DEF StepDetach, Release, ControlType, LoopPCs, HoldsGil
  <2>2. PollType'
    BY <1>4 DEF StepDetach, PublishIdle, PollType, wakevars, pollvars
  <2>3. QED
    BY <1>4, <2>1, <2>2, TypeFrame DEF StepDetach, TypeOK
<1>5. CASE PollReturn
  <2>1. ControlType'
    BY <1>5 DEF PollReturn, ControlType, LoopPCs, HoldsGil
  <2>2. PollType'
    BY <1>5 DEF PollReturn, TakeEvents, PollType, wakevars, pollvars
  <2>3. BatchType'
    BY <1>5 DEF PollReturn, TakeEvents, IoType, BatchType, batchvars
  <2>4. IoType'
    BY <1>5 DEF PollReturn, TakeEvents, IoType, iovars
  <2>5. SignalType'
    BY <1>5 DEF PollReturn, SignalType, sigvars
  <2>6. QED
    BY <1>5, <2>1, <2>2, <2>3, <2>4, <2>5, TypeFrame DEF PollReturn, TypeOK
<1>6. CASE PollInterrupted
  <2>1. ControlType'
    BY <1>6 DEF PollInterrupted, ControlType, LoopPCs, HoldsGil
  <2>2. PollType'
    BY <1>6 DEF PollInterrupted, PollType, wakevars, pollvars
  <2>3. BatchType'
    BY <1>6 DEF PollInterrupted, BatchType, batchvars
  <2>4. SignalType'
    BY <1>6 DEF PollInterrupted, SignalType, sigvars
  <2>5. QED
    BY <1>6, <2>1, <2>2, <2>3, <2>4, TypeFrame DEF PollInterrupted, TypeOK
<1>7. CASE StepClearIdle
  <2>1. ControlType'
    BY <1>7 DEF StepClearIdle, ControlType, LoopPCs, HoldsGil
  <2>2. PollType'
    BY <1>7 DEF StepClearIdle, TakeEvents, PollType, wakevars, pollvars
  <2>3. BatchType'
    BY <1>7 DEF StepClearIdle, TakeEvents, IoType, BatchType, batchvars
  <2>4. IoType'
    BY <1>7 DEF StepClearIdle, TakeEvents, IoType, iovars
  <2>5. QED
    BY <1>7, <2>1, <2>2, <2>3, <2>4, TypeFrame DEF StepClearIdle, TypeOK
<1>8. CASE StepAttach
  <2>1. ControlType'
    BY <1>8 DEF StepAttach, Acquire, ControlType, LoopPCs, HoldsGil
  <2>2. PollType'
    BY <1>8 DEF StepAttach, ControlType, PollType, wakevars, pollvars
  <2>3. QED
    BY <1>8, <2>1, <2>2, TypeFrame DEF StepAttach, TypeOK
<1>9. CASE StepSwap
  <2>1. ControlType'
    BY <1>9 DEF StepSwap, ControlType, LoopPCs, HoldsGil
  <2>2. ReadyType'
    BY <1>9 DEF StepSwap, ReadyType, readyvars
  <2>3. BatchType'
    BY <1>9 DEF StepSwap, Callbacks, ReadyType, BatchType, batchvars
  <2>4. QED
    BY <1>9, <2>1, <2>2, <2>3, TypeFrame DEF StepSwap, TypeOK
<1>10. CASE StepCollect
  BY <1>10, CollectTypes
<1>11. CASE RunNext
  <2>1. ControlType'
    BY <1>11 DEF RunNext, Release, ControlType, LoopPCs, HoldsGil
  <2>2. BatchType'
    BY <1>11 DEF RunNext, BatchType, batchvars
  <2>3. HistoryType'
    BY <1>11 DEF RunNext, Soon, BatchType, HistoryType, histvars
  <2>4. QED
    BY <1>11, <2>1, <2>2, <2>3, TypeFrame DEF RunNext, TypeOK
<1>12. CASE CbReturn
  <2>1. ControlType'
    BY <1>12 DEF CbReturn, Acquire, ControlType, LoopPCs, HoldsGil
  <2>2. QED
    BY <1>12, <2>1, TypeFrame DEF CbReturn, TypeOK
<1>13. CASE StepEnd
  <2>1. ControlType'
    BY <1>13 DEF StepEnd, LeaveRun, Release, ControlType, LoopPCs, HoldsGil
  <2>2. SignalType'
    <3>1. ssock' = ssock \/ ssock' = <<>>
      BY <1>13 DEF StepEnd, LeaveRun
    <3>2. ssock \in Seq(Signals)
      BY DEF SignalType
    <3>3. <<>> \in Seq(Signals)
      OBVIOUS
    <3>4. ssock' \in Seq(Signals)
      BY <3>1, <3>2, <3>3, Zenon
    <3>5. QED
      BY <1>13, <3>4 DEF StepEnd, SignalType
  <2>3. QED
    BY <1>13, <2>1, <2>2, TypeFrame DEF StepEnd, LeaveRun, TypeOK
<1>14. QED
  BY <1>1, <1>2, <1>3, <1>4, <1>5, <1>6, <1>7, <1>8, <1>9, <1>10, <1>11, <1>12, <1>13
     DEF LoopStep

\* Queueing a handle, and adding a timer, keep the types of what they change.
LEMMA PushTypes ==
  ASSUME TypeOK, NEW h \in Handles
  PROVE  /\ PushReady(h) => /\ handles_ready' \in Seq(Handles) /\ order' \in Seq(Handles)
                           /\ Len(handles_ready') <= MaxReady
                           /\ used' \subseteq Handles
         /\ \A d \in Delays : NewTimer(h, d) => when' \in [Handles -> Nat] /\ used' \subseteq Handles
         /\ PushTimer(h) => handles_sched' \subseteq Handles
<1>1. handles_ready \in Seq(Handles) /\ order \in Seq(Handles) /\ MaxReady \in Nat
  BY ConstantsAssumption DEF TypeOK, ReadyType, HistoryType
<1>2. PushReady(h) => /\ handles_ready' \in Seq(Handles) /\ order' \in Seq(Handles)
                      /\ Len(handles_ready') <= MaxReady
  BY <1>1 DEF PushReady
<1>3. PushReady(h) => used' \subseteq Handles
  BY DEF PushReady, TypeOK, HistoryType
<1>4. ASSUME NEW d \in Delays, NewTimer(h, d)
      PROVE  when' \in [Handles -> Nat] /\ used' \subseteq Handles
  <2>1. now \in Nat /\ d \in Nat /\ when \in [Handles -> Nat]
    BY ConstantsAssumption DEF TypeOK, ControlType, TimerType
  <2>2. when' \in [Handles -> Nat]
    BY <1>4, <2>1 DEF NewTimer
  <2>3. QED
    BY <1>4, <2>2 DEF NewTimer, TypeOK, HistoryType
<1>5. PushTimer(h) => handles_sched' \subseteq Handles
  BY DEF PushTimer, TypeOK, TimerType
<1>6. QED
  BY <1>2, <1>3, <1>4, <1>5

\* Every call from Python code on the loop thread keeps the types.
LEMMA LoopCallTypes ==
  ASSUME TypeOK, LoopCall
  PROVE  TypeOK'
<1> USE ConstantsAssumption DEF TypeOK
<1>1. CASE RunForever
  <2>1. ControlType'
    BY <1>1 DEF RunForever, Acquire, ControlType, LoopPCs, HoldsGil
  <2>2. PollType'
    BY <1>1 DEF RunForever, PollType, wakevars, pollvars
  <2>3. BatchType'
    BY <1>1 DEF RunForever, BatchType, batchvars
  <2>4. IoType'
    BY <1>1 DEF RunForever, IoType, iovars
  <2>5. SignalType'
    <3>1. ssock' \in Seq(Signals)
      BY <1>1 DEF RunForever, SignalType, sigvars
    <3>2. QED
      BY <1>1, <3>1 DEF RunForever, SignalType
  <2>6. QED
    BY <1>1, <2>1, <2>2, <2>3, <2>4, <2>5, TypeFrame DEF RunForever, TypeOK
<1>2. CASE Stop
  <2>1. ControlType'
    BY <1>2 DEF Stop, ControlType, LoopPCs, HoldsGil
  <2>2. QED
    BY <1>2, <2>1, TypeFrame DEF Stop, TypeOK
<1>3. ASSUME NEW h \in Handles, CallSoon(h) PROVE TypeOK'
  <2>1. ReadyType'
    BY <1>3, PushTypes DEF CallSoon, Inc, ReadyType, readyvars
  <2>2. HistoryType'
    BY <1>3, PushTypes DEF CallSoon, HistoryType, histvars
  <2>3. QED
    BY <1>3, <2>1, <2>2, TypeFrame DEF CallSoon, TypeOK
<1>4. ASSUME NEW h \in Handles, Cancel(h) PROVE TypeOK'
  <2>1. ControlType'
    BY <1>4 DEF Cancel, HistoryType, ControlType, LoopPCs, HoldsGil
  <2>2. QED
    BY <1>4, <2>1, TypeFrame DEF Cancel, TypeOK
<1>5. ASSUME NEW h \in Handles, NEW d \in Delays, CallLater(h, d) PROVE TypeOK'
  <2>1. TimerType'
    BY <1>5, PushTypes DEF CallLater, TimerType, timervars
  <2>2. HistoryType'
    BY <1>5, PushTypes DEF CallLater, HistoryType, histvars
  <2>3. QED
    BY <1>5, <2>1, <2>2, TypeFrame DEF CallLater, TypeOK
<1>6. ASSUME NEW g \in Signals, AddSignalHandler(g) PROVE TypeOK'
  <2>1. SignalType'
    BY <1>6 DEF AddSignalHandler, SignalType, sigvars
  <2>2. QED
    BY <1>6, <2>1, TypeFrame DEF AddSignalHandler, TypeOK
<1>7. QED
  BY <1>1, <1>2, <1>3, <1>4, <1>5, <1>6 DEF LoopCall

\* Every step of another thread keeps the types.
LEMMA ThreadTypes ==
  ASSUME TypeOK, NEW t \in Threads, ThreadCall(t) \/ ThreadStep(t)
  PROVE  TypeOK'
<1> USE ConstantsAssumption DEF TypeOK
<1>1. ASSUME NEW h \in Handles, ThreadSoon(t, h) PROVE TypeOK'
  <2>1. ControlType'
    BY <1>1 DEF ThreadSoon, Acquire, Goto, ControlType, LoopPCs, HoldsGil
  <2>2. ReadyType'
    BY <1>1, PushTypes DEF ThreadSoon, ReadyType, readyvars
  <2>3. HistoryType'
    BY <1>1, PushTypes DEF ThreadSoon, HistoryType, histvars
  <2>4. QED
    BY <1>1, <2>1, <2>2, <2>3, TypeFrame DEF ThreadSoon, TypeOK
<1>2. ASSUME NEW h \in Handles, NEW d \in Delays, ThreadLater(t, h, d) PROVE TypeOK'
  <2>1. ControlType'
    BY <1>2 DEF ThreadLater, Acquire, Goto, ControlType, LoopPCs, HoldsGil
  <2>2. TimerType'
    BY <1>2, PushTypes DEF ThreadLater, TimerType, timervars
  <2>3. HistoryType'
    BY <1>2, PushTypes DEF ThreadLater, HistoryType, histvars
  <2>4. QED
    BY <1>2, <2>1, <2>2, <2>3, TypeFrame DEF ThreadLater, TypeOK
<1>2a. CASE ThreadPush(t)
  <2>1. ControlType'
    BY <1>2a DEF ThreadPush, Goto, ControlType, LoopPCs, HoldsGil
  <2>2. TimerType'
    BY <1>2a, PushTypes DEF ThreadPush, TimerType
  <2>3. QED
    BY <1>2a, <2>1, <2>2, TypeFrame DEF ThreadPush, TypeOK
<1>3. CASE ThreadCount(t)
  <2>1. ControlType'
    BY <1>3 DEF ThreadCount, Goto, ControlType, LoopPCs, HoldsGil
  <2>2. ReadyType'
    BY <1>3 DEF ThreadCount, Inc, ReadyType, readyvars
  <2>3. QED
    BY <1>3, <2>1, <2>2, TypeFrame DEF ThreadCount, TypeOK
<1>4. CASE ThreadWake(t)
  <2>1. ControlType'
    BY <1>4 DEF ThreadWake, Goto, Release, ControlType, LoopPCs, HoldsGil
  <2>2. PollType'
    BY <1>4 DEF ThreadWake, Wake, PollType, wakevars, pollvars
  <2>3. QED
    BY <1>4, <2>1, <2>2, TypeFrame DEF ThreadWake, TypeOK
<1>5. QED
  BY <1>1, <1>2, <1>2a, <1>3, <1>4 DEF ThreadCall, ThreadStep

\* Every step of the environment keeps the types.
LEMMA EnvironmentTypes ==
  ASSUME TypeOK, Environment
  PROVE  TypeOK'
<1> USE ConstantsAssumption DEF TypeOK
<1>1. CASE Tick
  <2>1. ControlType'
    BY <1>1 DEF Tick, ControlType, LoopPCs, HoldsGil
  <2>2. QED
    BY <1>1, <2>1, TypeFrame DEF Tick, TypeOK
<1>2. ASSUME NEW s \in Sources, SourceReady(s) PROVE TypeOK'
  <2>1. IoType'
    BY <1>2 DEF SourceReady, IoType, iovars
  <2>2. QED
    BY <1>2, <2>1, TypeFrame DEF SourceReady, TypeOK
<1>3. ASSUME NEW g \in Signals, SignalArrive(g) PROVE TypeOK'
  <2>1. IoType'
    BY <1>3 DEF SignalArrive, IoType, iovars
  <2>2. SignalType'
    <3>1. ssock' \in Seq(Signals)
      BY <1>3 DEF SignalArrive, SignalType, sigvars
    <3>2. eintr' \in BOOLEAN
      BY <1>3 DEF SignalArrive, SignalType
    <3>3. QED
      BY <1>3, <3>1, <3>2 DEF SignalArrive, SignalType
  <2>3. QED
    BY <1>3, <2>1, <2>2, TypeFrame DEF SignalArrive, TypeOK
<1>4. QED
  BY <1>1, <1>2, <1>3 DEF Environment

\* Every step keeps the types.
LEMMA NextTypes ==
  ASSUME TypeOK, [Next]_vars
  PROVE  TypeOK'
<1>1. CASE Next
  BY <1>1, LoopStepTypes, LoopCallTypes, ThreadTypes, EnvironmentTypes DEF Next
<1>2. CASE UNCHANGED vars
  BY <1>2, TypeFrame DEF vars, TypeOK
<1>3. QED
  BY <1>1, <1>2

\* The state of the loop keeps its type whatever the threads, the callbacks,
\* the clock and the signals do; the ready queue and the counter stay in bounds.
THEOREM TypeCorrect == Spec => []TypeOK
<1>1. Init => TypeOK
  <2> SUFFICES ASSUME Init PROVE TypeOK
    OBVIOUS
  <2>1. handles_ready \in Seq(Handles) /\ Len(handles_ready) <= MaxReady
    BY ConstantsAssumption DEF Init
  <2>2. cb_handles \in Seq(Callbacks) /\ ssock \in Seq(Signals)
    BY DEF Init
  <2>3. order \in Seq(Handles) /\ popped \in Seq(Handles)
    BY DEF Init
  <2>4. ReadyType
    BY <2>1, ConstantsAssumption DEF Init, ReadyType
  <2>5. ControlType /\ TimerType /\ PollType
    BY DEF Init, ControlType, TimerType, PollType, LoopPCs
  <2>6. BatchType /\ IoType /\ SignalType /\ HistoryType
    BY <2>2, <2>3 DEF Init, BatchType, IoType, SignalType, HistoryType
  <2>7. QED
    BY <2>4, <2>5, <2>6 DEF TypeOK
<1>2. TypeOK /\ [Next]_vars => TypeOK'
  BY NextTypes
<1>3. QED
  BY <1>1, <1>2, PTL DEF Spec
-----------------------------------------------------------------------------
(***************************************************************************)
(* With a GIL no wake-up is lost.  The argument: the loop holds the GIL    *)
(* from the load of counter_ready to the release in py.detach, so what it  *)
(* saw (nothing ready, no earlier timer) is still so when idle is          *)
(* published; and counter_ready is exact whenever the loop can load it,    *)
(* because a thread keeps the GIL from push_back to fetch_add.             *)
(***************************************************************************)

\* who holds the GIL is a function of the program points
GilHeld ==
  /\ gil = Loop <=> lpc \in HoldsGil
  /\ \A t \in Threads : gil = t <=> tpc[t] # "out"

\* counter_ready lags only between push_back and fetch_add
CountExact ==
  /\ lpc = "collect" => handles_ready = <<>> /\ counter_ready = Len(cb_handles)
  /\ lpc # "collect" =>
       \/ counter_ready = Len(handles_ready) /\ \A t \in Threads : tpc[t] # "count"
       \/ counter_ready + 1 = Len(handles_ready) /\ \E t \in Threads : tpc[t] = "count"

\* what the loop knows on its way to sleep
GoesToSleep ==
  /\ lpc = "sched" => idle_swap /\ handles_ready = <<>>
  /\ lpc = "detach" /\ idle_swap =>
       /\ handles_ready = <<>>
       /\ deadline # Never => \A h \in handles_sched : deadline <= when[h]
  /\ lpc = "poll" /\ idle_swap => idle

WakeInv == GilHeld /\ CountExact /\ GoesToSleep /\ NoLostWakeup /\ PollBounded

\* a timer that is queued, or about to be, is not made a second time
TimersUsed ==
  /\ handles_sched \subseteq used
  /\ \A t \in Threads : tpc[t] \in Handles => tpc[t] \in used

\* Every step gives the loop new timers only.
LEMMA UsedNext ==
  ASSUME TypeOK, TimersUsed, [Next]_vars
  PROVE  TimersUsed'
<1>0. tpc \in [Threads -> {"out", "count", "wake"} \cup Handles] /\ Handles \cap {"out", "count", "wake"} = {}
  BY ConstantsAssumption DEF TypeOK, ControlType
<1>1. CASE LoopStep \/ Environment \/ UNCHANGED vars
  <2>1. UNCHANGED <<tpc, used>> /\ handles_sched' \subseteq handles_sched
    BY <1>1 DEF LoopStep, RunCheck, StepLoadCounter, StepPeekTimer, StepDetach, PollReturn,
       PollInterrupted, StepClearIdle, StepAttach, StepSwap, StepCollect, RunNext, CbReturn, StepEnd,
       Environment, Tick, SourceReady, SignalArrive, vars, timervars, histvars
  <2>2. QED
    BY <2>1 DEF TimersUsed
<1>2. CASE LoopCall
  <2>1. /\ UNCHANGED tpc /\ used \subseteq used'
        /\ handles_sched' \subseteq handles_sched \cup (used' \ used)
    BY <1>2 DEF LoopCall, RunForever, Stop, CallSoon, Cancel, CallLater, AddSignalHandler, PushReady,
       NewTimer, PushTimer, timervars, histvars
  <2>2. QED
    BY <2>1 DEF TimersUsed
<1>3. ASSUME NEW t \in Threads, ThreadCall(t) \/ ThreadCount(t) \/ ThreadWake(t) PROVE TimersUsed'
  <2>1. /\ handles_sched' = handles_sched /\ used \subseteq used'
        /\ \E pc : tpc' = [tpc EXCEPT ![t] = pc] /\ (pc \in {"out", "count", "wake"} \/ pc \in used')
    BY <1>3 DEF ThreadCall, ThreadSoon, ThreadLater, ThreadCount, ThreadWake, PushReady, NewTimer, Goto,
       timervars, histvars
  <2>2. QED
    BY <1>0, <2>1 DEF TimersUsed
<1>4. ASSUME NEW t \in Threads, ThreadPush(t) PROVE TimersUsed'
  BY <1>0, <1>4 DEF TimersUsed, ThreadPush, PushTimer, Goto, histvars
<1>5. QED
  BY <1>1, <1>2, <1>3, <1>4 DEF Next, ThreadStep

\* Facts of the step lemmas below: the parts of the types they need.
LEMMA WakeTypes ==
  ASSUME TypeOK
  PROVE  /\ handles_ready \in Seq(Handles) /\ cb_handles \in Seq(Callbacks)
         /\ Len(handles_ready) \in 0..MaxReady /\ MaxReady \in Nat /\ CounterMod \in Nat
         /\ MaxReady < CounterMod /\ counter_ready \in 0..(CounterMod - 1)
         /\ tpc \in [Threads -> {"out", "count", "wake"} \cup Handles] /\ lpc \in LoopPCs
         /\ Handles \cap {"out", "count", "wake"} = {}
         /\ when \in [Handles -> Nat] /\ handles_sched \subseteq Handles /\ now \in Nat
         /\ Loop \notin Threads /\ Nobody \notin Threads /\ Loop # Nobody
         /\ Delays \subseteq Nat /\ Never \notin Nat /\ deadline \in Nat \cup {Never}
         /\ idle_swap \in BOOLEAN /\ idle \in BOOLEAN /\ woken \in BOOLEAN
BY ConstantsAssumption DEF TypeOK, ControlType, ReadyType, TimerType, PollType, BatchType

\* Every step of the loop thread preserves the invariant.
LEMMA WakeLoopStep ==
  ASSUME GIL = TRUE, TypeOK, WakeInv, LoopStep
  PROVE  WakeInv'
<1> USE WakeTypes DEF WakeInv, GilHeld, CountExact, GoesToSleep, NoLostWakeup, PollBounded,
        LoopPCs, HoldsGil, readyvars, timervars, wakevars, pollvars, batchvars
<1>1. CASE RunCheck
  BY <1>1 DEF RunCheck, LeaveRun, Release
<1>2. CASE StepLoadCounter
  <2>1. /\ lpc = "count" /\ lpc' \in {"swap", "detach", "sched"}
        /\ UNCHANGED <<gil, handles_ready, counter_ready, tpc>>
    BY <1>2 DEF StepLoadCounter
  <2>2. /\ lpc' = "sched" => ~(counter_ready > 0) /\ idle_swap'
        /\ lpc' = "detach" => ~idle_swap'
    <3>1. CASE counter_ready > 0
      BY <1>2, <3>1 DEF StepLoadCounter
    <3>2. CASE ~(counter_ready > 0)
      BY <1>2, <3>2 DEF StepLoadCounter
    <3>3. QED
      BY <3>1, <3>2
  <2>3. counter_ready = Len(handles_ready)
    BY <2>1
  <2>4. GoesToSleep'
    BY <2>1, <2>2, <2>3
  <2>5. (GilHeld /\ CountExact /\ NoLostWakeup /\ PollBounded)'
    BY <2>1
  <2>6. QED
    BY <2>4, <2>5
<1>3. CASE StepPeekTimer
  BY <1>3 DEF StepPeekTimer, IsFirst
<1>4. CASE StepDetach
  BY <1>4 DEF StepDetach, PublishIdle, Release
<1>5. CASE PollReturn
  BY <1>5 DEF PollReturn, TakeEvents
<1>6. CASE PollInterrupted
  BY <1>6 DEF PollInterrupted
<1>7. CASE StepClearIdle
  BY <1>7 DEF StepClearIdle, TakeEvents
<1>8. CASE StepAttach
  BY <1>8 DEF StepAttach, Acquire
<1>9. CASE StepSwap
  BY <1>9 DEF StepSwap
<1>10. CASE StepCollect
  <2>1. lpc = "collect" /\ lpc' = "run" /\ UNCHANGED <<gil, handles_ready, tpc>>
    BY <1>10 DEF StepCollect
  <2>2. counter_ready' = 0 /\ handles_ready = <<>>
    BY <1>10 DEF StepCollect, CountTaken, Dec
  <2>3. \A t \in Threads : tpc[t] = "out"
    BY <2>1
  <2>4. QED
    BY <2>1, <2>2, <2>3
<1>11. CASE RunNext
  BY <1>11 DEF RunNext, Release
<1>12. CASE CbReturn
  BY <1>12 DEF CbReturn, Acquire
<1>13. CASE StepEnd
  BY <1>13 DEF StepEnd, LeaveRun, Release
<1>14. QED
  BY <1>1, <1>2, <1>3, <1>4, <1>5, <1>6, <1>7, <1>8, <1>9, <1>10, <1>11, <1>12, <1>13
     DEF LoopStep

\* Calls on the loop thread happen while it is not in step() and no other
\* thread is inside a native call.
LEMMA WakeLoopCall ==
  ASSUME GIL = TRUE, TypeOK, WakeInv, LoopCall
  PROVE  WakeInv'
<1> USE WakeTypes DEF WakeInv, GilHeld, CountExact, GoesToSleep, NoLostWakeup, PollBounded,
        LoopPCs, HoldsGil, readyvars, timervars, wakevars, pollvars, batchvars
<1>1. CASE RunForever
  BY <1>1 DEF RunForever, Acquire
<1>2. CASE Stop
  BY <1>2 DEF Stop
<1>3. ASSUME NEW h \in Handles, CallSoon(h) PROVE WakeInv'
  BY <1>3 DEF CallSoon, InPython, PushReady, Inc
<1>4. ASSUME NEW h \in Handles, Cancel(h) PROVE WakeInv'
  BY <1>4 DEF Cancel
<1>5. ASSUME NEW h \in Handles, NEW d \in Delays, CallLater(h, d) PROVE WakeInv'
  BY <1>5 DEF CallLater, InPython, NewTimer, PushTimer
<1>6. ASSUME NEW g \in Signals, AddSignalHandler(g) PROVE WakeInv'
  BY <1>6 DEF AddSignalHandler
<1>7. QED
  BY <1>1, <1>2, <1>3, <1>4, <1>5, <1>6 DEF LoopCall

\* A thread that queues a callback or a timer keeps the GIL until it has
\* looked at idle.
LEMMA WakeThread ==
  ASSUME GIL = TRUE, TypeOK, TimersUsed, WakeInv,
         NEW t \in Threads, ThreadCall(t) \/ ThreadStep(t)
  PROVE  WakeInv'
<1> USE WakeTypes DEF WakeInv, GilHeld, CountExact, GoesToSleep, NoLostWakeup, PollBounded,
        LoopPCs, HoldsGil, readyvars, timervars, wakevars, pollvars, batchvars, Goto
<1>1. ASSUME NEW h \in Handles, ThreadSoon(t, h) PROVE WakeInv'
  <2>1. /\ gil = Nobody /\ gil' = t /\ tpc[t] = "out" /\ tpc' = [tpc EXCEPT ![t] = "count"]
        /\ UNCHANGED <<lpc, counter_ready, timervars, wakevars, pollvars, batchvars>>
    BY <1>1 DEF ThreadSoon, Acquire
  <2>2. handles_ready' # <<>> /\ Len(handles_ready') = Len(handles_ready) + 1
    BY <1>1 DEF ThreadSoon, PushReady
  <2>3. lpc \notin HoldsGil /\ \A u \in Threads : tpc[u] = "out"
    BY <2>1
  <2>4. GilHeld'
    BY <2>1, <2>3
  <2>5. CountExact'
    BY <2>1, <2>2, <2>3
  <2>6. (GoesToSleep /\ NoLostWakeup /\ PollBounded)'
    BY <2>1, <2>2, <2>3
  <2>7. QED
    BY <2>4, <2>5, <2>6
<1>2. ASSUME NEW h \in Handles, NEW d \in Delays, ThreadLater(t, h, d) PROVE WakeInv'
  <2>1. /\ gil = Nobody /\ gil' = t /\ tpc[t] = "out" /\ tpc' = [tpc EXCEPT ![t] = h]
        /\ UNCHANGED <<lpc, readyvars, handles_sched, wakevars, pollvars, batchvars>>
    BY <1>2 DEF ThreadLater, Acquire
  <2>2. \A k \in handles_sched : when'[k] = when[k]
    BY <1>2 DEF ThreadLater, NewTimer, TimersUsed
  <2>3. lpc \notin HoldsGil /\ \A u \in Threads : tpc[u] = "out"
    BY <2>1
  <2>4. GilHeld' /\ CountExact'
    BY <2>1, <2>3
  <2>5. GoesToSleep' /\ NoLostWakeup'
    BY <2>1, <2>3
  <2>6. PollBounded'
    BY <2>1, <2>2, <2>3
  <2>7. QED
    BY <2>4, <2>5, <2>6
<1>2a. CASE ThreadPush(t)
  BY <1>2a DEF ThreadPush, PushTimer
<1>3. CASE ThreadCount(t)
  BY <1>3 DEF ThreadCount, Inc
<1>4. CASE ThreadWake(t)
  BY <1>4 DEF ThreadWake, Wake, Release
<1>5. QED
  BY <1>1, <1>2, <1>2a, <1>3, <1>4 DEF ThreadCall, ThreadStep

\* Every step of the loop, with a GIL, preserves the invariant of the wake-ups.
LEMMA WakeNext ==
  ASSUME GIL = TRUE, TypeOK, TimersUsed, WakeInv, [Next]_vars
  PROVE  WakeInv'
<1>1. CASE LoopStep \/ LoopCall \/ \E t \in Threads : ThreadCall(t) \/ ThreadStep(t)
  BY <1>1, WakeLoopStep, WakeLoopCall, WakeThread
<1>2. CASE Environment \/ UNCHANGED vars
  <2>1. UNCHANGED <<lpc, gil, readyvars, timervars, wakevars, deadline, idle_swap, cb_handles, tpc>>
    BY <1>2 DEF Environment, Tick, SourceReady, SignalArrive, vars, pollvars, batchvars
  <2>2. QED
    BY <2>1 DEF WakeInv, GilHeld, CountExact, GoesToSleep, NoLostWakeup, PollBounded,
               readyvars, timervars, wakevars
<1>3. QED
  BY <1>1, <1>2 DEF Next

\* In a build with a GIL the invariant of the wake-ups always holds.
LEMMA WakeAlways == GIL = TRUE => (Spec => []WakeInv)
<1> SUFFICES ASSUME GIL = TRUE PROVE Spec => []WakeInv
  OBVIOUS
<1>1. Init => WakeInv
  BY ConstantsAssumption DEF Init, WakeInv, GilHeld, CountExact, GoesToSleep, NoLostWakeup,
     PollBounded, HoldsGil
<1>2. TypeOK /\ TimersUsed /\ WakeInv /\ [Next]_vars => WakeInv'
  BY WakeNext
<1>3. Init => TimersUsed
  BY ConstantsAssumption DEF Init, TimersUsed
<1>4. TypeOK /\ TimersUsed /\ [Next]_vars => TimersUsed'
  BY UsedNext
<1>5. QED
  BY <1>1, <1>2, <1>3, <1>4, TypeCorrect, PTL DEF Spec

\* In a build with a GIL, a loop that sleeps in poll never sleeps over a
\* callback that call_soon_threadsafe queued: for any number of threads,
\* handles and timers.
THEOREM WakeupSafe == GIL = TRUE => (Spec => []NoLostWakeup)
<1> SUFFICES ASSUME GIL = TRUE PROVE Spec => []NoLostWakeup
  OBVIOUS
<1>1. WakeInv => NoLostWakeup
  BY DEF WakeInv
<1>2. QED
  BY <1>1, WakeAlways, PTL

\* In a build with a GIL, a poll with a timeout never sleeps past a timer, one
\* that another thread adds while the loop sleeps included.
THEOREM PollInTime == GIL = TRUE => (Spec => []PollBounded)
<1> SUFFICES ASSUME GIL = TRUE PROVE Spec => []PollBounded
  OBVIOUS
<1>1. WakeInv => PollBounded
  BY DEF WakeInv
<1>2. QED
  BY <1>1, WakeAlways, PTL
-----------------------------------------------------------------------------
(***************************************************************************)
(* Every readiness edge reaches exactly one batch.  EdgeAccounting is not  *)
(* inductive alone: it needs that a step which polls does not carry        *)
(* skip_poll over from an earlier one, and that an interrupted poll left   *)
(* no event behind for the retry to overwrite.                             *)
(***************************************************************************)
EdgeInv ==
  /\ lpc \in {"sched", "detach", "poll", "unidle", "attach"} => ~skip_poll
  /\ lpc = "unidle" /\ poll_result = "intr" => events = {}
  /\ lpc \in {"sched", "detach", "poll"} => poll_result = "ok"
  /\ EdgeAccounting

\* Every step of the loop preserves the accounts of the edges.
LEMMA EdgeNext ==
  ASSUME TypeOK, EdgeInv, [Next]_vars
  PROVE  EdgeInv'
<1> USE DEF EdgeInv, EdgeAccounting
<1>0. /\ raised \in [Sources -> Nat] /\ delivered \in [Sources -> Nat]
      /\ skip_poll \in BOOLEAN /\ Ssock \notin Sources /\ poll_result \in {"ok", "intr"}
  BY ConstantsAssumption DEF TypeOK, IoType, PollType
<1>1. CASE RunCheck
  BY <1>1 DEF RunCheck, LeaveRun, pollvars, batchvars, iovars
<1>2. CASE StepLoadCounter
  BY <1>0, <1>2 DEF StepLoadCounter, batchvars, iovars
<1>3. CASE StepPeekTimer
  BY <1>3 DEF StepPeekTimer, batchvars, iovars
<1>4. CASE StepDetach
  BY <1>4 DEF StepDetach, pollvars, batchvars, iovars
<1>5. CASE PollReturn
  BY <1>0, <1>5 DEF PollReturn, TakeEvents, pollvars
<1>6. CASE PollInterrupted
  BY <1>0, <1>6 DEF PollInterrupted, iovars
<1>7. CASE StepClearIdle
  BY <1>0, <1>7 DEF StepClearIdle, TakeEvents, pollvars
<1>8. CASE StepAttach
  BY <1>8 DEF StepAttach, batchvars, iovars
<1>9. CASE StepSwap
  BY <1>9 DEF StepSwap, pollvars, iovars
<1>10. CASE StepCollect
  BY <1>0, <1>10 DEF StepCollect, Dispatched, pollvars
<1>11. CASE RunNext
  BY <1>11 DEF RunNext, pollvars, iovars
<1>12. CASE CbReturn
  BY <1>12 DEF CbReturn, pollvars, batchvars, iovars
<1>13. CASE StepEnd
  BY <1>13 DEF StepEnd, LeaveRun, pollvars, batchvars, iovars
<1>14. CASE RunForever
  BY <1>0, <1>14 DEF RunForever
<1>15. ASSUME NEW s \in Sources, SourceReady(s) PROVE EdgeInv'
  BY <1>0, <1>15 DEF SourceReady, pollvars, batchvars
<1>16. ASSUME NEW g \in Signals, SignalArrive(g) PROVE EdgeInv'
  BY <1>0, <1>16 DEF SignalArrive, pollvars, batchvars
<1>17. CASE UNCHANGED <<lpc, pollvars, batchvars, iovars>>
  BY <1>17 DEF pollvars, batchvars, iovars
<1>18. ASSUME NEW t \in Threads, ThreadCall(t) \/ ThreadStep(t)
       PROVE  UNCHANGED <<lpc, pollvars, batchvars, iovars>>
  BY <1>18 DEF ThreadCall, ThreadStep, ThreadSoon, ThreadLater, ThreadPush, ThreadCount,
     ThreadWake
<1>19. ASSUME LoopCall, ~RunForever
       PROVE  UNCHANGED <<lpc, pollvars, batchvars, iovars>>
  BY <1>19 DEF LoopCall, Stop, CallSoon, Cancel, CallLater, AddSignalHandler
<1>20. QED
  BY <1>1, <1>2, <1>3, <1>4, <1>5, <1>6, <1>7, <1>8, <1>9, <1>10, <1>11, <1>12, <1>13, <1>14,
     <1>15, <1>16, <1>17, <1>18, <1>19 DEF Next, LoopStep, Environment, Tick, vars

\* For any set of descriptors: every readiness edge of one is in the kernel, in
\* the events of the poll in progress, or was dispatched, and dispatched once;
\* skipped and interrupted polls lose and repeat none.
THEOREM EdgesDelivered == Spec => []EdgeAccounting
<1>1. Init => EdgeInv
  BY DEF Init, EdgeInv, EdgeAccounting
<1>2. TypeOK /\ EdgeInv /\ [Next]_vars => EdgeInv'
  BY EdgeNext
<1>3. EdgeInv => EdgeAccounting
  BY DEF EdgeInv
<1>4. QED
  BY <1>1, <1>2, <1>3, TypeCorrect, PTL DEF Spec

\* stop() ends the run after the batch in progress, without another poll.
THEOREM StopPrompt == Spec => []StopNeverPolls
<1>1. Init => StopNeverPolls
  BY DEF Init, StopNeverPolls
<1>2. StopNeverPolls /\ [Next]_vars => StopNeverPolls'
  <2> SUFFICES ASSUME StopNeverPolls, [Next]_vars, stopping'
               PROVE  lpc' \in {"off", "check", "run", "cb"}
    BY DEF StopNeverPolls
  <2>1. CASE LoopStep
    BY <2>1 DEF StopNeverPolls, LoopStep, RunCheck, StopRequested, LeaveRun, StepLoadCounter,
       StepPeekTimer, StepDetach, PollReturn, PollInterrupted, StepClearIdle, StepAttach,
       StepSwap, StepCollect, RunNext, CbReturn, StepEnd
  <2>2. CASE LoopCall
    BY <2>2 DEF StopNeverPolls, LoopCall, RunForever, Stop, InPython, CallSoon, Cancel,
       CallLater, AddSignalHandler
  <2>3. CASE (\E t \in Threads : ThreadCall(t) \/ ThreadStep(t)) \/ Environment \/ UNCHANGED vars
    <3>1. UNCHANGED <<lpc, stopping>>
      BY <2>3 DEF ThreadCall, ThreadStep, ThreadSoon, ThreadLater, ThreadPush, ThreadCount,
         ThreadWake, Environment, Tick, SourceReady, SignalArrive, vars
    <3>2. QED
      BY <3>1 DEF StopNeverPolls
  <2>4. QED
    BY <2>1, <2>2, <2>3 DEF Next
<1>3. QED
  BY <1>1, <1>2, PTL DEF Spec
=============================================================================
