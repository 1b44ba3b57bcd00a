---------------------------- MODULE TokioLoopProofs ----------------------------
(***************************************************************************)
(* Proofs about TokioLoop, for every set of handles, delays, descriptors   *)
(* and signals and any number of runs: the types, the order of the         *)
(* Immediate tasks, and that no timer is lost or fires early.              *)
(***************************************************************************)
EXTENDS TokioLoop, SequenceTheorems, FiniteSetTheorems, TLAPS

LoopType ==
  /\ lpc \in LoopPCs /\ now \in Nat /\ runs \in 0..MaxRuns
  /\ stopping \in BOOLEAN /\ closed \in BOOLEAN
TaskType ==
  /\ current_handles \in Seq(Handles) /\ running \in Handles \cup {NoHandle}
  /\ delayed_tasks \subseteq {h \in Handles : when[h] \in Nat}
  /\ gone \in Seq(Handles) /\ discarded \subseteq Handles
QueueType ==
  /\ scheduler \in Seq(Handles) /\ when \in [Handles -> Nat \cup {Soon}]
  /\ used \subseteq Handles /\ sends \in Nat /\ place \in [Handles -> Nat] /\ ignored \subseteq Handles
CallType ==
  /\ cancelled \subseteq Handles /\ io_handles \subseteq used
  /\ io_callbacks \in [Fds -> [reader : Handles \cup {NoHandle}, writer : Handles \cup {NoHandle}]]
SigType ==
  /\ signal_socket \in Seq(SigNums) /\ sig_listening \in BOOLEAN /\ ssock \in [Runs -> Seq(SigNums)]
  /\ reader \in [Runs -> {"none", "spawned", "reading", "astray", "done"}] /\ sent \in Nat

\* The type invariant by its parts.
LEMMA TypeParts ==
  /\ TypeOK <=> LoopType /\ TaskType /\ QueueType /\ CallType /\ SigType
  /\ TypeOK' <=> LoopType' /\ TaskType' /\ QueueType' /\ CallType' /\ SigType'
BY DEF TypeOK, LoopType, TaskType, QueueType, CallType, SigType

\* A handle is in a channel, in the heap or in a history only if it was used,
\* and has a place only then.
UsedInv ==
  /\ Pending \cup Range(gone) \cup discarded \subseteq used
  /\ \A h \in Handles : place[h] <= sends /\ (place[h] > 0 => h \in used)

IInv == TypeOK /\ UsedInv
-----------------------------------------------------------------------------
(***************************************************************************)
(* Sequences.                                                              *)
(***************************************************************************)

\* The head of a channel is taken.
LEMMA TakeSeq ==
  ASSUME NEW S, NEW q \in Seq(S), q # <<>>
  PROVE  /\ Tail(q) \in Seq(S) /\ Head(q) \in S /\ Range(q) = {Head(q)} \cup Range(Tail(q))
         /\ Head(q) = q[1] /\ 1 \in DOMAIN q
         /\ \A i \in DOMAIN Tail(q) : i + 1 \in DOMAIN q /\ Tail(q)[i] = q[i + 1]
         /\ DOMAIN Tail(q) \subseteq Nat \ {0}
<1>1. /\ Head(q) \in S /\ Tail(q) \in Seq(S) /\ Len(Tail(q)) = Len(q) - 1
      /\ \A i \in 1..Len(Tail(q)) : Tail(q)[i] = q[i + 1]
  BY HeadTailProperties
<1>2. /\ Len(q) \in Nat /\ Len(q) # 0 /\ DOMAIN q = 1..Len(q) /\ DOMAIN Tail(q) = 1..Len(Tail(q)) /\ Head(q) = q[1]
  BY <1>1, EmptySeq, LenProperties
<1>3. /\ 1 \in DOMAIN q /\ \A i \in DOMAIN Tail(q) : i + 1 \in DOMAIN q /\ Tail(q)[i] = q[i + 1]
      /\ DOMAIN Tail(q) \subseteq Nat \ {0}
  BY <1>1, <1>2
<1>4. \A i \in DOMAIN q : i = 1 \/ (i - 1 \in DOMAIN Tail(q) /\ Tail(q)[i - 1] = q[i])
  BY <1>1, <1>2
<1>5. Range(q) = {Head(q)} \cup Range(Tail(q))
  <2>1. PICK r, d : r = Tail(q) /\ d = Head(q)
    OBVIOUS
  <2>2. /\ d = q[1] /\ 1 \in DOMAIN q /\ \A i \in DOMAIN r : i + 1 \in DOMAIN q /\ r[i] = q[i + 1]
        /\ \A i \in DOMAIN q : i = 1 \/ (i - 1 \in DOMAIN r /\ r[i - 1] = q[i])
    BY <1>2, <1>3, <1>4, <2>1
  <2>3. Range(q) = {d} \cup Range(r)
    BY <2>2 DEF Range
  <2>4. QED
    BY <2>1, <2>3
<1>6. QED
  BY <1>1, <1>2, <1>3, <1>5

\* A handle is sent.
LEMMA PutSeq ==
  ASSUME NEW S, NEW q \in Seq(S), NEW e \in S
  PROVE  /\ Append(q, e) \in Seq(S) /\ Range(Append(q, e)) = Range(q) \cup {e}
         /\ \A i \in DOMAIN Append(q, e) : (i \in DOMAIN q /\ Append(q, e)[i] = q[i]) \/ (i = Len(q) + 1 /\ Append(q, e)[i] = e)
         /\ \A i \in DOMAIN q : i < Len(q) + 1
<1>1. /\ Append(q, e) \in Seq(S) /\ Len(Append(q, e)) = Len(q) + 1 /\ Append(q, e)[Len(q) + 1] = e
      /\ \A i \in 1..Len(q) : Append(q, e)[i] = q[i]
  BY AppendProperties
<1>2. Len(q) \in Nat /\ DOMAIN q = 1..Len(q) /\ DOMAIN Append(q, e) = 1..(Len(q) + 1)
  BY <1>1, LenProperties
<1>3. /\ \A i \in DOMAIN Append(q, e) : (i \in DOMAIN q /\ Append(q, e)[i] = q[i]) \/ (i = Len(q) + 1 /\ Append(q, e)[i] = e)
      /\ \A i \in DOMAIN q : i < Len(q) + 1
  BY <1>1, <1>2
<1>4. Len(q) + 1 \in DOMAIN Append(q, e) /\ DOMAIN q \subseteq DOMAIN Append(q, e)
  BY <1>2
<1>5. Range(Append(q, e)) = Range(q) \cup {e}
  BY <1>1, <1>2, <1>3, <1>4 DEF Range
<1>6. QED
  BY <1>1, <1>3, <1>5

\* Timers join the callbacks.
LEMMA JoinSeq ==
  ASSUME NEW S, NEW p \in Seq(S), NEW q \in Seq(S)
  PROVE  /\ p \o q \in Seq(S) /\ Range(p \o q) = Range(p) \cup Range(q)
         /\ \A i \in DOMAIN (p \o q) : (i \in DOMAIN p /\ (p \o q)[i] = p[i]) \/ (p \o q)[i] \in Range(q)
<1>1. /\ p \o q \in Seq(S) /\ Len(p \o q) = Len(p) + Len(q)
      /\ \A i \in 1..(Len(p) + Len(q)) : (p \o q)[i] = IF i <= Len(p) THEN p[i] ELSE q[i - Len(p)]
  BY ConcatProperties
<1>2. /\ Len(p) \in Nat /\ Len(q) \in Nat /\ DOMAIN p = 1..Len(p) /\ DOMAIN q = 1..Len(q)
      /\ DOMAIN (p \o q) = 1..(Len(p) + Len(q))
  BY <1>1, LenProperties
<1>3. ASSUME NEW i \in DOMAIN (p \o q)
      PROVE  (i \in DOMAIN p /\ (p \o q)[i] = p[i]) \/ (p \o q)[i] \in Range(q)
  <2>1. CASE i <= Len(p)
    BY <1>1, <1>2, <2>1
  <2>2. CASE ~(i <= Len(p))
    <3>1. i - Len(p) \in DOMAIN q /\ (p \o q)[i] = q[i - Len(p)]
      BY <1>1, <1>2, <2>2
    <3>2. QED
      BY <3>1 DEF Range
  <2>3. QED
    BY <2>1, <2>2
<1>4. Range(p \o q) = Range(p) \cup Range(q)
  BY RangeConcatenation
<1>5. QED
  BY <1>1, <1>3, <1>4

\* An order of timers is a sequence of them.
LEMMA OrderedTimers ==
  ASSUME NEW T \in SUBSET Handles, NEW q \in Orders(T)
  PROVE  q \in Seq(Handles) /\ Range(q) \subseteq T
<1>1. Cardinality(T) \in Nat
  BY TokioConstants, FS_Subset, FS_CardinalityType
<1>2. q \in [1..Cardinality(T) -> T]
  BY DEF Orders
<1>3. QED
  BY <1>1, <1>2, IsASeq, SeqMonotonic DEF Range
-----------------------------------------------------------------------------
(***************************************************************************)
(* Types, and handles that were used.                                      *)
(***************************************************************************)

\* A step that leaves a part of the state alone keeps what holds of it.
LEMMA Frame ==
  ASSUME IInv
  PROVE  /\ LoopType /\ TaskType /\ QueueType /\ CallType /\ SigType /\ UsedInv
         /\ UNCHANGED <<lpc, now, runs, stopping, closed>> => LoopType'
         /\ UNCHANGED <<taskvars, gone, discarded, when>> => TaskType'
         /\ UNCHANGED queuevars => QueueType'
         /\ UNCHANGED <<cancelled, iovars, used>> => CallType'
         /\ UNCHANGED sigvars => SigType'
         /\ UNCHANGED <<scheduler, current_handles, delayed_tasks, gone, discarded, used, place, sends>> => UsedInv'
<1>1. LoopType /\ TaskType /\ QueueType /\ CallType /\ SigType /\ UsedInv
  BY TypeParts DEF IInv
<1>2. /\ UNCHANGED <<lpc, now, runs, stopping, closed>> => LoopType'
      /\ UNCHANGED <<taskvars, gone, discarded, when>> => TaskType'
      /\ UNCHANGED queuevars => QueueType'
  BY <1>1 DEF LoopType, TaskType, QueueType, taskvars, queuevars
<1>3. /\ UNCHANGED <<cancelled, iovars, used>> => CallType'
      /\ UNCHANGED sigvars => SigType'
  BY <1>1 DEF CallType, SigType, iovars, sigvars
<1>4. UNCHANGED <<scheduler, current_handles, delayed_tasks, gone, discarded, used, place, sends>> => UsedInv'
  BY <1>1 DEF UsedInv, Pending, Range
<1>5. QED
  BY <1>1, <1>2, <1>3, <1>4

\* schedule_handle keeps the types, and uses the handle.
LEMMA ScheduleKeeps ==
  ASSUME IInv, NEW h \in Handles, NEW w \in Nat \cup {Soon}, Schedule(h, w),
         UNCHANGED <<taskvars, gone, discarded>>
  PROVE  QueueType' /\ TaskType' /\ UsedInv' /\ used \subseteq used' /\ h \in used' /\ used' \subseteq Handles
<1>0. TaskType /\ QueueType /\ UsedInv
  BY Frame
<1>1. /\ h \notin used /\ used' = used \cup {h} /\ when' = [when EXCEPT ![h] = w]
      /\ UNCHANGED <<current_handles, delayed_tasks, running, gone, discarded>>
  BY DEF Schedule, taskvars
<1>2. /\ \A g \in Handles \ {h} : when'[g] = when[g]
      /\ delayed_tasks \subseteq used /\ discarded \subseteq used /\ Range(gone) \subseteq used
      /\ Range(current_handles) \subseteq used /\ Range(scheduler) \subseteq used
  BY <1>0, <1>1 DEF UsedInv, Pending, QueueType
<1>3. TaskType'
  BY <1>0, <1>1, <1>2 DEF TaskType
<1>4. /\ scheduler' \in Seq(Handles) /\ Range(scheduler') \subseteq used'
      /\ ignored' \subseteq Handles /\ sends' \in Nat /\ place' \in [Handles -> Nat]
      /\ \A g \in Handles : place'[g] <= sends' /\ (place'[g] > 0 => g \in used')
  <2>1. CASE UNCHANGED <<scheduler, sends, place>> /\ ignored' = ignored \cup {h}
    BY <1>0, <1>1, <1>2, <2>1 DEF QueueType, UsedInv
  <2>2. CASE /\ scheduler' = Append(scheduler, h) /\ sends' = sends + 1
             /\ place' = [place EXCEPT ![h] = sends + 1] /\ UNCHANGED ignored
    <3>1. scheduler' \in Seq(Handles) /\ Range(scheduler') = Range(scheduler) \cup {h}
      BY <1>0, <2>2, PutSeq DEF QueueType
    <3>2. /\ sends' \in Nat /\ place' \in [Handles -> Nat]
          /\ \A g \in Handles : place'[g] <= sends' /\ (place'[g] > 0 => g \in used')
      BY <1>0, <1>1, <2>2 DEF QueueType, UsedInv
    <3>3. QED
      BY <1>0, <1>1, <1>2, <2>2, <3>1, <3>2 DEF QueueType
  <2>3. QED
    BY <2>1, <2>2 DEF Schedule, Send
<1>5. QueueType' /\ used' \subseteq Handles
  BY <1>0, <1>1, <1>4 DEF QueueType
<1>6. UsedInv'
  BY <1>1, <1>2, <1>4 DEF UsedInv, Pending, Range
<1>7. QED
  BY <1>1, <1>3, <1>5, <1>6

\* Every step keeps the types and the handles used.
LEMMA TypesNext ==
  ASSUME IInv, [Next]_vars
  PROVE  IInv'
<1> SUFFICES TypeOK' /\ UsedInv'
  BY DEF IInv
<1>0. LoopType /\ TaskType /\ QueueType /\ CallType /\ SigType /\ UsedInv
  BY Frame
<1> USE Frame, TypeParts
<1>1. CASE UNCHANGED vars
  BY <1>1 DEF vars, taskvars, queuevars, sigvars, iovars
<1>2. CASE RunForever
  <2>1. /\ UNCHANGED <<taskvars, queuevars, cancelled, iovars, gone, discarded>>
        /\ UNCHANGED <<now, stopping, closed, signal_socket, sig_listening, ssock, sent>>
        /\ runs' = runs + 1 /\ runs < MaxRuns /\ lpc' = "select"
        /\ reader' = [reader EXCEPT ![runs + 1] = "spawned"]
    BY <1>2 DEF RunForever
  <2>2. LoopType'
    <3>1. MaxRuns \in Nat
      BY TokioConstants
    <3>2. QED
      BY <1>0, <2>1, <3>1 DEF LoopType, LoopPCs
  <2>3. SigType'
    BY <1>0, <2>1 DEF SigType
  <2>4. QED
    BY <2>1, <2>2, <2>3 DEF taskvars, queuevars
<1>3. CASE SelectSleep \/ CallbackReturn \/ Stop \/ Close \/ Tick
  <2>1. UNCHANGED <<taskvars, queuevars, cancelled, iovars, sigvars, gone, discarded>>
    BY <1>3 DEF SelectSleep, CallbackReturn, Stop, Close, Tick
  <2>2. /\ lpc' \in {lpc, "check"} /\ now' \in {now, now + 1} /\ UNCHANGED runs
    BY <1>3 DEF SelectSleep, CallbackReturn, Stop, Close, Tick
  <2>3. stopping' \in BOOLEAN /\ closed' \in BOOLEAN
    <3>1. (stopping' = stopping \/ stopping' = TRUE) /\ (closed' = closed \/ closed' = TRUE)
      BY <1>3 DEF SelectSleep, CallbackReturn, Stop, Close, Tick
    <3>2. QED
      BY <1>0, <3>1, Zenon DEF LoopType
  <2>4. LoopType'
    BY <1>0, <2>2, <2>3 DEF LoopType, LoopPCs
  <2>5. QED
    BY <2>1, <2>4 DEF taskvars, queuevars
<1>4. CASE CheckStop
  <2>1. /\ UNCHANGED <<queuevars, cancelled, iovars, sigvars, gone, discarded>>
        /\ UNCHANGED <<current_handles, delayed_tasks>> /\ running' = NoHandle /\ LoopType'
    BY <1>0, <1>4 DEF CheckStop, LoopType, LoopPCs
  <2>2. TaskType'
    BY <1>0, <2>1 DEF TaskType, queuevars
  <2>3. QED
    BY <2>1, <2>2 DEF queuevars
<1>5. CASE RecvTask
  <2>1. /\ lpc' = "check" /\ scheduler # <<>> /\ scheduler' = Tail(scheduler)
        /\ UNCHANGED <<now, runs, when, used, sends, place, ignored, running, stopping, closed, cancelled, iovars,
                       sigvars, gone, discarded>>
    BY <1>5 DEF RecvTask
  <2>2. PICK h, s : h = Head(scheduler) /\ s = Tail(scheduler)
    OBVIOUS
  <2>3. h \in Handles /\ s \in Seq(Handles) /\ Range(scheduler) = {h} \cup Range(s) /\ h \in used
    BY <1>0, <2>1, <2>2, TakeSeq DEF QueueType, UsedInv, Pending
  <2>4. /\ \/ when[h] = Soon /\ current_handles' = Append(current_handles, h) /\ UNCHANGED delayed_tasks
           \/ when[h] # Soon /\ delayed_tasks' = delayed_tasks \cup {h} /\ UNCHANGED current_handles
    BY <1>5, <2>2 DEF RecvTask, Immediate
  <2>5. /\ current_handles' \in Seq(Handles) /\ Range(current_handles') \subseteq used
        /\ delayed_tasks' \subseteq {g \in Handles : when[g] \in Nat} /\ delayed_tasks' \subseteq used
    <3>1. Append(current_handles, h) \in Seq(Handles) /\ Range(Append(current_handles, h)) = Range(current_handles) \cup {h}
      BY <1>0, <2>3, PutSeq DEF TaskType
    <3>2. QED
      BY <1>0, <2>3, <2>4, <3>1 DEF TaskType, QueueType, UsedInv, Pending
  <2>6. QueueType' /\ TaskType' /\ LoopType'
    BY <1>0, <2>1, <2>2, <2>3, <2>5 DEF QueueType, TaskType, LoopType, LoopPCs
  <2>7. UsedInv'
    BY <1>0, <2>1, <2>2, <2>3, <2>5 DEF UsedInv, Pending, Range
  <2>8. QED
    BY <2>1, <2>6, <2>7
<1>6. CASE TimerExpire
  <2>1. /\ lpc' = "check"
        /\ UNCHANGED <<now, runs, queuevars, running, stopping, closed, cancelled, iovars, sigvars, gone, discarded>>
    BY <1>6 DEF TimerExpire
  <2>2. PICK T \in SUBSET delayed_tasks : \E q \in Orders(T) : current_handles' = current_handles \o q
    BY <1>6 DEF TimerExpire
  <2>3. PICK q \in Orders(T) : current_handles' = current_handles \o q
    BY <2>2
  <2>4. T \subseteq Handles /\ T \subseteq used
    BY <1>0 DEF TaskType, UsedInv, Pending
  <2>5. current_handles' \in Seq(Handles) /\ Range(current_handles') \subseteq used
    BY <1>0, <2>3, <2>4, OrderedTimers, JoinSeq DEF TaskType, UsedInv, Pending
  <2>6. delayed_tasks' \subseteq delayed_tasks
    BY <1>6 DEF TimerExpire
  <2>7. TaskType' /\ LoopType'
    BY <1>0, <2>1, <2>5, <2>6 DEF TaskType, LoopType, LoopPCs, queuevars
  <2>8. UsedInv'
    BY <1>0, <2>1, <2>5, <2>6 DEF UsedInv, Pending, Range, queuevars
  <2>9. QED
    BY <2>1, <2>7, <2>8 DEF queuevars
<1>7. CASE RecvHandle
  <2>1. /\ current_handles # <<>> /\ current_handles' = Tail(current_handles) /\ running' = Head(current_handles)
        /\ lpc' \in {"check", "callback"} /\ gone' \in {gone, Append(gone, running')}
        /\ UNCHANGED <<now, runs, queuevars, delayed_tasks, stopping, closed, cancelled, iovars, sigvars, discarded>>
    BY <1>7 DEF RecvHandle, TakeFirst
  <2>2. PICK h, s : h = Head(current_handles) /\ s = Tail(current_handles)
    OBVIOUS
  <2>3. h \in Handles /\ s \in Seq(Handles) /\ Range(current_handles) = {h} \cup Range(s) /\ h \in used
    BY <1>0, <2>1, <2>2, TakeSeq DEF TaskType, UsedInv, Pending
  <2>4. Append(gone, h) \in Seq(Handles) /\ Range(Append(gone, h)) = Range(gone) \cup {h}
    BY <1>0, <2>3, PutSeq DEF TaskType
  <2>5. TaskType' /\ LoopType'
    BY <1>0, <2>1, <2>2, <2>3, <2>4 DEF TaskType, LoopType, LoopPCs, queuevars
  <2>6. Range(gone') \subseteq used /\ Range(current_handles') \subseteq used
    BY <1>0, <2>1, <2>2, <2>3, <2>4 DEF UsedInv, Pending
  <2>7. UsedInv'
    BY <1>0, <2>1, <2>6 DEF UsedInv, Pending, Range, queuevars
  <2>8. QED
    BY <2>1, <2>5, <2>7 DEF queuevars
<1>8. CASE RunEnd
  <2>1. /\ lpc' = "off" /\ current_handles' = <<>> /\ delayed_tasks' = {} /\ running' = NoHandle
        /\ discarded' = discarded \cup Range(current_handles) \cup delayed_tasks
        /\ sig_listening' = FALSE /\ stopping' = FALSE
        /\ UNCHANGED <<now, runs, queuevars, closed, cancelled, iovars, signal_socket, ssock, reader, sent, gone>>
    BY <1>8 DEF RunEnd
  <2>2. discarded' \subseteq used /\ used \subseteq Handles
    BY <1>0, <2>1 DEF UsedInv, Pending, QueueType
  <2>3. <<>> \in Seq(Handles) /\ Range(<<>>) = {}
    BY DEF Range
  <2>4. TaskType' /\ LoopType'
    BY <1>0, <2>1, <2>2, <2>3 DEF TaskType, LoopType, LoopPCs, queuevars
  <2>5. SigType'
    BY <1>0, <2>1 DEF SigType
  <2>6. UsedInv'
    BY <1>0, <2>1, <2>2, <2>3 DEF UsedInv, Pending, Range, queuevars
  <2>7. QED
    BY <2>1, <2>4, <2>5, <2>6 DEF queuevars
<1>9. CASE RecvSignal
  <2>1. /\ signal_socket # <<>> /\ signal_socket' = Tail(signal_socket) /\ lpc' \in {"check", "ending"}
        /\ stopping' \in BOOLEAN
        /\ UNCHANGED <<now, runs, taskvars, queuevars, closed, cancelled, iovars, sig_listening, ssock,
                       reader, sent, gone, discarded>>
    BY <1>9 DEF RecvSignal
  <2>2. signal_socket' \in Seq(SigNums)
    BY <1>0, <2>1, TakeSeq DEF SigType
  <2>3. SigType' /\ LoopType'
    BY <1>0, <2>1, <2>2 DEF SigType, LoopType, LoopPCs
  <2>4. QED
    BY <2>1, <2>3 DEF taskvars, queuevars
<1>10. ASSUME NEW h \in Handles, \/ CallSoon(h) \/ (\E d \in Delays : CallLater(h, d))
                                \/ (\E f \in Fds : AddReader(f, h) \/ AddWriter(f, h))
       PROVE  TypeOK' /\ UsedInv'
  <2>1. /\ \E w \in Nat \cup {Soon} : Schedule(h, w)
        /\ UNCHANGED <<lpc, now, runs, taskvars, stopping, closed, cancelled, sigvars, gone, discarded>>
    <3>1. \A d \in Delays : now + d \in Nat
      BY <1>0, TokioConstants DEF LoopType
    <3>2. \E w \in Nat \cup {Soon} : Schedule(h, w)
      BY <1>10, <3>1 DEF CallSoon, CallLater, AddReader, AddWriter
    <3>3. QED
      BY <1>10, <3>2 DEF CallSoon, CallLater, AddReader, AddWriter
  <2>2. QueueType' /\ TaskType' /\ UsedInv' /\ used \subseteq used' /\ h \in used' /\ used' \subseteq Handles
    BY <2>1, ScheduleKeeps
  <2>3. CallType'
    <3>1. CASE UNCHANGED iovars
      BY <1>0, <2>1, <2>2, <3>1 DEF CallType, iovars
    <3>2. CASE \E f \in Fds : AddReader(f, h) \/ AddWriter(f, h)
      BY <1>0, <2>1, <2>2, <3>2 DEF CallType, AddReader, AddWriter
    <3>3. QED
      BY <1>10, <3>1, <3>2 DEF CallSoon, CallLater
  <2>4. QED
    BY <2>1, <2>2, <2>3
<1>11. ASSUME NEW f \in Fds, RemoveIo(f) PROVE TypeOK' /\ UsedInv'
  <2>1. CallType'
    BY <1>0, <1>11 DEF RemoveIo, CallType, queuevars
  <2>2. QED
    BY <1>11, <2>1 DEF RemoveIo, taskvars, queuevars
<1>12. ASSUME NEW h \in Handles, Cancel(h) PROVE TypeOK' /\ UsedInv'
  <2>1. CallType'
    BY <1>0, <1>12 DEF Cancel, CallType, queuevars, iovars
  <2>2. QED
    BY <1>12, <2>1 DEF Cancel, taskvars, queuevars
<1>13. ASSUME NEW r \in Runs, ReaderStart(r) \/ ReaderRead(r) PROVE TypeOK' /\ UsedInv'
  <2>1. /\ UNCHANGED <<lpc, now, runs, taskvars, queuevars, stopping, closed, cancelled, iovars, sent, gone, discarded>>
    BY <1>13 DEF ReaderStart, ReaderRead
  <2>2. CASE ReaderStart(r)
    <3>1. SigType'
      BY <1>0, <2>2 DEF ReaderStart, SigType
    <3>2. QED
      BY <2>1, <3>1 DEF taskvars, queuevars
  <2>3. CASE ReaderRead(r)
    <3>1. signal_socket \o ssock[r] \in Seq(SigNums) /\ <<>> \in Seq(SigNums)
      BY <1>0, JoinSeq DEF SigType
    <3>2. SigType'
      BY <1>0, <2>1, <2>3, <3>1 DEF ReaderRead, SigType
    <3>3. QED
      BY <2>1, <3>2 DEF taskvars, queuevars
  <2>4. QED
    BY <1>13, <2>2, <2>3
<1>14. ASSUME NEW g \in SigNums, SignalArrive(g) PROVE TypeOK' /\ UsedInv'
  <2>1. /\ UNCHANGED <<lpc, now, runs, taskvars, queuevars, stopping, closed, cancelled, iovars,
                       signal_socket, sig_listening, reader, gone, discarded>>
        /\ sent' = sent + 1 /\ ssock' = [ssock EXCEPT ![runs] = Append(@, g)]
    BY <1>14 DEF SignalArrive
  <2>2. runs \in Runs => Append(ssock[runs], g) \in Seq(SigNums)
    BY <1>0, PutSeq DEF SigType
  <2>3. ssock' \in [Runs -> Seq(SigNums)]
    <3> DEFINE e == Append(ssock[runs], g)
    <3>1. ssock \in [Runs -> Seq(SigNums)] /\ ssock' = [ssock EXCEPT ![runs] = e] /\ (runs \in Runs => e \in Seq(SigNums))
      BY <1>0, <2>1, <2>2 DEF SigType
    <3> HIDE DEF e
    <3>2. QED
      BY <3>1
  <2>4. SigType'
    BY <1>0, <2>1, <2>3 DEF SigType
  <2>5. QED
    BY <2>1, <2>4 DEF taskvars, queuevars
<1>15. QED
  BY <1>1, <1>2, <1>3, <1>4, <1>5, <1>6, <1>7, <1>8, <1>9, <1>10, <1>11, <1>12, <1>13, <1>14
     DEF Next, LoopTask, SelectBranch, Calls, Readers, Environment
-----------------------------------------------------------------------------
(***************************************************************************)
(* The order of the Immediate tasks.                                       *)
(***************************************************************************)
Sorted(q) == \A i, j \in DOMAIN q : i < j => SentBefore(q[i], q[j])
Ahead(P, Q) == \A g \in P, h \in Q : SentBefore(g, h)

\* no Immediate task that was sent is lost, and a run that ends discards those sent first
Accounted ==
  \A g \in Handles : place[g] > 0 /\ when[g] = Soon =>
    \/ g \in Range(gone) \cup discarded
    \/ /\ g \in Range(current_handles) \cup Range(scheduler)
       /\ \A h \in discarded : when[h] = Soon => place[h] < place[g]

Fifo ==
  /\ Sorted(gone) /\ Sorted(current_handles) /\ Sorted(scheduler)
  /\ Ahead(Range(gone), Range(current_handles)) /\ Ahead(Range(gone), Range(scheduler))
  /\ Ahead(Range(current_handles), Range(scheduler)) /\ Accounted

\* Fifo is SoonFifo.
LEMMA FifoParts == SoonFifo <=> Fifo
BY DEF SoonFifo, Fifo, Sorted, Ahead, Accounted

\* What is left of a sorted channel is sorted, and behind what was taken.
LEMMA TakeSorted ==
  ASSUME NEW q \in Seq(Handles), q # <<>>, Sorted(q)
  PROVE  Sorted(Tail(q)) /\ Ahead({Head(q)}, Range(Tail(q)))
<1>1. /\ Head(q) = q[1] /\ 1 \in DOMAIN q
      /\ \A i \in DOMAIN Tail(q) : i + 1 \in DOMAIN q /\ Tail(q)[i] = q[i + 1]
      /\ DOMAIN Tail(q) \subseteq Nat \ {0}
  BY TakeSeq
<1>2. PICK r, d : r = Tail(q) /\ d = Head(q)
  OBVIOUS
<1>3. /\ d = q[1] /\ \A i \in DOMAIN r : i + 1 \in DOMAIN q /\ r[i] = q[i + 1] /\ i \in Nat \ {0}
  BY <1>1, <1>2
<1>4. Sorted(r)
  <2> SUFFICES ASSUME NEW i \in DOMAIN r, NEW j \in DOMAIN r, i < j PROVE SentBefore(r[i], r[j])
    BY DEF Sorted
  <2>1. i + 1 < j + 1
    BY <1>3
  <2>2. QED
    BY <1>3, <2>1 DEF Sorted
<1>5. Ahead({d}, Range(r))
  <2> SUFFICES ASSUME NEW i \in DOMAIN r PROVE SentBefore(d, r[i])
    BY DEF Ahead, Range
  <2>1. 1 < i + 1
    BY <1>3
  <2>2. QED
    BY <1>1, <1>3, <2>1 DEF Sorted
<1>6. QED
  BY <1>2, <1>4, <1>5

\* A channel stays sorted when something sent later joins it.
LEMMA PutSorted ==
  ASSUME NEW q \in Seq(Handles), NEW e \in Handles, Sorted(q), Ahead(Range(q), {e})
  PROVE  Sorted(Append(q, e))
<1>1. PICK r : r = Append(q, e)
  OBVIOUS
<1>2. /\ \A i \in DOMAIN r : (i \in DOMAIN q /\ r[i] = q[i]) \/ (i = Len(q) + 1 /\ r[i] = e)
      /\ \A i \in DOMAIN q : i < Len(q) + 1
      /\ Len(q) \in Nat /\ DOMAIN q \subseteq Nat
  BY <1>1, PutSeq, LenProperties
<1>3. \A i \in DOMAIN q : SentBefore(q[i], e)
  BY DEF Ahead, Range
<1>4. Sorted(r)
  <2> SUFFICES ASSUME NEW i \in DOMAIN r, NEW j \in DOMAIN r, i < j PROVE SentBefore(r[i], r[j])
    BY DEF Sorted
  <2>1. i \in DOMAIN q
    BY <1>2
  <2>2. QED
    BY <1>2, <1>3, <2>1 DEF Sorted
<1>5. QED
  BY <1>1, <1>4

\* Timers do not disturb the order of the Immediate tasks they join.
LEMMA JoinSorted ==
  ASSUME NEW p \in Seq(Handles), NEW q \in Seq(Handles), Sorted(p), \A h \in Range(q) : when[h] # Soon
  PROVE  Sorted(p \o q)
<1>1. \A i \in DOMAIN (p \o q) : (i \in DOMAIN p /\ (p \o q)[i] = p[i]) \/ (p \o q)[i] \in Range(q)
  BY JoinSeq
<1>2. QED
  BY <1>1 DEF Sorted, SentBefore

\* A step that sends nothing keeps the order if the channels it leaves have it.
LEMMA FifoMoved ==
  ASSUME NEW g, NEW c, NEW s, gone' = g, current_handles' = c, scheduler' = s, UNCHANGED <<when, place>>,
         Sorted(g), Sorted(c), Sorted(s), Ahead(Range(g), Range(c)), Ahead(Range(g), Range(s)),
         Ahead(Range(c), Range(s)), Accounted'
  PROVE  Fifo'
<1>1. \A h, k : SentBefore(h, k)' <=> SentBefore(h, k)
  BY DEF SentBefore
<1>2. Sorted(gone)' /\ Sorted(current_handles)' /\ Sorted(scheduler)'
  BY <1>1 DEF Sorted
<1>3. Range(gone)' = Range(g) /\ Range(current_handles)' = Range(c) /\ Range(scheduler)' = Range(s)
  BY DEF Range
<1>4. /\ Ahead(Range(gone), Range(current_handles))' /\ Ahead(Range(gone), Range(scheduler))'
      /\ Ahead(Range(current_handles), Range(scheduler))'
  BY <1>1, <1>3 DEF Ahead
<1>5. QED
  BY <1>2, <1>4 DEF Fifo

\* Every step keeps the order.
LEMMA FifoNext ==
  ASSUME IInv, Fifo, [Next]_vars
  PROVE  Fifo'
<1>0. /\ scheduler \in Seq(Handles) /\ current_handles \in Seq(Handles) /\ gone \in Seq(Handles)
      /\ when \in [Handles -> Nat \cup {Soon}] /\ place \in [Handles -> Nat] /\ sends \in Nat
      /\ Range(scheduler) \subseteq used /\ Range(current_handles) \subseteq used /\ Range(gone) \subseteq used
      /\ discarded \subseteq used /\ used \subseteq Handles
      /\ delayed_tasks \subseteq {h \in Handles : when[h] \in Nat}
      /\ \A h \in Handles : place[h] <= sends /\ (place[h] > 0 => h \in used)
  BY Frame DEF TaskType, QueueType, UsedInv, Pending
<1>1. ASSUME UNCHANGED <<when, place, scheduler, current_handles, gone, discarded>> PROVE Fifo'
  BY <1>1 DEF Fifo, Sorted, Ahead, SentBefore, Accounted, Range
<1>2. CASE RecvTask
  <2>1. /\ scheduler # <<>> /\ scheduler' = Tail(scheduler) /\ UNCHANGED <<when, place, gone, discarded>>
    BY <1>2 DEF RecvTask
  <2>2. PICK h, s : h = Head(scheduler) /\ s = Tail(scheduler)
    OBVIOUS
  <2>3. /\ h \in Handles /\ s \in Seq(Handles) /\ Range(scheduler) = {h} \cup Range(s)
        /\ Sorted(s) /\ Ahead({h}, Range(s))
    BY <1>0, <2>1, <2>2, TakeSeq, TakeSorted DEF Fifo
  <2>4. CASE when[h] = Soon /\ current_handles' = Append(current_handles, h)
    <3>1. PICK c : c = Append(current_handles, h)
      OBVIOUS
    <3>2. Ahead(Range(current_handles), {h})
      BY <2>3 DEF Fifo, Ahead
    <3>3. Sorted(c) /\ Range(c) = Range(current_handles) \cup {h}
      BY <1>0, <2>3, <3>1, <3>2, PutSorted, PutSeq DEF Fifo
    <3>4. /\ Sorted(gone) /\ Ahead(Range(gone), Range(c)) /\ Ahead(Range(gone), Range(s)) /\ Ahead(Range(c), Range(s))
      BY <2>3, <3>3 DEF Fifo, Ahead
    <3>5. scheduler' = s /\ current_handles' = c
      BY <2>1, <2>2, <2>4, <3>1
    <3>6. Accounted'
      BY <2>1, <2>3, <3>3, <3>5 DEF Fifo, Accounted
    <3>7. QED
      BY <2>1, <2>3, <3>3, <3>4, <3>5, <3>6, FifoMoved
  <2>5. CASE when[h] # Soon /\ UNCHANGED current_handles
    <3>1. scheduler' = s
      BY <2>1, <2>2
    <3>2. Ahead(Range(gone), Range(s)) /\ Ahead(Range(current_handles), Range(s))
      BY <2>3 DEF Fifo, Ahead
    <3>3. Accounted'
      BY <2>1, <2>3, <2>5, <3>1 DEF Fifo, Accounted
    <3>4. QED
      BY <2>1, <2>3, <2>5, <3>1, <3>2, <3>3, FifoMoved DEF Fifo
  <2>6. QED
    BY <1>2, <2>2, <2>4, <2>5 DEF RecvTask, Immediate
<1>3. CASE TimerExpire
  <2>1. UNCHANGED <<when, place, scheduler, gone, discarded>>
    BY <1>3 DEF TimerExpire, queuevars
  <2>2. PICK T \in SUBSET delayed_tasks : \E q \in Orders(T) : current_handles' = current_handles \o q
    BY <1>3 DEF TimerExpire
  <2>3. PICK q \in Orders(T) : current_handles' = current_handles \o q
    BY <2>2
  <2>4. T \in SUBSET Handles /\ \A h \in T : when[h] # Soon
    BY <1>0, TokioConstants
  <2>5. q \in Seq(Handles) /\ \A h \in Range(q) : when[h] # Soon
    BY <2>4, OrderedTimers
  <2>6. PICK c : c = current_handles \o q
    OBVIOUS
  <2>7. Sorted(c) /\ Range(c) = Range(current_handles) \cup Range(q)
    BY <1>0, <2>5, <2>6, JoinSorted, JoinSeq DEF Fifo
  <2>8. /\ Sorted(gone) /\ Sorted(scheduler) /\ Ahead(Range(gone), Range(c)) /\ Ahead(Range(gone), Range(scheduler))
        /\ Ahead(Range(c), Range(scheduler))
    BY <2>5, <2>7 DEF Fifo, Ahead, SentBefore
  <2>9. Accounted'
    BY <2>1, <2>3, <2>6, <2>7 DEF Fifo, Accounted
  <2>10. QED
    BY <2>1, <2>3, <2>6, <2>7, <2>8, <2>9, FifoMoved
<1>4. CASE RecvHandle
  <2>1. /\ current_handles # <<>> /\ current_handles' = Tail(current_handles) /\ running' = Head(current_handles)
        /\ UNCHANGED <<when, place, scheduler, discarded>>
        /\ gone' = IF when[running'] = Soon THEN Append(gone, running') ELSE gone
    BY <1>4 DEF RecvHandle, TakeFirst, queuevars
  <2>2. PICK h, c : h = Head(current_handles) /\ c = Tail(current_handles)
    OBVIOUS
  <2>3. /\ h \in Handles /\ c \in Seq(Handles) /\ Range(current_handles) = {h} \cup Range(c)
        /\ Sorted(c) /\ Ahead({h}, Range(c))
    BY <1>0, <2>1, <2>2, TakeSeq, TakeSorted DEF Fifo
  <2>4. PICK g : g = IF when[h] = Soon THEN Append(gone, h) ELSE gone
    OBVIOUS
  <2>5. Ahead(Range(gone), {h})
    BY <2>3 DEF Fifo, Ahead
  <2>6. Sorted(g) /\ Range(g) = Range(gone) \cup (IF when[h] = Soon THEN {h} ELSE {})
    BY <1>0, <2>3, <2>4, <2>5, PutSorted, PutSeq DEF Fifo
  <2>7. Ahead(Range(g), Range(c)) /\ Ahead(Range(g), Range(scheduler)) /\ Ahead(Range(c), Range(scheduler)) /\ Sorted(scheduler)
    BY <2>3, <2>6 DEF Fifo, Ahead
  <2>8. current_handles' = c /\ gone' = g
    BY <2>1, <2>2, <2>4
  <2>9. Accounted'
    BY <2>1, <2>3, <2>6, <2>8 DEF Fifo, Accounted
  <2>10. QED
    BY <2>1, <2>3, <2>6, <2>7, <2>8, <2>9, FifoMoved
<1>5. CASE RunEnd
  <2>1. /\ current_handles' = <<>> /\ UNCHANGED <<when, place, scheduler, gone>>
        /\ discarded' = discarded \cup Range(current_handles) \cup delayed_tasks
    BY <1>5 DEF RunEnd, queuevars
  <2>2. DOMAIN (<<>>) = {} /\ Range(<<>>) = {}
    BY DEF Range
  <2>3. \A h \in delayed_tasks : when[h] # Soon
    BY <1>0, TokioConstants
  <2>4. Accounted'
    <3> SUFFICES ASSUME NEW g \in Handles, place[g] > 0, when[g] = Soon, g \notin Range(gone), g \notin discarded'
                 PROVE  g \in Range(scheduler) /\ \A h \in discarded' : when[h] = Soon => place[h] < place[g]
      BY <2>1, <2>2 DEF Accounted
    <3>1. g \in Range(scheduler) /\ \A h \in discarded : when[h] = Soon => place[h] < place[g]
      BY <2>1 DEF Fifo, Accounted
    <3>2. \A h \in Range(current_handles) : when[h] = Soon => place[h] < place[g]
      BY <3>1 DEF Fifo, Ahead, SentBefore
    <3>3. QED
      BY <2>1, <2>3, <3>1, <3>2
  <2>5. /\ Sorted(<<>>) /\ Ahead(Range(gone), Range(<<>>)) /\ Ahead(Range(<<>>), Range(scheduler))
        /\ Sorted(gone) /\ Sorted(scheduler) /\ Ahead(Range(gone), Range(scheduler))
    BY <2>2 DEF Fifo, Sorted, Ahead
  <2>6. QED
    BY <2>1, <2>4, <2>5, FifoMoved
<1>6. ASSUME NEW h \in Handles, NEW w \in Nat \cup {Soon}, Schedule(h, w), UNCHANGED <<taskvars, gone, discarded>>
      PROVE  Fifo'
  <2>1. /\ h \notin used /\ UNCHANGED <<current_handles, gone, discarded>> /\ when' = [when EXCEPT ![h] = w]
    BY <1>6 DEF Schedule, taskvars
  <2>2. \A g \in Handles : g \in used => g # h /\ when'[g] = when[g]
    BY <1>0, <2>1
  <2>3. CASE UNCHANGED <<scheduler, sends, place>>
    <3>1. \A g, k \in used : SentBefore(g, k) => SentBefore(g, k)'
      BY <1>0, <2>2, <2>3 DEF SentBefore
    <3>2. \A q : Range(q) \subseteq used => \A i \in DOMAIN q : q[i] \in used
      BY DEF Range
    <3>3. Sorted(gone)' /\ Sorted(current_handles)' /\ Sorted(scheduler)'
      BY <1>0, <2>1, <2>3, <3>1, <3>2 DEF Fifo, Sorted
    <3>4. Ahead(Range(gone), Range(current_handles))' /\ Ahead(Range(gone), Range(scheduler))'
          /\ Ahead(Range(current_handles), Range(scheduler))'
      <4>1. /\ Range(gone)' = Range(gone) /\ Range(current_handles)' = Range(current_handles)
            /\ Range(scheduler)' = Range(scheduler)
        BY <2>1, <2>3 DEF Range
      <4>2. \A P, Q : P \subseteq used /\ Q \subseteq used /\ Ahead(P, Q) => \A g \in P, k \in Q : SentBefore(g, k)'
        BY <3>1 DEF Ahead
      <4>3. QED
        BY <1>0, <4>1, <4>2 DEF Fifo, Ahead
    <3>5. Accounted'
      <4>1. \A g \in Handles : place[g] > 0 => when'[g] = when[g]
        BY <1>0, <2>2
      <4>2. \A g \in discarded : when'[g] = when[g]
        BY <1>0, <2>2
      <4>3. QED
        BY <2>1, <2>3, <4>1, <4>2 DEF Fifo, Accounted, Range
    <3>6. QED
      BY <3>3, <3>4, <3>5 DEF Fifo
  <2>4. CASE scheduler' = Append(scheduler, h) /\ place' = [place EXCEPT ![h] = sends + 1]
    <3>1. PICK s : s = Append(scheduler, h)
      OBVIOUS
    <3>2. \A g, k \in used : SentBefore(g, k) => SentBefore(g, k)'
      BY <1>0, <2>2, <2>4 DEF SentBefore
    <3>3. \A g \in used : SentBefore(g, h)' /\ place'[g] = place[g] /\ place[g] < place'[h]
      BY <1>0, <2>2, <2>4 DEF SentBefore
    <3>4. \A q : Range(q) \subseteq used => \A i \in DOMAIN q : q[i] \in used
      BY DEF Range
    <3>5. Sorted(gone)' /\ Sorted(current_handles)'
      BY <1>0, <2>1, <3>2, <3>4 DEF Fifo, Sorted
    <3>6. /\ \A i \in DOMAIN s : (i \in DOMAIN scheduler /\ s[i] = scheduler[i]) \/ (i = Len(scheduler) + 1 /\ s[i] = h)
          /\ \A i \in DOMAIN scheduler : i < Len(scheduler) + 1 /\ i \in Nat
          /\ Len(scheduler) \in Nat
          /\ Range(s) = Range(scheduler) \cup {h}
      BY <1>0, <3>1, PutSeq, LenProperties
    <3>7. Sorted(scheduler)'
      <4> SUFFICES ASSUME NEW i \in DOMAIN s, NEW j \in DOMAIN s, i < j PROVE SentBefore(s[i], s[j])'
        BY <2>4, <3>1 DEF Sorted
      <4>1. i \in DOMAIN scheduler /\ s[i] = scheduler[i] /\ s[i] \in used
        <5>1. i # Len(scheduler) + 1
          BY <3>6
        <5>2. QED
          BY <1>0, <3>4, <3>6, <5>1
      <4>2. CASE j \in DOMAIN scheduler /\ s[j] = scheduler[j]
        <5>1. s[j] \in used /\ SentBefore(s[i], s[j])
          BY <1>0, <3>4, <4>1, <4>2 DEF Fifo, Sorted
        <5>2. QED
          BY <3>2, <4>1, <5>1
      <4>3. CASE s[j] = h
        BY <3>3, <4>1, <4>3
      <4>4. QED
        BY <3>6, <4>2, <4>3
    <3>8. Ahead(Range(gone), Range(current_handles))' /\ Ahead(Range(gone), Range(scheduler))'
          /\ Ahead(Range(current_handles), Range(scheduler))'
      <4>1. \A P, Q : P \subseteq used /\ Q \subseteq used /\ Ahead(P, Q) =>
              \A g \in P : \A k \in Q \cup {h} : SentBefore(g, k)'
        BY <3>2, <3>3 DEF Ahead
      <4>2. /\ Range(gone)' = Range(gone) /\ Range(current_handles)' = Range(current_handles)
            /\ Range(scheduler)' = Range(scheduler) \cup {h}
        BY <2>1, <2>4, <3>1, <3>6 DEF Range
      <4>3. QED
        BY <1>0, <4>1, <4>2 DEF Fifo, Ahead
    <3>9. Accounted'
      <4>1. /\ Range(gone)' = Range(gone) /\ Range(current_handles)' = Range(current_handles)
            /\ Range(scheduler)' = Range(scheduler) \cup {h}
        BY <2>1, <2>4, <3>1, <3>6 DEF Range
      <4> SUFFICES ASSUME NEW g \in Handles, place'[g] > 0, when'[g] = Soon
                   PROVE  \/ g \in Range(gone) \cup discarded
                          \/ /\ g \in Range(current_handles) \cup Range(scheduler) \cup {h}
                             /\ \A k \in discarded : when'[k] = Soon => place'[k] < place'[g]
        BY <2>1, <4>1 DEF Accounted
      <4>2. \A k \in discarded : when'[k] = when[k] /\ place'[k] = place[k]
        BY <1>0, <2>2, <3>3
      <4>3. CASE g = h
        BY <1>0, <3>3, <4>2, <4>3
      <4>4. CASE g # h
        <5>1. place'[g] = place[g] /\ when'[g] = when[g]
          BY <1>0, <2>1, <2>4, <4>4
        <5>2. QED
          BY <4>2, <5>1 DEF Fifo, Accounted
      <4>5. QED
        BY <4>3, <4>4
    <3>10. QED
      BY <3>5, <3>7, <3>8, <3>9 DEF Fifo
  <2>5. QED
    BY <1>6, <2>3, <2>4 DEF Schedule, Send
<1>7. ASSUME NEW h \in Handles, \/ CallSoon(h) \/ (\E d \in Delays : CallLater(h, d))
                                \/ (\E f \in Fds : AddReader(f, h) \/ AddWriter(f, h))
      PROVE  Fifo'
  <2>1. \A d \in Delays : now + d \in Nat
    BY Frame, TokioConstants DEF LoopType
  <2>2. (\E w \in Nat \cup {Soon} : Schedule(h, w)) /\ UNCHANGED <<taskvars, gone, discarded>>
    BY <1>7, <2>1 DEF CallSoon, CallLater, AddReader, AddWriter
  <2>3. QED
    BY <1>6, <2>2
<1>8. CASE \/ UNCHANGED vars \/ SelectSleep \/ RecvSignal \/ CallbackReturn \/ CheckStop \/ RunForever \/ Stop \/ Close
           \/ (\E h \in Handles : Cancel(h)) \/ (\E f \in Fds : RemoveIo(f)) \/ Readers \/ Environment
  <2>1. UNCHANGED <<when, place, scheduler, current_handles, gone, discarded>>
    BY <1>8 DEF vars, taskvars, queuevars, SelectSleep, RecvSignal, CallbackReturn, CheckStop, RunForever, Stop, Close,
                Cancel, RemoveIo, Readers, ReaderStart, ReaderRead, Environment, Tick, SignalArrive
  <2>2. QED
    BY <1>1, <2>1
<1>9. QED
  BY <1>2, <1>3, <1>4, <1>5, <1>7, <1>8 DEF Next, LoopTask, SelectBranch, Calls
-----------------------------------------------------------------------------
(***************************************************************************)
(* Timers.                                                                 *)
(***************************************************************************)

\* Every step keeps the timers: one leaves the channel for the heap, and the
\* heap when it is due or when the run ends.
LEMMA TimersNext ==
  ASSUME IInv, TimersKept, [Next]_vars
  PROVE  TimersKept'
<1>0. /\ scheduler \in Seq(Handles) /\ when \in [Handles -> Nat \cup {Soon}] /\ now \in Nat /\ used \subseteq Handles
      /\ delayed_tasks \subseteq {h \in Handles : when[h] \in Nat} /\ Soon \notin Nat
  BY Frame, TokioConstants DEF TaskType, QueueType, LoopType
<1>1. ASSUME UNCHANGED <<when, used, scheduler, delayed_tasks, discarded, ignored>>, now' \in {now, now + 1} PROVE TimersKept'
  <2>1. \A h \in used : when[h] # Soon /\ when[h] <= now => when[h] <= now'
    BY <1>0, <1>1
  <2>2. QED
    BY <1>0, <1>1, <2>1 DEF TimersKept, Range
<1>2. CASE RecvTask
  <2>1. scheduler # <<>> /\ UNCHANGED <<when, used, discarded, ignored, now>>
    BY <1>2 DEF RecvTask
  <2>2. PICK h, s : h = Head(scheduler) /\ s = Tail(scheduler)
    OBVIOUS
  <2>3. Range(scheduler) = {h} \cup Range(s) /\ scheduler' = s
    BY <1>0, <1>2, <2>1, <2>2, TakeSeq DEF RecvTask
  <2>4. delayed_tasks \subseteq delayed_tasks' /\ (when[h] # Soon => h \in delayed_tasks')
    BY <1>2, <2>2 DEF RecvTask, Immediate
  <2>5. Range(scheduler)' = Range(s)
    BY <2>3 DEF Range
  <2>6. QED
    BY <2>1, <2>3, <2>4, <2>5 DEF TimersKept
<1>3. CASE TimerExpire
  <2>1. UNCHANGED <<scheduler, when, used, discarded, ignored, now>>
    BY <1>3 DEF TimerExpire, queuevars
  <2>2. \A h \in delayed_tasks : h \in delayed_tasks' \/ when[h] <= now
    BY <1>3 DEF TimerExpire, Due
  <2>3. QED
    BY <2>1, <2>2 DEF TimersKept, Range
<1>4. CASE RunEnd
  <2>1. UNCHANGED <<scheduler, when, used, ignored, now>> /\ discarded \cup delayed_tasks \subseteq discarded'
    BY <1>4 DEF RunEnd, queuevars
  <2>2. QED
    BY <2>1 DEF TimersKept, Range
<1>5. ASSUME NEW h \in Handles, NEW w \in Nat \cup {Soon}, Schedule(h, w),
             UNCHANGED <<delayed_tasks, discarded, now>>
      PROVE  TimersKept'
  <2>1. h \notin used /\ used' = used \cup {h} /\ \A g \in used : when'[g] = when[g]
    BY <1>0, <1>5 DEF Schedule
  <2>2. CASE UNCHANGED scheduler /\ ignored' = ignored \cup {h}
    BY <1>5, <2>1, <2>2 DEF TimersKept, Range
  <2>3. CASE scheduler' = Append(scheduler, h) /\ UNCHANGED ignored
    <3>1. PICK s : s = Append(scheduler, h)
      OBVIOUS
    <3>2. Range(s) = Range(scheduler) \cup {h}
      BY <1>0, <3>1, PutSeq
    <3>3. Range(scheduler)' = Range(scheduler) \cup {h}
      BY <2>3, <3>1, <3>2 DEF Range
    <3>4. QED
      BY <1>5, <2>1, <2>3, <3>3 DEF TimersKept
  <2>4. QED
    BY <1>5, <2>2, <2>3 DEF Schedule, Send
<1>6. ASSUME NEW h \in Handles, \/ CallSoon(h) \/ (\E d \in Delays : CallLater(h, d))
                                \/ (\E f \in Fds : AddReader(f, h) \/ AddWriter(f, h))
      PROVE  TimersKept'
  <2>1. \A d \in Delays : now + d \in Nat
    BY <1>0, TokioConstants
  <2>2. (\E w \in Nat \cup {Soon} : Schedule(h, w)) /\ UNCHANGED <<delayed_tasks, discarded, now>>
    BY <1>6, <2>1 DEF CallSoon, CallLater, AddReader, AddWriter, taskvars
  <2>3. QED
    BY <1>5, <2>2
<1>7. CASE \/ UNCHANGED vars \/ SelectSleep \/ RecvSignal \/ RecvHandle \/ CallbackReturn \/ CheckStop \/ RunForever
           \/ Stop \/ Close \/ (\E h \in Handles : Cancel(h)) \/ (\E f \in Fds : RemoveIo(f)) \/ Readers \/ Environment
  <2>1. UNCHANGED <<when, used, scheduler, delayed_tasks, discarded, ignored>> /\ now' \in {now, now + 1}
    BY <1>7 DEF vars, taskvars, queuevars, SelectSleep, RecvSignal, RecvHandle, CallbackReturn, CheckStop, RunForever,
                Stop, Close, Cancel, RemoveIo, Readers, ReaderStart, ReaderRead, Environment, Tick, SignalArrive
  <2>2. QED
    BY <1>1, <2>1
<1>8. QED
  BY <1>2, <1>3, <1>4, <1>6, <1>7 DEF Next, LoopTask, SelectBranch, Calls
-----------------------------------------------------------------------------
(***************************************************************************)
(* The theorems.                                                           *)
(***************************************************************************)

\* A new loop.
LEMMA Initially == Init => IInv /\ Fifo /\ TimersKept
<1> SUFFICES ASSUME Init PROVE IInv /\ Fifo /\ TimersKept
  OBVIOUS
<1>1. Range(<<>>) = {}
  BY DEF Range
<1>2. /\ scheduler = <<>> /\ current_handles = <<>> /\ gone = <<>> /\ delayed_tasks = {} /\ discarded = {}
      /\ used = {} /\ sends = 0 /\ place = [h \in Handles |-> 0]
  BY DEF Init
<1>3. LoopType
  <2>1. MaxRuns \in Nat
    BY TokioConstants
  <2>2. QED
    <3>1. lpc = "off" /\ now = 0 /\ runs = 0
      BY DEF Init
    <3>2. stopping \in BOOLEAN /\ closed \in BOOLEAN
      BY Zenon DEF Init
    <3>3. QED
      BY <2>1, <3>1, <3>2 DEF LoopType, LoopPCs
<1>4. TaskType /\ QueueType
  BY DEF Init, TaskType, QueueType
<1>5. CallType /\ SigType
  <2>1. sig_listening \in BOOLEAN
    BY Zenon DEF Init
  <2>2. signal_socket = <<>> /\ ssock \in [Runs -> Seq(SigNums)] /\ sent = 0
    BY DEF Init
  <2>3. reader \in [Runs -> {"none", "spawned", "reading", "astray", "done"}]
    BY DEF Init
  <2>4. CallType
    BY DEF Init, CallType
  <2>5. QED
    BY <2>1, <2>2, <2>3, <2>4 DEF SigType
<1>6. UsedInv
  BY <1>1, <1>2 DEF UsedInv, Pending
<1>7. Fifo
  BY <1>1, <1>2 DEF Fifo, Sorted, Ahead, Accounted
<1>8. TimersKept
  BY <1>2 DEF TimersKept
<1>9. QED
  BY <1>3, <1>4, <1>5, <1>6, <1>7, <1>8, TypeParts DEF IInv

\* The loop keeps its types whatever the callbacks, the other threads and the
\* signals do: in particular every task of the heap has a deadline.
THEOREM TypeCorrect == Spec => []TypeOK
<1>1. IInv => TypeOK
  BY DEF IInv
<1>2. QED
  BY <1>1, Initially, TypesNext, PTL DEF Spec

\* Immediate tasks leave in the order schedule_handle sent them, through both
\* channels and over any number of runs, and what the end of a run drops
\* was sent before everything that is left.
THEOREM SoonInOrder == Spec => []SoonFifo
<1>1. QED
  BY Initially, TypesNext, FifoNext, FifoParts, PTL DEF Spec

\* A timer that was scheduled and is not waiting in the channel or the heap
\* is due, or the end of a run discarded it, or schedule_handle ignored it.
THEOREM TimersNotLost == Spec => []TimersKept
<1>1. QED
  BY Initially, TypesNext, TimersNext, PTL DEF Spec
=============================================================================
