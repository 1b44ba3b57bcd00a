------------------------- MODULE EventLoopOrderProofs -------------------------
(***************************************************************************)
(* Proofs about the order in which EventLoop runs what it was given: the   *)
(* ready queue is first in first out, the timers of a batch run by their   *)
(* deadlines, and counter_ready counts the queue modulo its width.         *)
(***************************************************************************)
EXTENDS EventLoopProofs

\* o is p, then the first n of c, then r
Laid(o, p, c, n, r) ==
  /\ Len(o) = Len(p) + n + Len(r)
  /\ \A i \in 1..Len(p) : o[i] = p[i]
  /\ \A i \in 1..n : o[Len(p) + i] = c[i]
  /\ \A i \in 1..Len(r) : o[Len(p) + n + i] = r[i]

\* Two ways to say how a sequence is put together.
LEMMA LaidOut ==
  ASSUME NEW S, NEW o \in Seq(S), NEW p \in Seq(S), NEW r \in Seq(S), NEW c, NEW n \in Nat,
         \A i \in 1..n : c[i] \in S
  PROVE  Laid(o, p, c, n, r) <=> o = p \o SubSeq(c, 1, n) \o r
<1> DEFINE m == SubSeq(c, 1, n)
           t == p \o m
           q == t \o r
<1>1. m \in Seq(S) /\ Len(m) = n /\ \A i \in 1..n : m[i] = c[i]
  BY SubSeqProperties
<1>2. Len(p) \in Nat /\ Len(r) \in Nat /\ Len(o) \in Nat
  BY LenProperties
<1> HIDE DEF m
<1>3. /\ t \in Seq(S) /\ Len(t) = Len(p) + n
      /\ \A i \in 1..(Len(p) + n) : t[i] = IF i <= Len(p) THEN p[i] ELSE m[i - Len(p)]
  BY <1>1, ConcatProperties
<1> HIDE DEF t
<1>4. /\ q \in Seq(S) /\ Len(q) = Len(p) + n + Len(r)
      /\ \A i \in 1..(Len(p) + n + Len(r)) :
           q[i] = IF i <= Len(p) + n THEN t[i] ELSE r[i - (Len(p) + n)]
  <2>1. /\ q \in Seq(S) /\ Len(q) = Len(t) + Len(r)
        /\ \A i \in 1..(Len(t) + Len(r)) : q[i] = IF i <= Len(t) THEN t[i] ELSE r[i - Len(t)]
    BY <1>3, ConcatProperties
  <2>2. QED
    BY <1>3, <2>1, Zenon
<1> HIDE DEF q
<1>5. Laid(q, p, c, n, r)
  <2>1. \A i \in 1..Len(p) : q[i] = p[i]
    BY <1>2, <1>3, <1>4
  <2>2. ASSUME NEW i \in 1..n PROVE q[Len(p) + i] = c[i]
    <3>1. q[Len(p) + i] = t[Len(p) + i]
      BY <1>2, <1>4
    <3>2. t[Len(p) + i] = m[(Len(p) + i) - Len(p)]
      BY <1>2, <1>3
    <3>3. (Len(p) + i) - Len(p) = i
      BY <1>2
    <3>4. QED
      BY <1>1, <3>1, <3>2, <3>3
  <2>3. ASSUME NEW i \in 1..Len(r) PROVE q[Len(p) + n + i] = r[i]
    <3>0. /\ Len(p) + n + i \in 1..(Len(p) + n + Len(r))
          /\ ~(Len(p) + n + i <= Len(p) + n)
      BY <1>2
    <3>1. q[Len(p) + n + i] = r[(Len(p) + n + i) - (Len(p) + n)]
      BY <1>4, <3>0, Zenon
    <3>2. (Len(p) + n + i) - (Len(p) + n) = i
      BY <1>2
    <3>3. QED
      BY <3>1, <3>2
  <2>4. QED
    BY <1>4, <2>1, <2>2, <2>3 DEF Laid
<1>6. ASSUME Laid(o, p, c, n, r) PROVE o = q
  <2>1. Len(o) = Len(q)
    BY <1>4, <1>6 DEF Laid
  <2>2. ASSUME NEW i \in 1..Len(o) PROVE o[i] = q[i]
    <3>1. CASE i <= Len(p)
      BY <1>2, <1>5, <1>6, <3>1 DEF Laid
    <3>2. CASE ~(i <= Len(p)) /\ i <= Len(p) + n
      <4>1. PICK j \in 1..n : Len(p) + j = i
        <5>1. i - Len(p) \in 1..n /\ Len(p) + (i - Len(p)) = i
          BY <1>2, <3>2
        <5>2. QED
          BY <5>1
      <4>2. o[Len(p) + j] = c[j] /\ q[Len(p) + j] = c[j]
        BY <1>5, <1>6, Zenon DEF Laid
      <4>3. QED
        BY <4>1, <4>2
    <3>3. CASE ~(i <= Len(p) + n)
      <4>1. PICK j \in 1..Len(r) : Len(p) + n + j = i
        <5>1. i - (Len(p) + n) \in 1..Len(r) /\ Len(p) + n + (i - (Len(p) + n)) = i
          BY <1>2, <1>6, <3>3 DEF Laid
        <5>2. QED
          BY <5>1
      <4>2. o[Len(p) + n + j] = r[j] /\ q[Len(p) + n + j] = r[j]
        BY <1>5, <1>6, Zenon DEF Laid
      <4>3. QED
        BY <4>1, <4>2
    <3>4. QED
      BY <1>2, <3>1, <3>2, <3>3
  <2>3. QED
    BY <1>4, <2>1, <2>2, SeqEqual
<1>7. QED
  BY <1>5, <1>6 DEF q, t, m
-----------------------------------------------------------------------------
(***************************************************************************)
(* First in, first out.  A batch is a prefix that was taken from the queue *)
(* and a rest that was not; the rest never turns into the prefix, because  *)
(* a handle is given to the loop once.                                     *)
(***************************************************************************)

\* the first n of the batch are from the queue, all of it until step() has
\* appended I/O callbacks and timers
Taken(n) ==
  /\ Laid(order, popped, cb_handles, n, handles_ready)
  /\ \A i \in (n + 1)..Len(cb_handles) : cb_handles[i] \notin Soon
  /\ lpc = "collect" => n = Len(cb_handles)

FifoInv ==
  /\ lpc \notin {"collect", "run", "cb"} => cb_handles = <<>>
  /\ \E n \in 0..Len(cb_handles) : Taken(n)

\* the timers in the heap, and those that threads are about to push
Pending == handles_sched \cup {h \in Handles : \E t \in Threads : tpc[t] = h}

\* a handle is in one place
OnceInv ==
  /\ Soon \subseteq used /\ Pending \subseteq used \ Soon
  /\ \A i \in DOMAIN cb_handles : cb_handles[i] \in Handles => cb_handles[i] \in used

\* the timers of a batch were due when it was put together; with a GIL nobody
\* was then about to push one, and those made since are due later
TimerInv ==
  \A i \in TimersOfBatch :
    /\ \A j \in TimersOfBatch : i < j => when[cb_handles[i]] <= when[cb_handles[j]]
    /\ when[cb_handles[i]] <= now
    /\ GIL => \A h \in Pending : when[cb_handles[i]] <= when[h]

\* with a GIL the loop and the threads exclude each other
GilInv == GIL => GilHeld

OrderInv == FifoInv /\ OnceInv /\ TimerInv

\* The types that the lemmas below need.
LEMMA OrderTypes ==
  ASSUME TypeOK
  PROVE  /\ order \in Seq(Handles) /\ popped \in Seq(Handles) /\ handles_ready \in Seq(Handles)
         /\ cb_handles \in Seq(Callbacks)
         /\ DOMAIN order = 1..Len(order) /\ DOMAIN cb_handles = 1..Len(cb_handles)
         /\ Len(order) \in Nat /\ Len(popped) \in Nat /\ Len(handles_ready) \in Nat
         /\ Len(cb_handles) \in Nat /\ when \in [Handles -> Nat] /\ now \in Nat
         /\ handles_sched \subseteq Handles /\ used \subseteq Handles /\ Delays \subseteq Nat
         /\ \A i \in 1..Len(cb_handles) : cb_handles[i] \in Callbacks
BY ConstantsAssumption, LenProperties DEF TypeOK, ControlType, ReadyType, TimerType, BatchType,
   HistoryType

\* step() appends to the batch the I/O callbacks and signals of the poll, then
\* the timers that are due, by their deadlines.
LEMMA CollectedBatch ==
  ASSUME TypeOK, StepCollect
  PROVE  \E rest \in Seq(Callbacks) : \E m \in 0..Len(rest) :
           /\ cb_handles' = cb_handles \o rest
           /\ \A i \in 1..m : rest[i] \notin Handles
           /\ \A i \in (m + 1)..Len(rest) : rest[i] \in Due
           /\ \A i, j \in (m + 1)..Len(rest) : i < j => when[rest[i]] <= when[rest[j]]
<1>1. PICK before \in SUBSET (Dispatched \cap Sources) :
        \E io1 \in Orders(before), io2 \in Orders((Dispatched \cap Sources) \ before),
           sigs \in SignalBatches, timers \in TimerBatches :
          cb_handles' = cb_handles \o io1 \o sigs \o io2 \o timers
  BY DEF StepCollect
<1>2. PICK io1 \in Orders(before), io2 \in Orders((Dispatched \cap Sources) \ before),
           sigs \in SignalBatches, timers \in TimerBatches :
        cb_handles' = cb_handles \o io1 \o sigs \o io2 \o timers
  BY <1>1
<1> DEFINE Others == Sources \cup Signals
<1>3. Others \subseteq Callbacks /\ \A x \in Others : x \notin Handles
  BY ConstantsAssumption DEF Callbacks
<1>4. io1 \in Seq(Others) /\ io2 \in Seq(Others)
  <2>1. before \subseteq Sources /\ (Dispatched \cap Sources) \ before \subseteq Sources
    OBVIOUS
  <2>2. IsFiniteSet(before) /\ IsFiniteSet((Dispatched \cap Sources) \ before)
    BY <2>1, ConstantsAssumption, FS_Subset
  <2>3. io1 \in Seq(before) /\ io2 \in Seq((Dispatched \cap Sources) \ before)
    BY <2>2, OrdersAreSequences
  <2>4. QED
    BY <2>1, <2>3, SeqMonotonic
<1>5. sigs \in Seq(Others)
  BY BatchTypes, SignalSequences, SeqMonotonic
<1>6. /\ timers \in Seq(Due) /\ Due \subseteq Handles /\ Handles \subseteq Callbacks
      /\ \A i, j \in DOMAIN timers : i < j => when[timers[i]] <= when[timers[j]]
  <2>1. timers \in Orders(Due) /\ Due \subseteq Handles /\ TimeOrdered(timers)
    BY DEF TimerBatches, Due, TypeOK, TimerType
  <2>2. IsFiniteSet(Due)
    BY <2>1, ConstantsAssumption, FS_Subset
  <2>3. QED
    BY <2>1, <2>2, OrdersAreSequences DEF TimeOrdered, Callbacks
<1> HIDE DEF Others
<1> DEFINE io == io1 \o sigs \o io2
           rest == io \o timers
<1>7. io \in Seq(Others)
  BY <1>4, <1>5
<1> HIDE DEF io
<1>8. io \in Seq(Callbacks) /\ timers \in Seq(Callbacks) /\ cb_handles \in Seq(Callbacks)
  <2>1. Due \subseteq Callbacks
    BY <1>6
  <2>2. QED
    BY <1>3, <1>6, <1>7, <2>1, SeqMonotonic, OrderTypes
<1>9. cb_handles' = cb_handles \o rest
  <2>1. io1 \in Seq(Callbacks) /\ sigs \in Seq(Callbacks) /\ io2 \in Seq(Callbacks)
    BY <1>3, <1>4, <1>5, SeqMonotonic
  <2>2. cb_handles' = (((cb_handles \o io1) \o sigs) \o io2) \o timers
    BY <1>2
  <2>3. io1 \o sigs \in Seq(Callbacks)
    BY <2>1, ConcatProperties
  <2>4. (cb_handles \o io1) \o sigs = cb_handles \o (io1 \o sigs)
    BY <1>8, <2>1, ConcatAssociative, SMTT(60)
  <2>5. (cb_handles \o (io1 \o sigs)) \o io2 = cb_handles \o ((io1 \o sigs) \o io2)
    <3> DEFINE both == io1 \o sigs
    <3>1. both \in Seq(Callbacks)
      BY <2>3
    <3> HIDE DEF both
    <3>2. cb_handles \in Seq(Callbacks) /\ io2 \in Seq(Callbacks)
      BY <1>8, <2>1
    <3>3. (cb_handles \o both) \o io2 = cb_handles \o (both \o io2)
      BY <3>1, <3>2, ConcatAssociative
    <3>4. QED
      BY <3>3 DEF both
  <2>6. (cb_handles \o io) \o timers = cb_handles \o rest
    BY <1>8, ConcatAssociative
  <2>7. QED
    BY <2>2, <2>4, <2>5, <2>6 DEF io
<1>10. /\ rest \in Seq(Callbacks) /\ Len(rest) = Len(io) + Len(timers)
       /\ \A i \in 1..(Len(io) + Len(timers)) :
            rest[i] = IF i <= Len(io) THEN io[i] ELSE timers[i - Len(io)]
  BY <1>8, ConcatProperties
<1>11. /\ Len(io) \in Nat /\ Len(timers) \in Nat /\ DOMAIN timers = 1..Len(timers)
       /\ (\A i \in 1..Len(io) : io[i] \in Others) /\ (\A i \in 1..Len(timers) : timers[i] \in Due)
  BY <1>6, <1>7, LenProperties, ElementOfSeq
<1> HIDE DEF rest
<1>12. Len(io) \in 0..Len(rest) /\ \A i \in 1..Len(io) : rest[i] \notin Handles
  BY <1>3, <1>10, <1>11
<1>13. \A i \in (Len(io) + 1)..Len(rest) :
         i - Len(io) \in 1..Len(timers) /\ rest[i] = timers[i - Len(io)]
  BY <1>10, <1>11
<1>14. \A i \in (Len(io) + 1)..Len(rest) : rest[i] \in Due
  BY <1>11, <1>13
<1>15. ASSUME NEW i \in (Len(io) + 1)..Len(rest), NEW j \in (Len(io) + 1)..Len(rest), i < j
       PROVE  when[rest[i]] <= when[rest[j]]
  <2>1. i - Len(io) < j - Len(io)
    BY <1>11, <1>15, <1>10
  <2>2. QED
    BY <1>6, <1>11, <1>13, <2>1
<1>16. QED
  BY <1>9, <1>10, <1>12, <1>14, <1>15

\* Queueing a handle appends it to the order of the queue, and to nothing else.
LEMMA PushOrder ==
  ASSUME TypeOK, OrderInv, NEW h \in Handles, PushReady(h),
         UNCHANGED <<lpc, popped, cb_handles, when, now>>, Pending' \subseteq Pending
  PROVE  OrderInv'
<1>1. /\ h \notin used /\ used' = used \cup {h}
      /\ handles_ready' = Append(handles_ready, h) /\ order' = Append(order, h)
  BY DEF PushReady
<1>2. /\ Len(order') = Len(order) + 1 /\ DOMAIN order' = 1..(Len(order) + 1)
      /\ order'[Len(order) + 1] = h /\ \A i \in 1..Len(order) : order'[i] = order[i]
      /\ Len(handles_ready') = Len(handles_ready) + 1 /\ handles_ready'[Len(handles_ready) + 1] = h
      /\ \A i \in 1..Len(handles_ready) : handles_ready'[i] = handles_ready[i]
  BY <1>1, OrderTypes, AppendProperties, LenProperties
<1>3. Soon' = Soon \cup {h}
  <2>1. Len(order) \in Nat /\ DOMAIN order = 1..Len(order)
    BY OrderTypes
  <2>2. DOMAIN order' = DOMAIN order \cup {Len(order) + 1}
    BY <1>2, <2>1
  <2>3. QED
    BY <1>2, <2>1, <2>2 DEF Soon
<1>4. \A i \in DOMAIN cb_handles : cb_handles[i] # h
  BY <1>1 DEF OrderInv, OnceInv
<1>5. OnceInv'
  BY <1>1, <1>3 DEF OrderInv, OnceInv
<1>6. TimerInv'
  <2>1. TimersOfBatch' = TimersOfBatch
    BY <1>3, <1>4 DEF TimersOfBatch
  <2>2. QED
    BY <2>1 DEF OrderInv, TimerInv
<1>7. FifoInv'
  <2>1. PICK n \in 0..Len(cb_handles) : Taken(n)
    BY DEF OrderInv, FifoInv
  <2>2. Laid(order', popped', cb_handles', n, handles_ready')
    <3>1. Len(order) = Len(popped) + n + Len(handles_ready)
      BY <2>1 DEF Taken, Laid
    <3>2. Len(order') = Len(popped) + n + Len(handles_ready')
      BY <1>2, <3>1, OrderTypes
    <3>3. ASSUME NEW i \in 1..Len(handles_ready')
          PROVE  order'[Len(popped) + n + i] = handles_ready'[i]
      <4>1. CASE i = Len(handles_ready) + 1
        BY <1>2, <3>1, <4>1, OrderTypes
      <4>2. CASE i \in 1..Len(handles_ready)
        <5>1. Len(popped) + n + i \in 1..Len(order)
          BY <3>1, <4>2, OrderTypes
        <5>2. QED
          BY <1>2, <2>1, <4>2, <5>1 DEF Taken, Laid
      <4>3. QED
        BY <1>2, <4>1, <4>2, OrderTypes
    <3>4. /\ \A i \in 1..Len(popped) : i \in 1..Len(order)
          /\ \A i \in 1..n : Len(popped) + i \in 1..Len(order)
      BY <3>1, OrderTypes
    <3>5. /\ \A i \in 1..Len(popped) : order'[i] = popped[i]
          /\ \A i \in 1..n : order'[Len(popped) + i] = cb_handles[i]
      BY <1>2, <2>1, <3>4 DEF Taken, Laid
    <3>6. QED
      BY <3>2, <3>3, <3>5 DEF Laid
  <2>3. \A i \in (n + 1)..Len(cb_handles) : i \in DOMAIN cb_handles
    BY OrderTypes
  <2>4. \A i \in (n + 1)..Len(cb_handles)' : cb_handles'[i] \notin Soon'
    BY <1>3, <1>4, <2>1, <2>3 DEF Taken
  <2>5. Taken(n)'
    BY <2>1, <2>2, <2>4 DEF Taken
  <2>6. QED
    BY <2>5 DEF OrderInv, FifoInv
<1>8. QED
  BY <1>5, <1>6, <1>7 DEF OrderInv

\* A new timer is not due before one that is in the batch already.
LEMMA TimerAdded ==
  ASSUME TypeOK, OrderInv, NEW h \in Handles, NEW d \in Delays, NewTimer(h, d),
         UNCHANGED <<lpc, popped, order, cb_handles, handles_ready, now>>,
         Pending' \subseteq Pending \cup {h}
  PROVE  OrderInv'
<1>1. h \notin used /\ used' = used \cup {h} /\ when' = [when EXCEPT ![h] = now + d]
  BY DEF NewTimer
<1>2. Soon' = Soon /\ h \notin Soon
  BY <1>1 DEF Soon, OrderInv, OnceInv
<1>3. OnceInv'
  BY <1>1, <1>2 DEF OrderInv, OnceInv
<1>4. FifoInv'
  BY <1>2 DEF OrderInv, FifoInv, Taken
<1>5. TimersOfBatch' = TimersOfBatch
  BY <1>2 DEF TimersOfBatch
<1>6. \A i \in TimersOfBatch : cb_handles[i] \in Handles /\ cb_handles[i] # h
  BY <1>1 DEF TimersOfBatch, OrderInv, OnceInv
<1>7. /\ when'[h] = now + d /\ now + d >= now /\ now + d \in Nat
      /\ \A k \in Handles : k # h => when'[k] = when[k]
  BY <1>1, OrderTypes
<1>8. TimerInv'
  <2> SUFFICES ASSUME NEW i \in TimersOfBatch
               PROVE  /\ \A j \in TimersOfBatch : i < j => when'[cb_handles[i]] <= when'[cb_handles[j]]
                      /\ when'[cb_handles[i]] <= now
                      /\ GIL => \A k \in Pending' : when'[cb_handles[i]] <= when'[k]
    BY <1>5 DEF TimerInv
  <2>1. when'[cb_handles[i]] = when[cb_handles[i]] /\ when[cb_handles[i]] <= now
    BY <1>6, <1>7 DEF OrderInv, TimerInv
  <2>2. \A j \in TimersOfBatch : i < j => when'[cb_handles[i]] <= when'[cb_handles[j]]
    BY <1>6, <1>7, <2>1 DEF OrderInv, TimerInv
  <2>3. when[cb_handles[i]] \in Nat /\ when[cb_handles[i]] <= when'[h]
    BY <1>6, <1>7, <2>1, OrderTypes
  <2>4. \A k \in Pending : k \in Handles /\ k # h
    BY <1>1, OrderTypes DEF Pending, OrderInv, OnceInv
  <2>5. GIL => \A k \in Pending' : when'[cb_handles[i]] <= when'[k]
    BY <1>7, <2>1, <2>3, <2>4 DEF OrderInv, TimerInv
  <2>6. QED
    BY <2>1, <2>2, <2>5
<1>9. QED
  BY <1>3, <1>4, <1>8 DEF OrderInv

\* Taking the queue makes it the batch.
LEMMA SwapOrder ==
  ASSUME TypeOK, OrderInv, StepSwap
  PROVE  OrderInv'
<1>1. /\ lpc' = "collect" /\ cb_handles = <<>> /\ cb_handles' = handles_ready
      /\ handles_ready' = <<>>
      /\ UNCHANGED <<order, popped, handles_sched, when, now, used, tpc>>
  BY DEF StepSwap, OrderInv, FifoInv, timervars, histvars
<1>2. Len(<<>>) = 0 /\ DOMAIN handles_ready = 1..Len(handles_ready)
  BY OrderTypes, LenProperties
<1>3. Laid(order, popped, <<>>, 0, handles_ready)
  <2>1. PICK n \in 0..Len(cb_handles) : Taken(n)
    BY DEF OrderInv, FifoInv
  <2>2. n = 0
    BY <1>1, <1>2, <2>1
  <2>3. QED
    BY <1>1, <2>1, <2>2 DEF Taken
<1>4. /\ Len(order) = Len(popped) + Len(handles_ready)
      /\ \A i \in 1..Len(popped) : order[i] = popped[i]
      /\ \A i \in 1..Len(handles_ready) : order[Len(popped) + i] = handles_ready[i]
  BY <1>3, OrderTypes DEF Laid
<1>5. Laid(order, popped, handles_ready, Len(handles_ready), <<>>)
  BY <1>2, <1>4, OrderTypes DEF Laid
<1>6. Soon' = Soon /\ \A i \in DOMAIN handles_ready : handles_ready[i] \in Soon
  <2>1. \A i \in 1..Len(handles_ready) : Len(popped) + i \in DOMAIN order
    BY <1>4, OrderTypes
  <2>2. QED
    BY <1>1, <1>2, <1>4, <2>1 DEF Soon
<1>7. PICK n \in Nat : n = Len(handles_ready)
  BY OrderTypes
<1>8. FifoInv'
  <2>1. Taken(n)' /\ n \in 0..Len(cb_handles')
    BY <1>1, <1>5, <1>7 DEF Taken
  <2>2. QED
    BY <1>1, <2>1 DEF FifoInv
<1>9. OnceInv'
  BY <1>1, <1>6 DEF OrderInv, OnceInv, Pending
<1>10. TimersOfBatch' = {}
  BY <1>1, <1>6 DEF TimersOfBatch
<1>11. QED
  BY <1>8, <1>9, <1>10 DEF OrderInv, TimerInv

\* What step() appends comes after the queue, and is not of the queue.
LEMMA CollectOrder ==
  ASSUME TypeOK, GilInv, OrderInv, StepCollect
  PROVE  OrderInv'
<1>1. /\ lpc = "collect" /\ lpc' = "run" /\ handles_sched' = handles_sched \ Due
      /\ UNCHANGED <<order, popped, handles_ready, when, now, used, tpc>>
  BY DEF StepCollect, histvars
<1>2. PICK rest \in Seq(Callbacks) : \E m \in 0..Len(rest) :
        /\ cb_handles' = cb_handles \o rest
        /\ \A i \in 1..m : rest[i] \notin Handles
        /\ \A i \in (m + 1)..Len(rest) : rest[i] \in Due
        /\ \A i, j \in (m + 1)..Len(rest) : i < j => when[rest[i]] <= when[rest[j]]
  BY CollectedBatch
<1>3. PICK m \in 0..Len(rest) :
        /\ cb_handles' = cb_handles \o rest
        /\ \A i \in 1..m : rest[i] \notin Handles
        /\ \A i \in (m + 1)..Len(rest) : rest[i] \in Due
        /\ \A i, j \in (m + 1)..Len(rest) : i < j => when[rest[i]] <= when[rest[j]]
  BY <1>2
<1>4. PICK N \in Nat : N = Len(cb_handles) /\ Len(rest) \in Nat
  BY OrderTypes, LenProperties
<1>5. /\ Len(cb_handles') = N + Len(rest) /\ DOMAIN cb_handles' = 1..(N + Len(rest))
      /\ \A i \in 1..(N + Len(rest)) :
           cb_handles'[i] = IF i <= N THEN cb_handles[i] ELSE rest[i - N]
  BY <1>3, <1>4, OrderTypes, ConcatProperties, LenProperties
<1>6. Taken(N)
  BY <1>1, <1>4 DEF OrderInv, FifoInv, Taken
<1>7. Soon' = Soon /\ \A i \in 1..N : cb_handles[i] \in Soon
  <2>1. \A i \in 1..N : Len(popped) + i \in DOMAIN order /\ order[Len(popped) + i] = cb_handles[i]
    BY <1>4, <1>6, OrderTypes DEF Taken, Laid
  <2>2. QED
    BY <1>1, <2>1 DEF Soon
<1>8. DOMAIN cb_handles = 1..N
  BY <1>4, OrderTypes
<1>9. \A i \in 1..(N + Len(rest)) :
        \/ i \in 1..N /\ cb_handles'[i] = cb_handles[i]
        \/ /\ i - N \in 1..Len(rest) /\ cb_handles'[i] = rest[i - N] /\ N + (i - N) = i
           /\ i > N
  BY <1>4, <1>5
<1>10. \A i \in 1..Len(rest) : rest[i] \notin Handles \/ (i \in (m + 1)..Len(rest) /\ rest[i] \in Due)
  <2>1. \A i \in 1..Len(rest) : i \in 1..m \/ i \in (m + 1)..Len(rest)
    BY <1>4
  <2>2. QED
    BY <1>3, <2>1
<1>11. /\ Due \subseteq handles_sched /\ (\A h \in Due : when[h] <= now)
       /\ \A h \in handles_sched' : h \in handles_sched /\ ~(when[h] <= now)
  BY <1>1 DEF Due
<1>12. \A h \in Due : h \in used /\ h \notin Soon
  BY <1>11 DEF OrderInv, OnceInv, Pending
<1>13. Soon \subseteq Handles
  BY OrderTypes DEF Soon
<1>14. FifoInv'
  <2>1. \A i \in (N + 1)..(N + Len(rest)) : cb_handles'[i] = rest[i - N] /\ i - N \in 1..Len(rest)
    BY <1>4, <1>5
  <2>2. \A i \in (N + 1)..Len(cb_handles') : cb_handles'[i] \notin Soon'
    BY <1>5, <1>7, <1>10, <1>12, <1>13, <2>1
  <2>3. \A i \in 1..N : cb_handles'[i] = cb_handles[i]
    BY <1>4, <1>5
  <2>4. Laid(order, popped, cb_handles', N, handles_ready)
    BY <1>6, <2>3 DEF Taken, Laid
  <2>5. Taken(N)' /\ N \in 0..Len(cb_handles')
    BY <1>1, <1>4, <1>5, <2>2, <2>4 DEF Taken
  <2>6. QED
    BY <1>1, <2>5 DEF FifoInv
<1>15. OnceInv'
  <2>1. \A i \in DOMAIN cb_handles' : cb_handles'[i] \in Handles => cb_handles'[i] \in used
    BY <1>5, <1>8, <1>9, <1>10, <1>12 DEF OrderInv, OnceInv
  <2>2. QED
    BY <1>1, <1>7, <2>1 DEF OrderInv, OnceInv, Pending
<1>16. TimerInv'
  <2>1. \A i \in TimersOfBatch' :
          /\ i \in 1..(N + Len(rest)) /\ i - N \in (m + 1)..Len(rest)
          /\ cb_handles'[i] = rest[i - N] /\ rest[i - N] \in Due
    BY <1>5, <1>7, <1>9, <1>10 DEF TimersOfBatch
  <2>2. ASSUME NEW i \in TimersOfBatch', NEW j \in TimersOfBatch', i < j
        PROVE  when[cb_handles'[i]] <= when[cb_handles'[j]]
    <3>1. i - N < j - N
      BY <1>4, <2>1, <2>2
    <3>2. QED
      BY <1>3, <2>1, <3>1
  <2>3. ASSUME NEW i \in TimersOfBatch'
        PROVE  when[cb_handles'[i]] <= now /\ (GIL => \A h \in Pending' : when[cb_handles'[i]] <= when[h])
    <3>1. cb_handles'[i] \in Due
      BY <2>1
    <3>2. \A h \in handles_sched' : when[h] \in Nat /\ ~(when[h] <= now)
      BY <1>11, OrderTypes
    <3>3. when[cb_handles'[i]] \in Nat /\ when[cb_handles'[i]] <= now
      BY <1>11, <3>1, OrderTypes
    <3>4. GIL => \A t \in Threads : tpc'[t] = "out"
      BY <1>1, ConstantsAssumption DEF GilInv, GilHeld, HoldsGil
    <3>5. GIL => Pending' = handles_sched'
      BY <3>4, ConstantsAssumption DEF Pending
    <3>6. QED
      BY <3>2, <3>3, <3>5, OrderTypes
  <2>4. QED
    BY <1>1, <2>2, <2>3 DEF TimerInv
<1>17. QED
  BY <1>14, <1>15, <1>16 DEF OrderInv

\* Popping the first handle of the batch moves the first of what is left of the
\* queue, or one that was not of the queue when nothing is left of it.
LEMMA RunOrder ==
  ASSUME TypeOK, OrderInv, RunNext
  PROVE  OrderInv'
<1>1. /\ cb_handles # <<>> /\ cb_handles' = Tail(cb_handles) /\ lpc = "run" /\ lpc' \in {"run", "cb"}
      /\ popped' = IF cb_handles[1] \in Soon THEN Append(popped, cb_handles[1]) ELSE popped
      /\ UNCHANGED <<order, handles_ready, handles_sched, when, now, used, tpc>>
  BY DEF RunNext, readyvars, timervars
<1>2. PICK n \in 0..Len(cb_handles) : Taken(n)
  BY DEF OrderInv, FifoInv
<1>3. /\ Len(cb_handles) \in Nat \ {0} /\ cb_handles[1] \in Callbacks
      /\ Len(cb_handles') = Len(cb_handles) - 1
      /\ DOMAIN cb_handles' = 1..(Len(cb_handles) - 1) /\ DOMAIN cb_handles = 1..Len(cb_handles)
      /\ \A i \in 1..(Len(cb_handles) - 1) : cb_handles'[i] = cb_handles[i + 1]
  <2>1. cb_handles \in Seq(Callbacks) /\ DOMAIN cb_handles = 1..Len(cb_handles)
    BY OrderTypes
  <2>2. /\ cb_handles' \in Seq(Callbacks) /\ Len(cb_handles') = Len(cb_handles) - 1
        /\ \A i \in 1..Len(cb_handles') : cb_handles'[i] = cb_handles[i + 1]
    BY <1>1, <2>1, HeadTailProperties
  <2>3. Len(cb_handles) \in Nat \ {0}
    BY <1>1, <2>1, EmptySeq, LenProperties
  <2>4. QED
    BY <2>1, <2>2, <2>3, LenProperties, OrderTypes
<1>4. Soon' = Soon /\ Pending' = Pending
  BY <1>1 DEF Soon, Pending
<1>5. \A i \in DOMAIN cb_handles' : i + 1 \in DOMAIN cb_handles /\ cb_handles'[i] = cb_handles[i + 1]
  BY <1>3
<1>6. OnceInv'
  BY <1>1, <1>4, <1>5 DEF OrderInv, OnceInv
<1>7. TimerInv'
  <2>1. \A i \in TimersOfBatch' : i + 1 \in TimersOfBatch /\ cb_handles'[i] = cb_handles[i + 1]
    BY <1>4, <1>5 DEF TimersOfBatch
  <2>2. \A i, j \in TimersOfBatch' : i < j => i + 1 < j + 1
    BY <1>3 DEF TimersOfBatch
  <2>3. QED
    BY <1>1, <1>4, <2>1, <2>2 DEF OrderInv, TimerInv
<1>8. CASE n = 0
  <2>1. cb_handles[1] \notin Soon /\ popped' = popped
    BY <1>1, <1>2, <1>3, <1>8 DEF Taken
  <2>2. \A i \in 1..Len(cb_handles') : cb_handles'[i] \notin Soon
    <3>1. \A i \in 1..Len(cb_handles') : i + 1 \in 1..Len(cb_handles) /\ cb_handles'[i] = cb_handles[i + 1]
      BY <1>3
    <3>2. \A i \in (n + 1)..Len(cb_handles) : cb_handles[i] \notin Soon
      BY <1>2 DEF Taken
    <3>3. (n + 1)..Len(cb_handles) = 1..Len(cb_handles)
      BY <1>3, <1>8
    <3>4. QED
      BY <3>1, <3>2, <3>3
  <2>3. Laid(order', popped', cb_handles', 0, handles_ready')
    BY <1>1, <1>2, <1>8, <2>1 DEF Taken, Laid
  <2>4. Taken(0)' /\ 0 \in 0..Len(cb_handles')
    BY <1>1, <1>3, <1>4, <2>2, <2>3 DEF Taken
  <2>5. QED
    BY <1>1, <1>6, <1>7, <2>4 DEF OrderInv, FifoInv
<1>9. CASE n # 0
  <2>1. /\ Len(order) = Len(popped) + n + Len(handles_ready)
        /\ \A i \in 1..Len(popped) : order[i] = popped[i]
        /\ \A i \in 1..n : order[Len(popped) + i] = cb_handles[i]
        /\ \A i \in 1..Len(handles_ready) : order[Len(popped) + n + i] = handles_ready[i]
    BY <1>2 DEF Taken, Laid
  <2>2. cb_handles[1] = order[Len(popped) + 1] /\ Len(popped) + 1 \in DOMAIN order
    BY <1>2, <1>9, <2>1, OrderTypes
  <2>3. cb_handles[1] \in Soon /\ cb_handles[1] \in Handles
    BY <2>2, OrderTypes DEF Soon
  <2>4. /\ Len(popped') = Len(popped) + 1 /\ popped'[Len(popped) + 1] = cb_handles[1]
        /\ \A i \in 1..Len(popped) : popped'[i] = popped[i]
    BY <1>1, <2>3, OrderTypes, AppendProperties
  <2>5. n - 1 \in Nat /\ n - 1 <= Len(cb_handles) - 1 /\ Len(popped) \in Nat
    BY <1>2, <1>9, OrderTypes
  <2>6. Laid(order, popped', cb_handles', n - 1, handles_ready)
    <3>1. Len(order) = Len(popped') + (n - 1) + Len(handles_ready)
      BY <2>1, <2>4, <2>5, OrderTypes
    <3>2. \A i \in 1..Len(popped') : order[i] = popped'[i]
      BY <2>1, <2>2, <2>4, <2>5
    <3>3. ASSUME NEW i \in 1..(n - 1) PROVE order[Len(popped') + i] = cb_handles'[i]
      <4>1. i + 1 \in 1..n /\ i \in 1..(Len(cb_handles) - 1) /\ Len(popped') + i = Len(popped) + (i + 1)
        BY <1>2, <1>3, <2>4, <2>5
      <4>2. QED
        BY <1>3, <2>1, <4>1
    <3>4. \A i \in 1..Len(handles_ready) : Len(popped') + (n - 1) + i = Len(popped) + n + i
      BY <2>4, <2>5, OrderTypes
    <3>5. \A i \in 1..Len(handles_ready) : order[Len(popped') + (n - 1) + i] = handles_ready[i]
      BY <2>1, <3>4
    <3>6. QED
      BY <3>1, <3>2, <3>3, <3>5 DEF Laid
  <2>7. \A i \in ((n - 1) + 1)..Len(cb_handles') : cb_handles'[i] \notin Soon
    <3>1. \A i \in ((n - 1) + 1)..Len(cb_handles') :
            i + 1 \in (n + 1)..Len(cb_handles) /\ cb_handles'[i] = cb_handles[i + 1]
      BY <1>2, <1>3, <1>9
    <3>2. QED
      BY <1>2, <3>1 DEF Taken
  <2>8. Taken(n - 1)' /\ n - 1 \in 0..Len(cb_handles')
    <3>1. n - 1 \in 0..Len(cb_handles')
      BY <1>3, <2>5
    <3>2. lpc' # "collect"
      BY <1>1
    <3>3. Taken(n - 1)'
      BY <1>1, <1>4, <2>6, <2>7, <3>2, Zenon DEF Taken
    <3>4. QED
      BY <3>1, <3>3
  <2>9. QED
    BY <1>1, <1>6, <1>7, <2>8 DEF OrderInv, FifoInv
<1>10. QED
  BY <1>8, <1>9

\* A thread that moves on has at most the timer of its new program point to
\* push.
LEMMA ThreadPending ==
  ASSUME TypeOK, NEW t \in Threads, NEW pc, tpc' = [tpc EXCEPT ![t] = pc], UNCHANGED handles_sched
  PROVE  /\ pc \in Handles => Pending' \subseteq Pending \cup {pc}
         /\ pc \in {"out", "count", "wake"} => Pending' \subseteq Pending
<1>1. \A u \in Threads : tpc'[u] = IF u = t THEN pc ELSE tpc[u]
  BY DEF TypeOK, ControlType
<1>2. Handles \cap {"out", "count", "wake"} = {}
  BY ConstantsAssumption
<1>3. QED
  BY <1>1, <1>2 DEF Pending

\* Every step keeps the queue in order, and the timers of the batch too.
LEMMA OrderNext ==
  ASSUME TypeOK, GilInv, OrderInv, [Next]_vars
  PROVE  OrderInv'
<1>1. ASSUME UNCHANGED <<order, popped, cb_handles, handles_ready, when, used>>, Pending' \subseteq Pending,
             now' = now \/ now' = now + 1,
             \/ /\ "collect" \notin {lpc, lpc'}
                /\ lpc \in {"run", "cb"} => lpc' \in {"run", "cb"} \/ cb_handles = <<>>
             \/ lpc' = lpc
      PROVE  OrderInv'
  <2>1. Soon' = Soon
    BY <1>1 DEF Soon
  <2>2. OnceInv'
    BY <1>1, <2>1 DEF OrderInv, OnceInv
  <2>3. TimerInv'
    <3>1. TimersOfBatch' = TimersOfBatch
      BY <1>1, <2>1 DEF TimersOfBatch
    <3>2. \A i \in TimersOfBatch : when[cb_handles[i]] \in Nat
      BY OrderTypes DEF TimersOfBatch
    <3>3. \A i \in TimersOfBatch : when[cb_handles[i]] <= now'
      BY <1>1, <3>2, OrderTypes DEF OrderInv, TimerInv
    <3>4. QED
      BY <1>1, <3>1, <3>3 DEF OrderInv, TimerInv
  <2>4. FifoInv'
    <3>1. PICK n \in 0..Len(cb_handles) : Taken(n)
      BY DEF OrderInv, FifoInv
    <3>2. Taken(n)'
      BY <1>1, <2>1, <3>1 DEF Taken
    <3>3. lpc' \notin {"collect", "run", "cb"} => cb_handles = <<>>
      BY <1>1 DEF OrderInv, FifoInv
    <3>4. QED
      BY <1>1, <3>1, <3>2, <3>3 DEF FifoInv
  <2>5. QED
    BY <2>2, <2>3, <2>4 DEF OrderInv
<1>2. CASE LoopStep /\ ~StepSwap /\ ~StepCollect /\ ~RunNext
  <2>1. /\ UNCHANGED <<order, popped, cb_handles, handles_ready, handles_sched, when, used, now, tpc>>
    BY <1>2 DEF LoopStep, RunCheck, StepLoadCounter, StepPeekTimer, StepDetach, PollReturn,
       PollInterrupted, StepClearIdle, StepAttach, CbReturn, StepEnd, readyvars, timervars,
       batchvars, histvars
  <2>2. /\ "collect" \notin {lpc, lpc'}
        /\ lpc \in {"run", "cb"} => lpc' \in {"run", "cb"} \/ cb_handles = <<>>
    BY <1>2 DEF LoopStep, RunCheck, LeaveRun, StepLoadCounter, StepPeekTimer, StepDetach, PollReturn,
       PollInterrupted, StepClearIdle, StepAttach, CbReturn, StepEnd
  <2>3. QED
    BY <1>1, <2>1, <2>2 DEF Pending
<1>3. CASE LoopCall /\ ~(\E h \in Handles : CallSoon(h) \/ \E d \in Delays : CallLater(h, d))
  <2>1. /\ UNCHANGED <<order, popped, cb_handles, handles_ready, handles_sched, when, used, now, tpc>>
        /\ lpc' = lpc \/ (lpc = "off" /\ lpc' = "check")
    BY <1>3 DEF LoopCall, RunForever, Stop, Cancel, AddSignalHandler, readyvars, timervars, batchvars,
       histvars
  <2>2. QED
    BY <1>1, <2>1 DEF Pending
<1>4. ASSUME NEW h \in Handles, CallSoon(h) PROVE OrderInv'
  <2>1. Pending' = Pending
    BY <1>4 DEF CallSoon, timervars, Pending
  <2>2. QED
    BY <1>4, <2>1, PushOrder DEF CallSoon, timervars, batchvars
<1>5. ASSUME NEW h \in Handles, NEW d \in Delays, CallLater(h, d) PROVE OrderInv'
  <2>1. Pending' = Pending \cup {h}
    BY <1>5 DEF CallLater, PushTimer, Pending
  <2>2. QED
    BY <1>5, <2>1, TimerAdded DEF CallLater, readyvars, batchvars
<1>6. ASSUME NEW t \in Threads, NEW h \in Handles, ThreadSoon(t, h) PROVE OrderInv'
  <2>1. Pending' \subseteq Pending
    BY <1>6, ThreadPending DEF ThreadSoon, Goto, timervars
  <2>2. QED
    BY <1>6, <2>1, PushOrder DEF ThreadSoon, timervars, batchvars
<1>7. ASSUME NEW t \in Threads, NEW h \in Handles, NEW d \in Delays, ThreadLater(t, h, d)
      PROVE  OrderInv'
  <2>1. Pending' \subseteq Pending \cup {h}
    BY <1>7, ThreadPending DEF ThreadLater, Goto
  <2>2. QED
    BY <1>7, <2>1, TimerAdded DEF ThreadLater, readyvars, batchvars
<1>8. CASE Environment \/ UNCHANGED vars \/ \E t \in Threads : ThreadCount(t) \/ ThreadWake(t)
  <2>1. /\ UNCHANGED <<lpc, order, popped, cb_handles, handles_ready, handles_sched, when, used>>
        /\ now' = now \/ now' = now + 1
    BY <1>8 DEF Environment, Tick, SourceReady, SignalArrive, ThreadCount, ThreadWake,
       vars, readyvars, timervars, batchvars, histvars
  <2>2. tpc' = tpc \/ \E t \in Threads : \E pc \in {"wake", "out"} : tpc' = [tpc EXCEPT ![t] = pc]
    BY <1>8 DEF Environment, Tick, SourceReady, SignalArrive, ThreadCount, ThreadWake, Goto, vars
  <2>3. Pending' \subseteq Pending
    <3>1. CASE tpc' = tpc
      BY <2>1, <3>1 DEF Pending
    <3>2. CASE \E t \in Threads : \E pc \in {"wake", "out"} : tpc' = [tpc EXCEPT ![t] = pc]
      BY <2>1, <3>2, ThreadPending
    <3>3. QED
      BY <2>2, <3>1, <3>2
  <2>4. QED
    BY <1>1, <2>1, <2>3
<1>8a. ASSUME NEW t \in Threads, ThreadPush(t) PROVE OrderInv'
  <2>1. /\ UNCHANGED <<lpc, order, popped, cb_handles, handles_ready, when, used, now>>
        /\ tpc[t] \in Handles /\ handles_sched' = handles_sched \cup {tpc[t]}
        /\ tpc' = [tpc EXCEPT ![t] = "wake"]
    BY <1>8a DEF ThreadPush, PushTimer, Goto, readyvars, batchvars, histvars
  <2>2. Pending' \subseteq Pending
    BY <2>1, OrderTypes, ConstantsAssumption DEF Pending, TypeOK, ControlType
  <2>3. QED
    BY <1>1, <2>1, <2>2
<1>9. QED
  BY <1>2, <1>3, <1>4, <1>5, <1>6, <1>7, <1>8, <1>8a, SwapOrder, CollectOrder, RunOrder
     DEF Next, ThreadCall, ThreadStep

\* Who holds the GIL, where there is one.
LEMMA GilAlways == Spec => []GilInv
<1>1. CASE GIL = TRUE
  <2>1. WakeInv => GilInv
    BY DEF WakeInv, GilInv
  <2>2. Spec => []WakeInv
    BY <1>1, WakeAlways
  <2>3. QED
    BY <2>1, <2>2, PTL
<1>2. CASE GIL = FALSE
  <2>1. GilInv
    BY <1>2 DEF GilInv
  <2>2. QED
    BY <2>1, PTL
<1>3. QED
  BY <1>1, <1>2, ConstantsAssumption

\* The invariant of the order holds from the start.
LEMMA OrderAlways == Spec => []OrderInv
<1>1. Init => OrderInv
  <2> SUFFICES ASSUME Init PROVE OrderInv
    OBVIOUS
  <2>1. /\ lpc = "off" /\ order = <<>> /\ popped = <<>> /\ cb_handles = <<>> /\ handles_ready = <<>>
        /\ handles_sched = {} /\ used = {}
    BY DEF Init
  <2>2. Len(<<>>) = 0 /\ DOMAIN <<>> = {}
    OBVIOUS
  <2>3. Laid(<<>>, <<>>, <<>>, 0, <<>>)
    BY <2>2 DEF Laid
  <2>4. Taken(0) /\ 0 \in 0..Len(cb_handles)
    BY <2>1, <2>2, <2>3 DEF Taken
  <2>5. FifoInv
    BY <2>1, <2>4 DEF FifoInv
  <2>5a. Pending = {}
    BY <2>1, ConstantsAssumption DEF Init, Pending
  <2>6. OnceInv /\ TimerInv
    BY <2>1, <2>2, <2>5a DEF OnceInv, Soon, TimerInv, TimersOfBatch
  <2>7. QED
    BY <2>5, <2>6 DEF OrderInv
<1>2. TypeOK /\ GilInv /\ OrderInv /\ [Next]_vars => OrderInv'
  BY OrderNext
<1>3. QED
  BY <1>1, <1>2, TypeCorrect, GilAlways, PTL DEF Spec

\* Every handle that call_soon and call_soon_threadsafe queued is popped once,
\* in the order of the queue: with and without a GIL, whatever number of
\* threads queue, and however polls, stops and signals cut the steps.
THEOREM QueueFifo == Spec => []ReadyFifo
<1>1. TypeOK /\ OrderInv => ReadyFifo
  <2> SUFFICES ASSUME TypeOK, OrderInv PROVE ReadyFifo
    OBVIOUS
  <2>1. PICK n \in 0..Len(cb_handles) : Taken(n)
    BY DEF OrderInv, FifoInv
  <2>2. Handles \subseteq Callbacks
    BY DEF Callbacks
  <2>3. order \in Seq(Callbacks) /\ popped \in Seq(Callbacks) /\ handles_ready \in Seq(Callbacks)
    BY <2>2, OrderTypes, SeqMonotonic
  <2>4. n \in Nat /\ \A i \in 1..n : cb_handles[i] \in Callbacks
    BY <2>1, OrderTypes
  <2>5. order = popped \o SubSeq(cb_handles, 1, n) \o handles_ready
    <3>1. Laid(order, popped, cb_handles, n, handles_ready)
      BY <2>1 DEF Taken
    <3>2. QED
      BY <2>3, <2>4, <3>1, LaidOut, SMTT(60)
  <2>6. QED
    BY <2>1, <2>5 DEF Taken, ReadyFifo
<1>2. QED
  BY <1>1, TypeCorrect, OrderAlways, PTL

\* The timers of a batch run by their deadlines, in every build; with a GIL none
\* in the heap is due before them either, although other threads read the clock
\* and push their timers in two steps, while the batch runs.
THEOREM TimersByDeadline == Spec => []TimerOrder
<1>1. OrderInv => TimerOrder
  BY DEF OrderInv, TimerInv, TimerOrder, Pending
<1>2. QED
  BY <1>1, OrderAlways, PTL
-----------------------------------------------------------------------------
(***************************************************************************)
(* counter_ready, modulo its width.  No GIL is assumed: between push_back  *)
(* and fetch_add of any number of threads the counter runs below what is   *)
(* queued, and step() may take it below zero.                              *)
(***************************************************************************)

\* The remainder is the only number below m that differs from x by a multiple
\* of m.
LEMMA RemainderUnique ==
  ASSUME NEW x \in Int, NEW m \in Nat \ {0}, NEW q \in Int, NEW r \in 0..(m - 1), x = m * q + r
  PROVE  x % m = r
OBVIOUS

\* Every number is a multiple of m and its remainder.
LEMMA RemainderExists ==
  ASSUME NEW x \in Int, NEW m \in Nat \ {0}
  PROVE  x % m \in 0..(m - 1) /\ x \div m \in Int /\ x = m * (x \div m) + (x % m)
OBVIOUS

\* Inc is fetch_add(1) on an integer of limited width.
LEMMA IncWraps ==
  ASSUME NEW x \in Int, CounterMod \in Nat \ {0}
  PROVE  (x + 1) % CounterMod = Inc(x % CounterMod)
<1> DEFINE q == x \div CounterMod
           r == x % CounterMod
<1>1. r \in 0..(CounterMod - 1) /\ q \in Int /\ x = CounterMod * q + r
  BY RemainderExists
<1> HIDE DEF q, r
<1>2. CASE r + 1 = CounterMod
  <2>1. PICK k \in Int : k = q + 1 /\ CounterMod * k = CounterMod * q + CounterMod
    BY <1>1
  <2>2. x + 1 \in Int /\ x + 1 = CounterMod * k + 0 /\ 0 \in 0..(CounterMod - 1)
    BY <1>1, <1>2, <2>1
  <2>3. (x + 1) % CounterMod = 0
    BY <2>2, RemainderUnique
  <2>4. QED
    BY <1>2, <2>3 DEF Inc, r
<1>3. CASE r + 1 # CounterMod
  <2>1. x + 1 = CounterMod * q + (r + 1) /\ r + 1 \in 0..(CounterMod - 1)
    BY <1>1, <1>3
  <2>2. (x + 1) % CounterMod = r + 1
    BY <1>1, <2>1, RemainderUnique
  <2>3. QED
    BY <1>3, <2>2 DEF Inc, r
<1>4. QED
  BY <1>2, <1>3

\* Dec is fetch_sub(n) on an integer of limited width.
LEMMA DecWraps ==
  ASSUME NEW x \in Int, CounterMod \in Nat \ {0}, NEW n \in 0..(CounterMod - 1)
  PROVE  (x - n) % CounterMod = Dec(x % CounterMod, n)
<1> DEFINE q == x \div CounterMod
           r == x % CounterMod
<1>1. r \in 0..(CounterMod - 1) /\ q \in Int /\ x = CounterMod * q + r
  BY RemainderExists
<1> HIDE DEF q, r
<1>2. CASE r >= n
  <2>1. x - n = CounterMod * q + (r - n) /\ r - n \in 0..(CounterMod - 1)
    BY <1>1, <1>2
  <2>2. (x - n) % CounterMod = r - n
    BY <1>1, <2>1, RemainderUnique
  <2>3. QED
    BY <1>2, <2>2 DEF Dec, r
<1>3. CASE ~(r >= n)
  <2>1. PICK k \in Int : k = q - 1 /\ CounterMod * k = CounterMod * q - CounterMod
    BY <1>1
  <2>2. /\ x - n \in Int /\ x - n = CounterMod * k + (r - n + CounterMod)
        /\ r - n + CounterMod \in 0..(CounterMod - 1)
    BY <1>1, <1>3, <2>1
  <2>3. (x - n) % CounterMod = r - n + CounterMod
    BY <2>2, RemainderUnique
  <2>4. QED
    BY <1>3, <2>3 DEF Dec, r
<1>4. QED
  BY <1>2, <1>3

\* the threads between push_back and fetch_add
Counting == {t \in Threads : tpc[t] = "count"}
Batch == IF lpc = "collect" THEN Len(cb_handles) ELSE 0
Queued == (Len(handles_ready) + Batch) - Cardinality(Counting)
CountInv == IsFiniteSet(Counting) /\ counter_ready = Queued % CounterMod

\* Every step keeps the account of the counter.
LEMMA CountNext ==
  ASSUME TypeOK, CountInv, [Next]_vars
  PROVE  CountInv'
<1>1. /\ Len(handles_ready) \in Nat /\ Len(cb_handles) \in Nat /\ Batch \in Nat
      /\ Cardinality(Counting) \in Nat /\ CounterMod \in Nat \ {0} /\ Queued \in Int
  <2>1. Len(handles_ready) \in Nat /\ Len(cb_handles) \in Nat /\ Cardinality(Counting) \in Nat
    BY OrderTypes, FS_CardinalityType DEF CountInv
  <2>2. CounterMod \in Nat \ {0}
    BY ConstantsAssumption
  <2>3. QED
    BY <2>1, <2>2 DEF Batch, Queued
<1>2. ASSUME UNCHANGED <<tpc, counter_ready>>, Len(handles_ready') + Batch' = Len(handles_ready) + Batch
      PROVE  CountInv'
  <2>1. Counting' = Counting
    BY <1>2 DEF Counting
  <2>2. Queued' = Queued
    BY <1>2, <2>1, Zenon DEF Queued
  <2>3. QED
    BY <1>2, <2>1, <2>2 DEF CountInv
<1>3. CASE StepSwap
  <2>1. /\ Batch = 0 /\ handles_ready' = <<>> /\ Batch' = Len(handles_ready)
        /\ UNCHANGED <<tpc, counter_ready>>
    BY <1>3 DEF StepSwap, Batch
  <2>2. Len(<<>>) = 0
    OBVIOUS
  <2>3. QED
    BY <1>1, <1>2, <2>1, <2>2
<1>4. CASE StepCollect
  <2>1. /\ Batch = Len(cb_handles) /\ Batch' = 0 /\ counter_ready' = Dec(counter_ready, Len(cb_handles))
        /\ UNCHANGED <<tpc, handles_ready>>
    BY <1>4 DEF StepCollect, Batch, CountTaken
  <2>2. Len(cb_handles) \in 0..(CounterMod - 1)
    BY <1>1, <1>4, ConstantsAssumption DEF TypeOK, BatchType, StepCollect
  <2>3. Counting' = Counting /\ Queued' = Queued - Len(cb_handles)
    BY <1>1, <2>1 DEF Counting, Queued
  <2>4. QED
    BY <1>1, <2>1, <2>2, <2>3, DecWraps DEF CountInv
<1>5. ASSUME NEW h \in Handles, PushReady(h) PROVE Len(handles_ready') = Len(handles_ready) + 1
  BY <1>5, OrderTypes, AppendProperties DEF PushReady
<1>6. ASSUME NEW h \in Handles, CallSoon(h) PROVE CountInv'
  <2>1. /\ Len(handles_ready') = Len(handles_ready) + 1 /\ counter_ready' = Inc(counter_ready)
        /\ UNCHANGED <<lpc, tpc, cb_handles>>
    BY <1>5, <1>6 DEF CallSoon, batchvars
  <2>2. Counting' = Counting /\ Batch' = Batch
    BY <2>1 DEF Counting, Batch
  <2>2a. Queued' = Queued + 1
    BY <1>1, <2>1, <2>2 DEF Queued
  <2>3. QED
    BY <1>1, <2>1, <2>2, <2>2a, IncWraps DEF CountInv
<1>7. ASSUME NEW t \in Threads, NEW h \in Handles, ThreadSoon(t, h) PROVE CountInv'
  <2>1. /\ Len(handles_ready') = Len(handles_ready) + 1 /\ tpc[t] = "out"
        /\ tpc' = [tpc EXCEPT ![t] = "count"] /\ UNCHANGED <<lpc, cb_handles, counter_ready>>
    BY <1>5, <1>7 DEF ThreadSoon, Goto, batchvars
  <2>2. Counting' = Counting \cup {t} /\ t \notin Counting
    BY <2>1 DEF Counting, TypeOK, ControlType
  <2>3. IsFiniteSet(Counting') /\ Cardinality(Counting') = Cardinality(Counting) + 1
    BY <2>2, FS_AddElement DEF CountInv
  <2>3a. Batch' = Batch
    BY <2>1 DEF Batch
  <2>4. Queued' = Queued
    BY <1>1, <2>1, <2>3, <2>3a DEF Queued
  <2>5. QED
    BY <2>1, <2>3, <2>4 DEF CountInv
<1>8. ASSUME NEW t \in Threads, ThreadCount(t) PROVE CountInv'
  <2>1. /\ tpc[t] = "count" /\ tpc' = [tpc EXCEPT ![t] = "wake"]
        /\ counter_ready' = Inc(counter_ready) /\ UNCHANGED <<lpc, cb_handles, handles_ready>>
    BY <1>8 DEF ThreadCount, Goto, batchvars
  <2>2. Counting' = Counting \ {t} /\ t \in Counting
    BY <2>1 DEF Counting, TypeOK, ControlType
  <2>3. IsFiniteSet(Counting') /\ Cardinality(Counting') = Cardinality(Counting) - 1
    BY <2>2, FS_RemoveElement DEF CountInv
  <2>4. Queued' = Queued + 1
    BY <1>1, <2>1, <2>3 DEF Queued, Batch
  <2>5. QED
    BY <1>1, <2>1, <2>3, <2>4, IncWraps DEF CountInv
<1>9. ASSUME NEW t \in Threads, NEW pc \in {"wake", "out"} \cup Handles, tpc[t] # "count",
             tpc' = [tpc EXCEPT ![t] = pc], UNCHANGED <<lpc, cb_handles, handles_ready, counter_ready>>
      PROVE  CountInv'
  <2>1. Counting' = Counting
    BY <1>9, ConstantsAssumption DEF Counting, TypeOK, ControlType
  <2>2. QED
    BY <1>9, <2>1 DEF CountInv, Queued, Batch
<1>10. ASSUME NEW t \in Threads,
              ThreadWake(t) \/ ThreadPush(t) \/ \E h \in Handles, d \in Delays : ThreadLater(t, h, d)
       PROVE  CountInv'
  <2>1. \E pc \in {"wake", "out"} \cup Handles : tpc' = [tpc EXCEPT ![t] = pc]
    BY <1>10 DEF ThreadWake, ThreadPush, ThreadLater, Goto
  <2>2. tpc[t] # "count" /\ UNCHANGED <<lpc, cb_handles, handles_ready, counter_ready>>
    BY <1>10, ConstantsAssumption DEF ThreadWake, ThreadPush, ThreadLater, readyvars, batchvars
  <2>3. QED
    BY <1>9, <2>1, <2>2
<1>11. CASE LoopStep /\ ~StepSwap /\ ~StepCollect
  <2>1. UNCHANGED <<tpc, counter_ready, handles_ready>> /\ "collect" \notin {lpc, lpc'}
    BY <1>11 DEF LoopStep, RunCheck, LeaveRun, StepLoadCounter, StepPeekTimer, StepDetach, PollReturn,
       PollInterrupted, StepClearIdle, StepAttach, RunNext, CbReturn, StepEnd, readyvars
  <2>2. QED
    BY <1>2, <2>1 DEF Batch
<1>12. CASE Environment \/ UNCHANGED vars \/ (LoopCall /\ ~\E h \in Handles : CallSoon(h))
  <2>1. /\ UNCHANGED <<tpc, counter_ready, handles_ready, cb_handles>>
        /\ UNCHANGED lpc \/ (lpc = "off" /\ lpc' = "check")
    BY <1>12 DEF Environment, Tick, SourceReady, SignalArrive, vars, LoopCall, RunForever, Stop, Cancel,
       CallLater, AddSignalHandler, readyvars, batchvars
  <2>2. QED
    BY <1>2, <2>1 DEF Batch
<1>13. QED
  BY <1>3, <1>4, <1>6, <1>7, <1>8, <1>10, <1>11, <1>12 DEF Next, ThreadCall, ThreadStep

\* For any number of threads, with and without a GIL: counter_ready is, modulo
\* its width, what is queued less the threads that have yet to count.
THEOREM CounterExact == Spec => []CounterAccounts
<1>1. Init => CountInv
  <2> SUFFICES ASSUME Init PROVE CountInv
    OBVIOUS
  <2>1. Counting = {}
    BY DEF Init, Counting
  <2>2. IsFiniteSet(Counting) /\ Cardinality(Counting) = 0
    BY <2>1, FS_EmptySet
  <2>3. Queued = 0
    BY <2>2 DEF Init, Queued, Batch
  <2>4. 0 % CounterMod = 0
    <3>1. CounterMod \in Nat \ {0} /\ 0 \in 0..(CounterMod - 1) /\ 0 = CounterMod * 0 + 0
      BY ConstantsAssumption
    <3>2. QED
      BY <3>1, RemainderUnique
  <2>5. QED
    BY <2>2, <2>3, <2>4 DEF Init, CountInv
<1>2. TypeOK /\ CountInv /\ [Next]_vars => CountInv'
  BY CountNext
<1>3. CountInv => CounterAccounts
  BY DEF CountInv, Queued, Batch, Counting, CounterAccounts
<1>4. QED
  BY <1>1, <1>2, <1>3, TypeCorrect, PTL DEF Spec
=============================================================================
