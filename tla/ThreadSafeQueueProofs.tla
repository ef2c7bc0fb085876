------------------------ MODULE ThreadSafeQueueProofs ------------------------
(***************************************************************************)
(* For any number of threads, any values and any capacity: the monitor's   *)
(* invariant, no lost wakeup, and the safety half of the refinement of     *)
(* BoundedQueue.                                                           *)
(***************************************************************************)
EXTENDS ThreadSafeQueue, FiniteSetTheorems, TLAPS

-----------------------------------------------------------------------------
(* How many threads are at a set of labels, when one thread moves.         *)

CountAt(f, labels) == Cardinality({u \in Threads : f[u] \in labels})

IsIn(l, labels) == IF l \in labels THEN 1 ELSE 0

\* Kept folded: the provers instantiate the lemmas below by it.
Moved(f, t, l) == [f EXCEPT ![t] = l]

\* A thread that moves to l enters or leaves the threads at labels by itself alone.
LEMMA MoveCount ==
    ASSUME NEW f \in [Threads -> Labels], NEW t \in Threads, NEW l \in Labels,
           NEW labels
    PROVE  /\ CountAt(f, labels) \in Nat
           /\ CountAt(Moved(f, t, l), labels) \in Nat
           /\ CountAt(Moved(f, t, l), labels)
                = CountAt(f, labels) + IsIn(l, labels) - IsIn(f[t], labels)
<1> DEFINE g == [f EXCEPT ![t] = l]
           A == {u \in Threads : f[u] \in labels}
           B == {u \in Threads : g[u] \in labels}
<1>1. IsFiniteSet(A) /\ IsFiniteSet(B)
  BY QueueAssumption, FS_Subset
<1>2. Cardinality(A) \in Nat /\ Cardinality(B) \in Nat
  BY <1>1, FS_CardinalityType
<1>3. (f[t] \in labels <=> l \in labels) => B = A
  OBVIOUS
<1>4. f[t] \notin labels /\ l \in labels => B = A \cup {t} /\ t \notin A
  OBVIOUS
<1>5. f[t] \in labels /\ l \notin labels => B = A \ {t} /\ t \in A
  OBVIOUS
<1>6. t \notin A => Cardinality(A \cup {t}) = Cardinality(A) + 1
  BY <1>1, FS_AddElement
<1>7. t \in A => Cardinality(A \ {t}) = Cardinality(A) - 1
  BY <1>1, FS_RemoveElement
<1>8. CountAt(f, labels) = Cardinality(A) /\ CountAt(g, labels) = Cardinality(B)
  BY DEF CountAt
<1> HIDE DEF A, B, g
<1>9. CountAt(g, labels) = CountAt(f, labels) + IsIn(l, labels) - IsIn(f[t], labels)
  <2>1. CASE f[t] \in labels <=> l \in labels
    BY <1>2, <1>3, <1>8, <2>1 DEF IsIn
  <2>2. CASE f[t] \notin labels /\ l \in labels
    BY <1>2, <1>4, <1>6, <1>8, <2>2 DEF IsIn
  <2>3. CASE f[t] \in labels /\ l \notin labels
    BY <1>2, <1>5, <1>7, <1>8, <2>3 DEF IsIn
  <2> QED
    BY <2>1, <2>2, <2>3
<1> QED
  BY <1>2, <1>8, <1>9 DEF g, Moved

-----------------------------------------------------------------------------
(* Types.                                                                  *)

\* Every pthread call keeps the types, and the waiters are the threads at the waits.
LEMMA TypeStep == ASSUME TypeOK, [Next]_vars PROVE TypeOK'
<1> USE QueueAssumption DEF TypeOK, At, Goto, Labels, Inside
<1>1. ASSUME NEW t \in Producers, NEW v \in Values, Call(t, "pushLock", v) PROVE TypeOK'
  BY <1>1 DEF Call, Threads
<1>2. ASSUME NEW t \in Consumers, Call(t, "popLock", None) PROVE TypeOK'
  BY <1>2 DEF Call, Threads
<1>3. ASSUME NEW t \in Observers, Call(t, "sizeLock", None) PROVE TypeOK'
  BY <1>3 DEF Call, Threads
<1>4. ASSUME NEW t \in Threads, GetLock(t) PROVE TypeOK'
  BY <1>4 DEF GetLock, PushLock, PopLock, SizeLock, Acquire
<1>5. ASSUME NEW t \in Threads, PushWait(t) PROVE TypeOK'
  BY <1>5 DEF PushWait
<1>6. ASSUME NEW t \in Threads, PushItem(t) PROVE TypeOK'
  BY <1>6 DEF PushItem
<1>7. ASSUME NEW t \in Threads, PushUnlock(t) \/ PopUnlock(t) \/ SizeUnlock(t) PROVE TypeOK'
  BY <1>7 DEF PushUnlock, PopUnlock, SizeUnlock, Release
<1>8. ASSUME NEW t \in Threads, PushSignal(t) PROVE TypeOK'
  BY <1>8 DEF PushSignal, Signal
<1>9. ASSUME NEW t \in Threads, PopWait(t) PROVE TypeOK'
  BY <1>9 DEF PopWait
<1>10. ASSUME NEW t \in Threads, PopItem(t) PROVE TypeOK'
  BY <1>10 DEF PopItem
<1>11. ASSUME NEW t \in Threads, PopSignal(t) PROVE TypeOK'
  BY <1>11 DEF PopSignal, Signal
<1>12. ASSUME NEW t \in Threads, SizeRead(t) PROVE TypeOK'
  BY <1>12 DEF SizeRead
<1>13. ASSUME NEW t \in Threads, SizeReturn(t) PROVE TypeOK'
  BY <1>13 DEF SizeReturn
<1>14. ASSUME NEW t \in Threads, SpuriousWakeup(t) PROVE TypeOK'
  BY <1>14 DEF SpuriousWakeup
<1>15. CASE UNCHANGED vars
  BY <1>15 DEF vars
<1> QED
  BY <1>1, <1>2, <1>3, <1>4, <1>5, <1>6, <1>7, <1>8, <1>9, <1>10, <1>11, <1>12, <1>13,
     <1>14, <1>15 DEF Next, InCall

-----------------------------------------------------------------------------
(* Mutual exclusion and capacity.                                          *)

\* The mutex goes only to a thread that finds it free.
LEMMA MutexStep ==
    ASSUME TypeOK, MutualExclusion, [Next]_vars PROVE MutualExclusion'
<1> USE QueueAssumption DEF TypeOK, MutualExclusion, At, Goto, Labels, Inside
<1>1. ASSUME NEW t \in Threads, NEW l \in {"pushLock", "popLock", "sizeLock"}, NEW v,
             Call(t, l, v)
      PROVE  MutualExclusion'
  BY <1>1 DEF Call
<1>2. ASSUME NEW t \in Threads, GetLock(t) PROVE MutualExclusion'
  BY <1>2 DEF GetLock, PushLock, PopLock, SizeLock, Acquire
<1>3. ASSUME NEW t \in Threads, PushWait(t) \/ PopWait(t) PROVE MutualExclusion'
  BY <1>3 DEF PushWait, PopWait
<1>4. ASSUME NEW t \in Threads, PushUnlock(t) \/ PopUnlock(t) \/ SizeUnlock(t)
      PROVE  MutualExclusion'
  BY <1>4 DEF PushUnlock, PopUnlock, SizeUnlock, Release
<1>5. ASSUME NEW t \in Threads, PushSignal(t) \/ PopSignal(t) PROVE MutualExclusion'
  BY <1>5 DEF PushSignal, PopSignal, Signal
<1>6. ASSUME NEW t \in Threads, PushItem(t) \/ PopItem(t) \/ SizeRead(t) \/ SizeReturn(t)
      PROVE  MutualExclusion'
  BY <1>6 DEF PushItem, PopItem, SizeRead, SizeReturn
<1>7. ASSUME NEW t \in Threads, SpuriousWakeup(t) PROVE MutualExclusion'
  BY <1>7 DEF SpuriousWakeup
<1>8. CASE UNCHANGED vars
  BY <1>8 DEF vars
<1> QED
  BY <1>1, <1>2, <1>3, <1>4, <1>5, <1>6, <1>7, <1>8 DEF Next, InCall, Threads

\* Only a push that found the queue not full makes it longer, and only a pop shorter.
LEMMA QueueStep ==
    ASSUME [Next]_vars, ~ \E t \in Threads : PushItem(t) \/ PopItem(t)
    PROVE  UNCHANGED tsQueue
BY DEF Next, Call, GetLock, InCall, PushLock, PopLock, SizeLock, Acquire, PushWait,
   PushUnlock, PopWait, PopUnlock, SizeUnlock, Release, PushSignal, PopSignal, Signal,
   SizeRead, SizeReturn, SpuriousWakeup, vars

\* Hence the queue does not outgrow MaxSize.
LEMMA CapacityStep ==
    ASSUME TypeOK, WithinCapacity, [Next]_vars PROVE WithinCapacity'
<1> USE QueueAssumption DEF TypeOK, WithinCapacity
<1>1. ASSUME NEW t \in Threads, PushItem(t) PROVE WithinCapacity'
  BY <1>1 DEF PushItem
<1>2. ASSUME NEW t \in Threads, PopItem(t) PROVE WithinCapacity'
  BY <1>2 DEF PopItem
<1> QED
  BY <1>1, <1>2, QueueStep

-----------------------------------------------------------------------------
(* Wakeups.                                                                *)

Serving == {"pushUnlock", "pushSignal", "popLock", "popBody"}
Freeing == {"popUnlock", "popSignal", "pushLock", "pushBody"}

\* How a thread that moves to l changes the two counts of WakeupCount.
LEMMA ServingMove ==
    ASSUME TypeOK, NEW t \in Threads, NEW l \in Labels, Goto(t, l)
    PROVE  LET c == Cardinality(ForConsumers)
               p == Cardinality(ForProducers)
           IN /\ c \in Nat /\ c' \in Nat /\ p \in Nat /\ p' \in Nat
              /\ c' = c + IsIn(l, Serving) - IsIn(pc[t], Serving)
              /\ p' = p + IsIn(l, Freeing) - IsIn(pc[t], Freeing)
<1>1. pc \in [Threads -> Labels] /\ pc' = Moved(pc, t, l)
  BY DEF TypeOK, Goto, Moved
<1>2. ASSUME NEW labels
      PROVE  /\ CountAt(pc, labels) \in Nat
             /\ CountAt(pc', labels) \in Nat
             /\ CountAt(pc', labels)
                  = CountAt(pc, labels) + IsIn(l, labels) - IsIn(pc[t], labels)
  BY <1>1, MoveCount, Zenon
<1>3. /\ Cardinality(ForConsumers) = CountAt(pc, Serving)
      /\ Cardinality(ForConsumers)' = CountAt(pc', Serving)
      /\ Cardinality(ForProducers) = CountAt(pc, Freeing)
      /\ Cardinality(ForProducers)' = CountAt(pc', Freeing)
  BY DEF ForConsumers, ForProducers, At, Serving, Freeing, CountAt
<1> QED
  BY <1>2, <1>3, Zenon

\* A signal that wakes w: the signaller leaves the threads on their way, w joins them.
LEMMA WakeMove ==
    ASSUME TypeOK, NEW t \in Threads, NEW w \in Threads, NEW l \in Labels, t # w,
           pc' = [pc EXCEPT ![w] = l, ![t] = "idle"]
    PROVE  \/ pc[t] = "pushSignal" /\ pc[w] = "popWait" /\ l = "popLock"
           \/ pc[t] = "popSignal" /\ pc[w] = "pushWait" /\ l = "pushLock"
           => /\ Cardinality(ForConsumers)' = Cardinality(ForConsumers)
              /\ Cardinality(ForProducers)' = Cardinality(ForProducers)
<1> DEFINE mid == Moved(pc, w, l)
<1>1. /\ pc \in [Threads -> Labels] /\ mid \in [Threads -> Labels] /\ "idle" \in Labels
      /\ pc' = Moved(mid, t, "idle") /\ mid[t] = pc[t]
  BY DEF TypeOK, Labels, Moved
<1>2. ASSUME NEW labels
      PROVE  /\ CountAt(pc, labels) \in Nat
             /\ CountAt(mid, labels)
                  = CountAt(pc, labels) + IsIn(l, labels) - IsIn(pc[w], labels)
             /\ CountAt(pc', labels)
                  = CountAt(mid, labels) + IsIn("idle", labels) - IsIn(mid[t], labels)
  <2> HIDE DEF mid
  <2>1. mid = Moved(pc, w, l) /\ pc \in [Threads -> Labels]
    BY <1>1 DEF mid
  <2>2. CountAt(pc, labels) \in Nat
    BY <2>1, MoveCount
  <2>3. CountAt(mid, labels)
          = CountAt(pc, labels) + IsIn(l, labels) - IsIn(pc[w], labels)
    BY <2>1, MoveCount
  <2>4. CountAt(Moved(mid, t, "idle"), labels)
          = CountAt(mid, labels) + IsIn("idle", labels) - IsIn(mid[t], labels)
    <3>1. mid \in [Threads -> Labels] /\ "idle" \in Labels
      BY <1>1
    <3> QED
      BY <3>1, MoveCount
  <2> QED
    BY <1>1, <2>2, <2>3, <2>4
<1> HIDE DEF mid
<1>3. ASSUME NEW labels, "idle" \notin labels, pc[w] \notin labels,
             pc[t] \in labels <=> l \in labels
      PROVE  CountAt(pc', labels) = CountAt(pc, labels)
  <2>1. /\ CountAt(pc, labels) \in Nat
        /\ CountAt(mid, labels)
             = CountAt(pc, labels) + IsIn(l, labels) - IsIn(pc[w], labels)
        /\ CountAt(pc', labels)
             = CountAt(mid, labels) + IsIn("idle", labels) - IsIn(mid[t], labels)
    BY <1>2
  <2> QED
    BY <1>1, <1>3, <2>1 DEF IsIn
<1> QED
  BY <1>3 DEF ForConsumers, ForProducers, At, CountAt

\* A thread that goes on, changes no queue and wakes nobody, and does not leave the
\* threads on their way, keeps WakeupCount.
LEMMA WakeupKept ==
    ASSUME TypeOK, WakeupCount, NEW t \in Threads, NEW l \in Labels, Goto(t, l),
           tsQueue' = tsQueue, condc' = condc, condp' = condp,
           pc[t] \in Serving => l \in Serving, pc[t] \in Freeing => l \in Freeing
    PROVE  WakeupCount'
<1> DEFINE c == Cardinality(ForConsumers)
           p == Cardinality(ForProducers)
<1>1. /\ c \in Nat /\ c' = c + IsIn(l, Serving) - IsIn(pc[t], Serving)
      /\ p \in Nat /\ p' = p + IsIn(l, Freeing) - IsIn(pc[t], Freeing)
  BY ServingMove
<1>2. /\ IsIn(l, Serving) \in Nat /\ IsIn(pc[t], Serving) \in Nat
      /\ IsIn(l, Serving) >= IsIn(pc[t], Serving)
      /\ IsIn(l, Freeing) \in Nat /\ IsIn(pc[t], Freeing) \in Nat
      /\ IsIn(l, Freeing) >= IsIn(pc[t], Freeing)
  BY DEF IsIn
<1>3. c' \in Nat /\ c' >= c /\ p' \in Nat /\ p' >= p
  BY <1>1, <1>2
<1>4. Len(tsQueue) \in Nat /\ MaxSize \in Nat
  BY QueueAssumption DEF TypeOK
<1> QED
  BY <1>1, <1>3, <1>4 DEF WakeupCount

\* Every step keeps as many threads on their way as the sleepers need.
LEMMA WakeupStep ==
    ASSUME TypeOK, TypeOK', WithinCapacity, WakeupCount, [Next]_vars PROVE WakeupCount'
<1> DEFINE c == Cardinality(ForConsumers)
           p == Cardinality(ForProducers)
<1>0. /\ tsQueue \in Seq(Values) /\ Len(tsQueue) \in Nat /\ pc \in [Threads -> Labels]
      /\ condc = At({"popWait"}) /\ condp = At({"pushWait"}) /\ MaxSize \in Nat
  BY QueueAssumption DEF TypeOK
<1>5. ASSUME NEW t \in Threads, PushItem(t) PROVE WakeupCount'
  <2>1. /\ pc[t] = "pushBody" /\ Goto(t, "pushUnlock") /\ "pushUnlock" \in Labels
        /\ Len(tsQueue') = Len(tsQueue) + 1 /\ condc' = condc /\ condp' = condp
    BY <1>0, <1>5 DEF PushItem, TypeOK, Labels, Inside
  <2>2. /\ c \in Nat /\ c' = c + IsIn("pushUnlock", Serving) - IsIn("pushBody", Serving)
        /\ p \in Nat /\ p' = p + IsIn("pushUnlock", Freeing) - IsIn("pushBody", Freeing)
    BY <2>1, ServingMove
  <2>3. /\ IsIn("pushUnlock", Serving) = 1 /\ IsIn("pushBody", Serving) = 0
        /\ IsIn("pushUnlock", Freeing) = 0 /\ IsIn("pushBody", Freeing) = 1
    BY DEF IsIn, Serving, Freeing
  <2> QED
    BY <1>0, <2>1, <2>2, <2>3 DEF WakeupCount
<1>6. ASSUME NEW t \in Threads, PopItem(t) PROVE WakeupCount'
  <2>1. /\ pc[t] = "popBody" /\ Goto(t, "popUnlock") /\ "popUnlock" \in Labels
        /\ Len(tsQueue') = Len(tsQueue) - 1 /\ condc' = condc /\ condp' = condp
    BY <1>0, <1>6 DEF PopItem, TypeOK, Labels, Inside
  <2>2. /\ c \in Nat /\ c' = c + IsIn("popUnlock", Serving) - IsIn("popBody", Serving)
        /\ p \in Nat /\ p' = p + IsIn("popUnlock", Freeing) - IsIn("popBody", Freeing)
    BY <2>1, ServingMove
  <2>3. /\ IsIn("popUnlock", Serving) = 0 /\ IsIn("popBody", Serving) = 1
        /\ IsIn("popUnlock", Freeing) = 1 /\ IsIn("popBody", Freeing) = 0
    BY DEF IsIn, Serving, Freeing
  <2> QED
    BY <1>0, <2>1, <2>2, <2>3 DEF WakeupCount
<1>2. ASSUME NEW t \in Threads, GetLock(t) PROVE WakeupCount'
  <2>1. CASE PushLock(t)
    BY <2>1, WakeupKept DEF PushLock, Acquire, Labels, Inside, Serving, Freeing
  <2>2. CASE PopLock(t)
    BY <2>2, WakeupKept DEF PopLock, Acquire, Labels, Inside, Serving, Freeing
  <2>3. CASE SizeLock(t)
    BY <2>3, WakeupKept DEF SizeLock, Acquire, Labels, Inside, Serving, Freeing
  <2> QED
    BY <1>2, <2>1, <2>2, <2>3 DEF GetLock
<1>10. ASSUME NEW t \in Threads, SizeRead(t) \/ SizeReturn(t) PROVE WakeupCount'
  <2>1. CASE SizeRead(t)
    BY <2>1, WakeupKept DEF SizeRead, Labels, Inside, Serving, Freeing
  <2>2. CASE SizeReturn(t)
    BY <2>2, WakeupKept DEF SizeReturn, Labels, Inside, Serving, Freeing
  <2> QED
    BY <1>10, <2>1, <2>2
<1>12. CASE UNCHANGED vars
  BY <1>12 DEF vars, WakeupCount, ForConsumers, ForProducers, At
<1> USE QueueAssumption
    DEF WithinCapacity, WakeupCount, Labels, Inside, Serving, Freeing, IsIn
<1>1. ASSUME NEW t \in Threads, NEW l \in {"pushLock", "popLock", "sizeLock"}, NEW v,
             Call(t, l, v)
      PROVE  WakeupCount'
  BY <1>0, <1>1, ServingMove DEF Call
<1>3. ASSUME NEW t \in Threads, PushWait(t) PROVE WakeupCount'
  BY <1>0, <1>3, ServingMove DEF PushWait
<1>4. ASSUME NEW t \in Threads, PopWait(t) PROVE WakeupCount'
  BY <1>0, <1>4, ServingMove DEF PopWait
<1>7. ASSUME NEW t \in Threads, PushUnlock(t) \/ PopUnlock(t) \/ SizeUnlock(t)
      PROVE  WakeupCount'
  BY <1>0, <1>7, ServingMove DEF PushUnlock, PopUnlock, SizeUnlock, Release
<1>8. ASSUME NEW t \in Threads, PushSignal(t) PROVE WakeupCount'
  <2>1. CASE condc = {} /\ UNCHANGED condc /\ Goto(t, "idle")
    BY <1>0, <1>8, <2>1, ServingMove DEF PushSignal, Signal
  <2>2. CASE \E w \in condc : condc' = condc \ {w}
                              /\ pc' = [pc EXCEPT ![w] = "popLock", ![t] = "idle"]
    <3>1. PICK w \in condc : condc' = condc \ {w} /\ pc' = [pc EXCEPT ![w] = "popLock", ![t] = "idle"]
      BY <2>2
    <3>2. w \in Threads /\ pc[w] = "popWait" /\ pc[t] = "pushSignal"
      BY <1>0, <1>8, <3>1 DEF PushSignal, At
    <3>3. c' = c /\ p' = p
      BY <3>1, <3>2, WakeMove
    <3> QED
      BY <1>8, <3>1, <3>3 DEF PushSignal, Signal
  <2> QED
    BY <1>8, <2>1, <2>2 DEF PushSignal, Signal
<1>9. ASSUME NEW t \in Threads, PopSignal(t) PROVE WakeupCount'
  <2>1. CASE condp = {} /\ UNCHANGED condp /\ Goto(t, "idle")
    BY <1>0, <1>9, <2>1, ServingMove DEF PopSignal, Signal
  <2>2. CASE \E w \in condp : condp' = condp \ {w}
                              /\ pc' = [pc EXCEPT ![w] = "pushLock", ![t] = "idle"]
    <3>1. PICK w \in condp : condp' = condp \ {w} /\ pc' = [pc EXCEPT ![w] = "pushLock", ![t] = "idle"]
      BY <2>2
    <3>2. w \in Threads /\ pc[w] = "pushWait" /\ pc[t] = "popSignal"
      BY <1>0, <1>9, <3>1 DEF PopSignal, At
    <3>3. c' = c /\ p' = p
      BY <3>1, <3>2, WakeMove
    <3> QED
      BY <1>9, <3>1, <3>3 DEF PopSignal, Signal
  <2> QED
    BY <1>9, <2>1, <2>2 DEF PopSignal, Signal
<1>11. ASSUME NEW t \in Threads, SpuriousWakeup(t) PROVE WakeupCount'
  <2>1. CASE t \in condp
    BY <1>0, <1>11, <2>1, ServingMove, SMTT(20) DEF SpuriousWakeup, At
  <2>2. CASE t \in condc
    BY <1>0, <1>11, <2>2, ServingMove, SMTT(20) DEF SpuriousWakeup, At
  <2> QED
    BY <1>11, <2>1, <2>2 DEF SpuriousWakeup
<1> HIDE DEF WithinCapacity, WakeupCount, Labels, Inside, Serving, Freeing, IsIn
<1> QED
  BY <1>1, <1>2, <1>3, <1>4, <1>5, <1>6, <1>7, <1>8, <1>9, <1>10, <1>11, <1>12
     DEF Next, InCall, Threads

-----------------------------------------------------------------------------
(* The theorems.                                                           *)

\* Nobody sleeps at first.
LEMMA MonitorInit == Init => MonitorInv
<1> SUFFICES ASSUME Init PROVE MonitorInv
  OBVIOUS
<1>1. TypeOK
  BY DEF Init, TypeOK, Labels, Inside, At
<1>2. MutualExclusion /\ WithinCapacity /\ WakeupCount
  BY QueueAssumption DEF Init, MutualExclusion, Inside, WithinCapacity, WakeupCount
<1> QED
  BY <1>1, <1>2 DEF MonitorInv

\* The parts together.
LEMMA MonitorStep == MonitorInv /\ [Next]_vars => MonitorInv'
<1> SUFFICES ASSUME MonitorInv, [Next]_vars PROVE MonitorInv'
  OBVIOUS
<1> USE DEF MonitorInv
<1>1. TypeOK'
  BY TypeStep
<1>2. MutualExclusion' /\ WithinCapacity'
  BY MutexStep, CapacityStep
<1>3. WakeupCount'
  BY <1>1, WakeupStep
<1> QED
  BY <1>1, <1>2, <1>3

\* The queue's types, one thread in the critical section, at most MaxSize values, and
\* enough threads on their way for all that can be taken or put while others sleep:
\* for any threads that share a ThreadSafeQueue (ThreadSafeQueue.cpp, push and pop_front).
THEOREM MonitorCorrect == SafeSpec => []MonitorInv
<1> QED
  BY MonitorInit, MonitorStep, PTL DEF SafeSpec

\* No wakeup is lost, although a push or a pop signals one sleeper only, and signals
\* it after the unlock (ThreadSafeQueue.cpp, the two pthread_cond_signal calls).
THEOREM NoWakeupLost == SafeSpec => []NoLostWakeup
<1>1. MonitorInv => NoLostWakeup
  <2> SUFFICES ASSUME MonitorInv PROVE NoLostWakeup
    OBVIOUS
  <2>1. tsQueue \in Seq(Values) /\ MaxSize \in Nat
    BY QueueAssumption DEF MonitorInv, TypeOK
  <2>2. tsQueue # <<>> => Len(tsQueue) > 0
    BY <2>1
  <2>3. Cardinality({}) = 0
    BY FS_EmptySet
  <2>4. ASSUME condc # {}, tsQueue # <<>>, ForConsumers = {} PROVE FALSE
    BY <2>1, <2>2, <2>3, <2>4 DEF MonitorInv, WakeupCount
  <2>5. ASSUME condp # {}, Len(tsQueue) < MaxSize, ForProducers = {} PROVE FALSE
    BY <2>1, <2>3, <2>5 DEF MonitorInv, WakeupCount
  <2> QED
    BY <2>4, <2>5 DEF NoLostWakeup
<1> QED
  BY <1>1, MonitorCorrect, PTL

-----------------------------------------------------------------------------
(* Refinement.                                                             *)

\* The initial states agree.
LEMMA RefinementInit == Init => Abstract!Init
BY DEF Init, Abstract!Init, Threads, Abstract!Threads, Status

\* Every step is a step of the abstract queue, or none.
LEMMA RefinementStep == MonitorInv /\ [Next]_vars => [Abstract!Next]_(Abstract!vars)
<1> SUFFICES ASSUME MonitorInv, [Next]_vars PROVE [Abstract!Next]_(Abstract!vars)
  OBVIOUS
<1> DEFINE status == [t \in Threads |-> Status(pc[t])]
<1>0. TypeOK /\ WithinCapacity /\ Threads = Abstract!Threads
  BY DEF MonitorInv, Threads, Abstract!Threads
<1>13. CASE UNCHANGED vars
  BY <1>13 DEF vars, Abstract!vars
<1> USE <1>0 DEF TypeOK, At, Labels, Inside, Status, Goto
<1>1. ASSUME NEW t \in Producers, NEW v \in Values, Call(t, "pushLock", v)
      PROVE  Abstract!Call(t, "push", v)
  BY <1>1 DEF Call, Abstract!Call, Threads
<1>2. ASSUME NEW t \in Consumers, Call(t, "popLock", None)
      PROVE  Abstract!Call(t, "pop", None)
  BY <1>2 DEF Call, Abstract!Call, Threads
<1>3. ASSUME NEW t \in Observers, Call(t, "sizeLock", None)
      PROVE  Abstract!Call(t, "size", None)
  BY <1>3 DEF Call, Abstract!Call, Threads
<1>4. ASSUME NEW t \in Threads, PushItem(t) PROVE Abstract!Put(t)
  <2>1. Len(tsQueue) < MaxSize
    BY <1>4, QueueAssumption DEF PushItem, WithinCapacity
  <2> QED
    BY <1>4, <2>1 DEF PushItem, Abstract!Put
<1>5. ASSUME NEW t \in Threads, PopItem(t) PROVE Abstract!Take(t)
  <2>1. /\ status[t] = "pop" /\ tsQueue # <<>>
        /\ status' = [status EXCEPT ![t] = "done"]
    BY <1>5 DEF PopItem
  <2>2. tsQueue' = Tail(tsQueue) /\ value' = [value EXCEPT ![t] = Head(tsQueue)]
    BY <1>5 DEF PopItem
  <2> HIDE DEF status
  <2> QED
    BY <2>1, <2>2 DEF Abstract!Take, status
<1>6. ASSUME NEW t \in Threads, SizeRead(t) PROVE Abstract!Count(t)
  BY <1>6 DEF SizeRead, Abstract!Count
<1>7. ASSUME NEW t \in Threads, PushSignal(t) PROVE Abstract!Return(t)
  <2>1. pc[t] = "pushSignal" /\ tsQueue' = tsQueue /\ value' = [value EXCEPT ![t] = None]
    BY <1>7 DEF PushSignal, Signal
  <2>2. PICK woken \in SUBSET condc :
            pc' = [u \in Threads |-> IF u = t THEN "idle"
                                     ELSE IF u \in woken THEN "popLock" ELSE pc[u]]
    <3>1. CASE condc = {} /\ Goto(t, "idle")
      BY <3>1
    <3>2. CASE \E w \in condc : pc' = [pc EXCEPT ![w] = "popLock", ![t] = "idle"]
      <4>1. PICK w \in condc : pc' = [pc EXCEPT ![w] = "popLock", ![t] = "idle"]
        BY <3>2
      <4>2. WITNESS {w} \in SUBSET condc
      <4> QED
        BY <4>1
    <3> QED
      BY <1>7, <3>1, <3>2 DEF PushSignal, Signal
  <2>3. \A u \in woken : Status("popLock") = Status(pc[u])
    BY <2>2
  <2>4. Status(pc[t]) = "done" /\ Status("idle") = "idle"
    BY <2>1
  <2>5. status[t] = "done" /\ status' = [status EXCEPT ![t] = "idle"]
    <3> HIDE DEF Status
    <3> QED
      BY <2>1, <2>2, <2>3, <2>4
  <2> HIDE DEF status
  <2> QED
    BY <2>1, <2>5 DEF Abstract!Return, status
<1>8. ASSUME NEW t \in Threads, PopSignal(t) PROVE Abstract!Return(t)
  <2>1. pc[t] = "popSignal" /\ tsQueue' = tsQueue /\ value' = [value EXCEPT ![t] = None]
    BY <1>8 DEF PopSignal, Signal
  <2>2. PICK woken \in SUBSET condp :
            pc' = [u \in Threads |-> IF u = t THEN "idle"
                                     ELSE IF u \in woken THEN "pushLock" ELSE pc[u]]
    <3>1. CASE condp = {} /\ Goto(t, "idle")
      BY <3>1
    <3>2. CASE \E w \in condp : pc' = [pc EXCEPT ![w] = "pushLock", ![t] = "idle"]
      <4>1. PICK w \in condp : pc' = [pc EXCEPT ![w] = "pushLock", ![t] = "idle"]
        BY <3>2
      <4>2. WITNESS {w} \in SUBSET condp
      <4> QED
        BY <4>1
    <3> QED
      BY <1>8, <3>1, <3>2 DEF PopSignal, Signal
  <2>3. \A u \in woken : Status("pushLock") = Status(pc[u])
    BY <2>2
  <2>4. Status(pc[t]) = "done" /\ Status("idle") = "idle"
    BY <2>1
  <2>5. status[t] = "done" /\ status' = [status EXCEPT ![t] = "idle"]
    <3> HIDE DEF Status
    <3> QED
      BY <2>1, <2>2, <2>3, <2>4
  <2> HIDE DEF status
  <2> QED
    BY <2>1, <2>5 DEF Abstract!Return, status
<1>9. ASSUME NEW t \in Threads, SizeReturn(t) PROVE Abstract!Return(t)
  BY <1>9 DEF SizeReturn, Abstract!Return
<1>10. ASSUME NEW t \in Threads, GetLock(t) PROVE UNCHANGED Abstract!vars
  BY <1>10 DEF GetLock, PushLock, PopLock, SizeLock, Acquire, Abstract!vars
<1>11. ASSUME NEW t \in Threads,
              PushWait(t) \/ PopWait(t) \/ PushUnlock(t) \/ PopUnlock(t) \/ SizeUnlock(t)
       PROVE  UNCHANGED Abstract!vars
  BY <1>11 DEF PushWait, PopWait, PushUnlock, PopUnlock, SizeUnlock, Release, Abstract!vars
<1>12. ASSUME NEW t \in Threads, SpuriousWakeup(t) PROVE UNCHANGED Abstract!vars
  <2>1. pc[t] \in {"pushWait", "popWait"} /\ tsQueue' = tsQueue /\ value' = value
    BY <1>12 DEF SpuriousWakeup
  <2>2. pc' = [pc EXCEPT ![t] = IF pc[t] = "pushWait" THEN "pushLock" ELSE "popLock"]
    BY <1>12 DEF SpuriousWakeup
  <2>3. \A u \in Threads : Status(pc'[u]) = Status(pc[u])
    BY <2>1, <2>2
  <2> HIDE DEF Status
  <2> QED
    BY <2>1, <2>3 DEF Abstract!vars
<1> HIDE DEF status, TypeOK, At, Labels, Inside, Status, Goto
<1>14. ASSUME NEW t \in Threads, GetLock(t) \/ InCall(t) \/ SpuriousWakeup(t)
       PROVE  \/ Abstract!Put(t) \/ Abstract!Take(t) \/ Abstract!Count(t)
              \/ Abstract!Return(t) \/ UNCHANGED Abstract!vars
  BY <1>4, <1>5, <1>6, <1>7, <1>8, <1>9, <1>10, <1>11, <1>12, <1>14 DEF InCall
<1>15. CASE \E t \in Threads : GetLock(t) \/ InCall(t) \/ SpuriousWakeup(t)
  BY <1>14, <1>15 DEF Abstract!Next
<1>16. CASE \/ \E t \in Producers, v \in Values : Call(t, "pushLock", v)
            \/ \E t \in Consumers : Call(t, "popLock", None)
            \/ \E t \in Observers : Call(t, "sizeLock", None)
  BY <1>1, <1>2, <1>3, <1>16 DEF Abstract!Next
<1> QED
  BY <1>13, <1>15, <1>16 DEF Next

\* The monitor implements the atomic bounded FIFO: each push, pop_front and size takes
\* effect at one instant, in queue order, and blocks only on a full or empty queue.
THEOREM QueueRefinement == SafeSpec => Abstract!SafeSpec
<1> QED
  BY RefinementInit, RefinementStep, MonitorCorrect, PTL DEF SafeSpec, Abstract!SafeSpec
=============================================================================
