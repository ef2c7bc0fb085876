-------------------------- MODULE ThreadSafeQueue --------------------------
(***************************************************************************)
(* ThreadSafeQueue<T>: a std::queue behind one mutex and two condition     *)
(* variables, at the grain of the pthread calls. The same class carries    *)
(* the DMA buffers (HWThread pushes and polls size, WriterThread and Stop  *)
(* pop) and the upload tasks (the MQTT thread pushes, the pool pops).      *)
(* A thread is at most in one call. Signals are sent after the unlock, a   *)
(* wait may end spuriously, and the mutex goes to any thread asking for it.*)
(***************************************************************************)
EXTENDS Naturals, Sequences, FiniteSets

CONSTANTS Producers, Consumers, Observers, Values, MaxSize, None

Threads == Producers \cup Consumers \cup Observers

ASSUME QueueAssumption ==
    /\ IsFiniteSet(Threads)
    /\ MaxSize \in Nat \ {0}
    /\ None \notin Threads

VARIABLES tsQueue,  \* m_tsQueue
          lock,     \* the owner of m_lock, or None
          condc,    \* the threads blocked on m_condc
          condp,    \* the threads blocked on m_condp
          pc,       \* where each thread is in its call
          value     \* the argument of its push, or the result of its pop or size

vars == <<tsQueue, lock, condc, condp, pc, value>>

Goto(t, l) == pc' = [pc EXCEPT ![t] = l]

Init ==
    /\ tsQueue = <<>>
    /\ lock = None
    /\ condc = {} /\ condp = {}
    /\ pc = [t \in Threads |-> "idle"]
    /\ value = [t \in Threads |-> None]

Call(t, l, v) ==
    /\ pc[t] = "idle"
    /\ Goto(t, l)
    /\ value' = [value EXCEPT ![t] = v]
    /\ UNCHANGED <<tsQueue, lock, condc, condp>>

(***************************************************************************)
(* pthread_mutex_lock, at the start of a call and on the way out of        *)
(* pthread_cond_wait; pthread_mutex_unlock.                                *)
(***************************************************************************)
Acquire(t, from, to) ==
    /\ pc[t] = from
    /\ lock = None
    /\ lock' = t
    /\ Goto(t, to)
    /\ UNCHANGED <<tsQueue, condc, condp, value>>

Release(t, from, to) ==
    /\ pc[t] = from
    /\ lock' = None
    /\ Goto(t, to)
    /\ UNCHANGED <<tsQueue, condc, condp, value>>

\* pthread_cond_signal, the last thing a push and a pop do: one of the threads
\* asleep on cond, if there is one, goes on to reacquire the mutex.
Signal(t, cond, relock) ==
    /\ \/ cond = {} /\ UNCHANGED cond /\ Goto(t, "idle")
       \/ \E w \in cond :
              /\ cond' = cond \ {w}
              /\ pc' = [pc EXCEPT ![w] = relock, ![t] = "idle"]
    /\ value' = [value EXCEPT ![t] = None]
    /\ UNCHANGED <<tsQueue, lock>>

(***************************************************************************)
(* push                                                                    *)
(***************************************************************************)
PushLock(t) == Acquire(t, "pushLock", "pushBody")

PushWait(t) ==
    /\ pc[t] = "pushBody"
    /\ Len(tsQueue) = MaxSize
    /\ condp' = condp \cup {t}
    /\ lock' = None
    /\ Goto(t, "pushWait")
    /\ UNCHANGED <<tsQueue, condc, value>>

\* Mutant: after a wait the queue is not tested again (if for while).
PushItemUntested(t) ==
    /\ pc[t] = "pushBody"
    /\ tsQueue' = Append(tsQueue, value[t])
    /\ Goto(t, "pushUnlock")
    /\ UNCHANGED <<lock, condc, condp, value>>

PushItem(t) ==
    /\ pc[t] = "pushBody"
    /\ Len(tsQueue) # MaxSize
    /\ tsQueue' = Append(tsQueue, value[t])
    /\ Goto(t, "pushUnlock")
    /\ UNCHANGED <<lock, condc, condp, value>>

PushUnlock(t) == Release(t, "pushUnlock", "pushSignal")

PushSignal(t) ==
    /\ pc[t] = "pushSignal"
    /\ Signal(t, condc, "popLock")
    /\ UNCHANGED condp

(***************************************************************************)
(* pop_front                                                               *)
(***************************************************************************)
PopLock(t) == Acquire(t, "popLock", "popBody")

PopWait(t) ==
    /\ pc[t] = "popBody"
    /\ tsQueue = <<>>
    /\ condc' = condc \cup {t}
    /\ lock' = None
    /\ Goto(t, "popWait")
    /\ UNCHANGED <<tsQueue, condp, value>>

\* Mutant: the front is returned and left in the queue.
PopItemKept(t) ==
    /\ pc[t] = "popBody"
    /\ tsQueue # <<>>
    /\ value' = [value EXCEPT ![t] = Head(tsQueue)]
    /\ Goto(t, "popUnlock")
    /\ UNCHANGED <<tsQueue, lock, condc, condp>>

PopItem(t) ==
    /\ pc[t] = "popBody"
    /\ tsQueue # <<>>
    /\ value' = [value EXCEPT ![t] = Head(tsQueue)]
    /\ tsQueue' = Tail(tsQueue)
    /\ Goto(t, "popUnlock")
    /\ UNCHANGED <<lock, condc, condp>>

PopUnlock(t) == Release(t, "popUnlock", "popSignal")

\* Mutant: the pop signals the condition it waits on itself.
PopSignalOwn(t) ==
    /\ pc[t] = "popSignal"
    /\ Signal(t, condc, "popLock")
    /\ UNCHANGED condp

PopSignal(t) ==
    /\ pc[t] = "popSignal"
    /\ Signal(t, condp, "pushLock")
    /\ UNCHANGED condc

(***************************************************************************)
(* size                                                                    *)
(***************************************************************************)
SizeLock(t) == Acquire(t, "sizeLock", "sizeBody")

SizeRead(t) ==
    /\ pc[t] = "sizeBody"
    /\ value' = [value EXCEPT ![t] = Len(tsQueue)]
    /\ Goto(t, "sizeUnlock")
    /\ UNCHANGED <<tsQueue, lock, condc, condp>>

SizeUnlock(t) == Release(t, "sizeUnlock", "sizeReturn")

SizeReturn(t) ==
    /\ pc[t] = "sizeReturn"
    /\ Goto(t, "idle")
    /\ value' = [value EXCEPT ![t] = None]
    /\ UNCHANGED <<tsQueue, lock, condc, condp>>

\* POSIX lets pthread_cond_wait return without a signal: hence the while loops.
SpuriousWakeup(t) ==
    \/ /\ t \in condp
       /\ condp' = condp \ {t}
       /\ Goto(t, "pushLock")
       /\ UNCHANGED <<tsQueue, lock, condc, value>>
    \/ /\ t \in condc
       /\ condc' = condc \ {t}
       /\ Goto(t, "popLock")
       /\ UNCHANGED <<tsQueue, lock, condp, value>>

-----------------------------------------------------------------------------
GetLock(t) == PushLock(t) \/ PopLock(t) \/ SizeLock(t)

InCall(t) ==
    \/ PushWait(t) \/ PushItem(t) \/ PushUnlock(t) \/ PushSignal(t)
    \/ PopWait(t) \/ PopItem(t) \/ PopUnlock(t) \/ PopSignal(t)
    \/ SizeRead(t) \/ SizeUnlock(t) \/ SizeReturn(t)

Next ==
    \/ \E t \in Producers, v \in Values : Call(t, "pushLock", v)
    \/ \E t \in Consumers : Call(t, "popLock", None)
    \/ \E t \in Observers : Call(t, "sizeLock", None)
    \/ \E t \in Threads : GetLock(t) \/ InCall(t) \/ SpuriousWakeup(t)

(***************************************************************************)
(* A thread inside a call is scheduled, and one that wants the mutex gets  *)
(* it if it is released again and again: HWThread polls size() in a loop,  *)
(* and no polling thread keeps the mutex from the others forever. No       *)
(* thread is obliged to call, and no wait has to end by itself.            *)
(***************************************************************************)
Fairness == \A t \in Threads : WF_vars(InCall(t)) /\ SF_vars(GetLock(t))

SafeSpec == Init /\ [][Next]_vars
Spec == SafeSpec /\ Fairness

-----------------------------------------------------------------------------
Inside == {"pushBody", "pushUnlock", "popBody", "popUnlock", "sizeBody", "sizeUnlock"}

Labels == Inside \cup {"idle", "pushLock", "pushWait", "pushSignal",
                       "popLock", "popWait", "popSignal", "sizeLock", "sizeReturn"}

At(labels) == {t \in Threads : pc[t] \in labels}

\* Threads on their way for the consumers: a push that has yet to signal m_condc, or a
\* pop that is awake and has yet to take a value. Likewise for the producers.
ForConsumers == At({"pushUnlock", "pushSignal", "popLock", "popBody"})
ForProducers == At({"popUnlock", "popSignal", "pushLock", "pushBody"})

\* Types; the waiters of a condition are the threads asleep in the matching wait.
TypeOK ==
    /\ tsQueue \in Seq(Values)
    /\ lock \in Threads \cup {None}
    /\ pc \in [Threads -> Labels]
    /\ value \in [Threads -> Values \cup Nat \cup {None}]
    /\ condc = At({"popWait"}) /\ condp = At({"pushWait"})
    /\ \A t \in At({"pushLock", "pushBody", "pushWait"}) : value[t] \in Values

\* The std::queue is touched by one thread at a time, the one that owns m_lock.
MutualExclusion == \A t \in Threads : pc[t] \in Inside <=> lock = t

\* The queue never outgrows m_maxSize, although push tests for equality, not for >=.
WithinCapacity == Len(tsQueue) <= MaxSize

\* The counting form of NoLostWakeup, which steps preserve: while consumers sleep at
\* least as many threads are on their way as there are values, while producers sleep
\* at least as many as there are free places.
WakeupCount ==
    /\ condc # {} => Len(tsQueue) <= Cardinality(ForConsumers)
    /\ condp # {} => MaxSize - Len(tsQueue) <= Cardinality(ForProducers)

\* The monitor's inductive invariant.
MonitorInv == TypeOK /\ MutualExclusion /\ WithinCapacity /\ WakeupCount

\* No lost wakeup: if a value is queued while a consumer sleeps, or there is room
\* while a producer sleeps, some thread is on its way that takes the value (fills
\* the room) or sends the signal. With several sleepers and one signal per
\* transfer this is what could break: a wakeup consumed by a thread that finds
\* nothing must not be one a sleeper needed.
NoLostWakeup ==
    /\ condc # {} /\ tsQueue # <<>> => ForConsumers # {}
    /\ condp # {} /\ Len(tsQueue) < MaxSize => ForProducers # {}

(***************************************************************************)
(* The abstract queue: a call has taken effect once its thread is past the *)
(* body of the critical section.                                           *)
(***************************************************************************)
Status(l) ==
    CASE l \in {"pushLock", "pushBody", "pushWait"} -> "push"
      [] l \in {"popLock", "popBody", "popWait"} -> "pop"
      [] l \in {"sizeLock", "sizeBody"} -> "size"
      [] l = "idle" -> "idle"
      [] OTHER -> "done"

Abstract == INSTANCE BoundedQueue WITH status <- [t \in Threads |-> Status(pc[t])]

\* The queue implements the atomic bounded FIFO, its progress included: a value
\* is taken while pops are pending, a push goes through while there is room.
ImplementsBoundedQueue == Abstract!Spec
=============================================================================
