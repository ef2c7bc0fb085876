---------------------------- MODULE BoundedQueue ----------------------------
(***************************************************************************)
(* What a ThreadSafeQueue promises the threads that share it: a FIFO of at *)
(* most MaxSize values on which every call of push, pop_front and size     *)
(* takes effect at one instant between its call and its return; a push     *)
(* blocks only on a full queue, a pop only on an empty one.                *)
(* ThreadSafeQueue.tla is shown to implement this module.                  *)
(***************************************************************************)
EXTENDS Naturals, Sequences

CONSTANTS Producers,  \* threads that call push
          Consumers,  \* threads that call pop_front
          Observers,  \* threads that call size
          Values,     \* what is queued: DMA buffer pointers, or upload tasks
          MaxSize,    \* m_maxSize
          None        \* no value, no thread

Threads == Producers \cup Consumers \cup Observers

VARIABLES tsQueue,    \* the queued values, oldest first
          status,     \* what each thread asks of the queue, "done" when it took effect
          value       \* the argument of a push, the result of a pop or a size

vars == <<tsQueue, status, value>>

Init == /\ tsQueue = <<>>
        /\ status = [t \in Threads |-> "idle"]
        /\ value = [t \in Threads |-> None]

Call(t, op, v) ==
    /\ status[t] = "idle"
    /\ status' = [status EXCEPT ![t] = op]
    /\ value' = [value EXCEPT ![t] = v]
    /\ UNCHANGED tsQueue

Put(t) ==
    /\ status[t] = "push"
    /\ Len(tsQueue) < MaxSize
    /\ tsQueue' = Append(tsQueue, value[t])
    /\ status' = [status EXCEPT ![t] = "done"]
    /\ UNCHANGED value

Take(t) ==
    /\ status[t] = "pop"
    /\ tsQueue # <<>>
    /\ tsQueue' = Tail(tsQueue)
    /\ status' = [status EXCEPT ![t] = "done"]
    /\ value' = [value EXCEPT ![t] = Head(tsQueue)]

Count(t) ==
    /\ status[t] = "size"
    /\ status' = [status EXCEPT ![t] = "done"]
    /\ value' = [value EXCEPT ![t] = Len(tsQueue)]
    /\ UNCHANGED tsQueue

Return(t) ==
    /\ status[t] = "done"
    /\ status' = [status EXCEPT ![t] = "idle"]
    /\ value' = [value EXCEPT ![t] = None]
    /\ UNCHANGED tsQueue

Next ==
    \/ \E t \in Producers, v \in Values : Call(t, "push", v)
    \/ \E t \in Consumers : Call(t, "pop", None)
    \/ \E t \in Observers : Call(t, "size", None)
    \/ \E t \in Threads : Put(t) \/ Take(t) \/ Count(t) \/ Return(t)

SafeSpec == Init /\ [][Next]_vars

(***************************************************************************)
(* While the queue has room some pending push takes effect, while it holds *)
(* a value some pending pop does: which of several, the mutex decides.     *)
(***************************************************************************)
Fairness ==
    /\ WF_vars(\E t \in Producers : Put(t))
    /\ WF_vars(\E t \in Consumers : Take(t))
    /\ \A t \in Threads : WF_vars(Count(t)) /\ WF_vars(Return(t))

Spec == SafeSpec /\ Fairness
=============================================================================
