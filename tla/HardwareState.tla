---------------------------- MODULE HardwareState ----------------------------
(***************************************************************************)
(* The members of HardwareManager that its threads share, and the calls on *)
(* m_dataQueue. A queue operation is one step here: ThreadSafeQueue.tla    *)
(* and QueueRefinement show that push, pop_front and size act at one       *)
(* instant.                                                                *)
(***************************************************************************)
EXTENDS Naturals, Sequences, FiniteSets

CONSTANTS DDR_Q_SIZE,   \* buffers in the DDR region, and capacity of m_dataQueue
          NULL          \* the null pointer that ends the writer

ASSUME SizeAssumption == DDR_Q_SIZE \in Nat \ {0}

Slots == 0 .. DDR_Q_SIZE - 1

ASSUME NullAssumption == NULL \notin Slots

VARIABLES dataQueue,    \* m_dataQueue: buffers to be written, by their index in the region
          ddr,          \* the region: the number of the block each buffer holds
          stopSignal    \* m_stopSignal

shared == <<dataQueue, ddr, stopSignal>>

\* What a buffer holds while it is being filled, or after a transfer that failed.
Mixed == 0

SharedInit == /\ dataQueue = <<>>
              /\ ddr = [s \in Slots |-> Mixed]
              /\ stopSignal = FALSE

Push(p) == /\ Len(dataQueue) < DDR_Q_SIZE
           /\ dataQueue' = Append(dataQueue, p)

PopFront == /\ dataQueue # <<>>
            /\ dataQueue' = Tail(dataQueue)
=============================================================================
