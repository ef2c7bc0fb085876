------------------------------ MODULE HWThread ------------------------------
(***************************************************************************)
(* HardwareManager::HWThread: it polls the interrupt register, copies one  *)
(* of the FPGA's two buffers into the DDR region by DMA and queues it. The *)
(* FPGA is not in this repository; it is modelled by what HWThread assumes *)
(* of it: it fills buffers 0 and 1 in turn and raises their interrupts.    *)
(***************************************************************************)
EXTENDS HardwareState

CONSTANT MaxBlocks      \* bound: how many blocks the FPGA produces

VARIABLES hwPc,
          regValue,         \* the interrupts HWThread has read
          bufferNum,        \* the FPGA buffer to transfer from
          firstInterrupt,
          queueIndex,       \* the DDR buffer to transfer to
          numErrors,        \* m_numErrors
          isr,              \* the FPGA's interrupt status register
          bram,             \* the FPGA's buffers: the number of the block in each
          produced,         \* how many blocks the FPGA has completed
          pushed,           \* history: the blocks queued so far
          overrun           \* history: a block was completed while HWThread waited for room

hwLocal == <<regValue, bufferNum, firstInterrupt, queueIndex, numErrors>>
fpga == <<isr, bram, produced>>
history == <<pushed, overrun>>
hwVars == <<hwPc, hwLocal, fpga, history>>

HWInit ==
    /\ hwPc = "unstarted"
    /\ regValue = {} /\ bufferNum = 0 /\ firstInterrupt = TRUE /\ queueIndex = 0
    /\ numErrors = 0
    /\ isr = {} /\ bram = [b \in {0, 1} |-> Mixed] /\ produced = 0
    /\ pushed = <<>> /\ overrun = FALSE

(***************************************************************************)
(* HWThread runs at real-time priority and a block takes 16 ms to fill:    *)
(* from an interrupt it has read to the push of the block, the FPGA        *)
(* completes no other, unless the queue is full and HWThread waits for     *)
(* room. It may complete several before HWThread comes round to poll.      *)
(***************************************************************************)
Prompt == \/ hwPc \in {"acked", "dma", "push"}
          \/ hwPc = "polled" /\ regValue # {}
          \/ hwPc = "fullWait" /\ Len(dataQueue) # DDR_Q_SIZE

\* A block is complete; the FPGA goes on to overwrite the other buffer.
FpgaFill ==
    /\ produced < MaxBlocks
    /\ ~Prompt
    /\ LET b == produced % 2 IN
         /\ bram' = [bram EXCEPT ![b] = produced + 1, ![1 - b] = Mixed]
         /\ isr' = isr \cup {b}
    /\ produced' = produced + 1
    /\ overrun' = (overrun \/ hwPc = "fullWait")
    /\ UNCHANGED <<hwPc, hwLocal, pushed, shared>>

-----------------------------------------------------------------------------
HWGoto(from, to) == hwPc = from /\ hwPc' = to

\* Real-time priority granted or refused (rtAllowed), then the outer loop's condition.
HWBegin(rtAllowed) ==
    /\ HWGoto("start", IF rtAllowed THEN "top" ELSE "exited")
    /\ UNCHANGED <<hwLocal, fpga, history, shared>>

HWTop ==
    /\ HWGoto("top", IF stopSignal THEN "exited" ELSE "poll")
    /\ UNCHANGED <<hwLocal, fpga, history, shared>>

Poll ==
    /\ HWGoto("poll", "polled")
    /\ regValue' = isr
    /\ UNCHANGED <<bufferNum, firstInterrupt, queueIndex, numErrors, fpga, history, shared>>

\* Mutant: the polling loop does not look at m_stopSignal.
PollAgainOnly ==
    /\ regValue = {}
    /\ HWGoto("polled", "poll")
    /\ UNCHANGED <<hwLocal, fpga, history, shared>>

\* After the usleep: stop, or poll again.
PollAgain ==
    /\ stopSignal \/ regValue = {}
    /\ HWGoto("polled", IF stopSignal THEN "exited" ELSE "poll")
    /\ UNCHANGED <<hwLocal, fpga, history, shared>>

Ack ==
    /\ ~stopSignal /\ regValue # {}
    /\ isr' = isr \ regValue
    /\ bufferNum' = IF 1 \in regValue THEN 1 ELSE 0
    /\ UNCHANGED <<regValue, queueIndex, bram, produced, history, shared>>

\* Mutant: that both interrupts are up is not looked at.
AckAny ==
    /\ Ack
    /\ HWGoto("polled", "acked")
    /\ UNCHANGED <<firstInterrupt, numErrors>>

AckOne ==
    /\ Ack
    /\ regValue # {0, 1}
    /\ HWGoto("polled", "acked")
    /\ UNCHANGED <<firstInterrupt, numErrors>>

\* Both interrupts: a block was missed. The first such pass is not counted.
AckBoth ==
    /\ Ack
    /\ regValue = {0, 1}
    /\ HWGoto("polled", "top")
    /\ firstInterrupt' = FALSE
    /\ numErrors' = IF firstInterrupt THEN numErrors ELSE numErrors + 1

\* The DMA is reset and found idle, or found busy: the thread ends without a word to others.
ResetDma ==
    /\ \/ HWGoto("acked", "fullWait")
       \/ HWGoto("acked", "exited")
    /\ UNCHANGED <<hwLocal, fpga, history, shared>>

\* Mutant: no test for a full queue.
StartDmaAnyway ==
    /\ HWGoto("fullWait", "dma")
    /\ ddr' = [ddr EXCEPT ![queueIndex] = Mixed]
    /\ UNCHANGED <<hwLocal, fpga, history, dataQueue, stopSignal>>

\* Until the queue is not full HWThread spins on size(). From here on the transfer
\* overwrites the DDR buffer queueIndex.
StartDma ==
    /\ HWGoto("fullWait", "dma")
    /\ Len(dataQueue) # DDR_Q_SIZE
    /\ ddr' = [ddr EXCEPT ![queueIndex] = Mixed]
    /\ UNCHANGED <<hwLocal, fpga, history, dataQueue, stopSignal>>

DmaComplete ==
    /\ HWGoto("dma", "push")
    /\ ddr' = [ddr EXCEPT ![queueIndex] = bram[bufferNum]]
    /\ UNCHANGED <<hwLocal, fpga, history, dataQueue, stopSignal>>

\* Mutant: the error is not counted.
DmaFailedSilently ==
    /\ HWGoto("dma", "top")
    /\ UNCHANGED <<hwLocal, fpga, history, shared>>

\* The delay or the error interrupt: the block is given up.
DmaFailed ==
    /\ HWGoto("dma", "top")
    /\ numErrors' = numErrors + 1
    /\ UNCHANGED <<regValue, bufferNum, firstInterrupt, queueIndex, fpga, history, shared>>

\* Mutant: the ring wraps one buffer late.
NextIndexLate == IF queueIndex = DDR_Q_SIZE - 1 THEN 1 % DDR_Q_SIZE ELSE queueIndex + 1

\* (queueIndex + 1) % DDR_Q_SIZE
NextIndex == IF queueIndex + 1 = DDR_Q_SIZE THEN 0 ELSE queueIndex + 1

PushBuffer ==
    /\ HWGoto("push", "top")
    /\ Push(queueIndex)
    /\ queueIndex' = NextIndex
    /\ pushed' = Append(pushed, ddr[queueIndex])
    /\ UNCHANGED <<regValue, bufferNum, firstInterrupt, numErrors, fpga, overrun,
                   ddr, stopSignal>>

HWNext(rtAllowed) ==
    \/ HWBegin(rtAllowed) \/ HWTop \/ Poll \/ PollAgain \/ AckOne \/ AckBoth
    \/ ResetDma \/ StartDma \/ DmaComplete \/ DmaFailed \/ PushBuffer
=============================================================================
