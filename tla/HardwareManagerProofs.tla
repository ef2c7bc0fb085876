----------------------- MODULE HardwareManagerProofs -----------------------
(***************************************************************************)
(* For any ring size, any number of channels and files of any size: types, *)
(* the ring of DDR buffers, what holds when Stop returns, and that Stop is *)
(* not left waiting.                                                       *)
(***************************************************************************)
EXTENDS HardwareManager, WriterThreadProofs, TLAPS

(***************************************************************************)
(* Types, and the shape of the writer's variables that they rest on.       *)
(***************************************************************************)
\* The main thread (Start and Stop) keeps the types.
LEMMA MainTypes ==
    ASSUME TypeOK, WriterShape, MainNext PROVE TypeOK' /\ WriterShape'
<1> USE NullAssumption
    DEF TypeOK, WriterTypeOK, WriterShape, MainLabels, HWLabels, WLabels, MainGoto, HWGoto, WGoto, shared,
        hwVars, hwLocal, fpga, history, wVars, wFlags, wNames, mainVars
<1>1. CASE StartWriter
  BY <1>1 DEF StartWriter
<1>2. CASE StartHW
  BY <1>2 DEF StartHW
<1>3. CASE Stop
  BY <1>3 DEF Stop
<1>4. CASE DrainCheck
  BY <1>4 DEF DrainCheck
<1>5. CASE DrainPop
  BY <1>5 DEF DrainPop, PopFront
<1>6. CASE JoinHW
  BY <1>6 DEF JoinHW
<1>7. CASE PushNull
  BY <1>7 DEF PushNull, Push
<1>8. CASE JoinWriter
  BY <1>8 DEF JoinWriter
<1> QED
  BY <1>1, <1>2, <1>3, <1>4, <1>5, <1>6, <1>7, <1>8 DEF MainNext

\* HWThread keeps them.
LEMMA HWTypes ==
    ASSUME TypeOK, WriterShape, HWStep \/ Fpga PROVE TypeOK' /\ WriterShape'
<1> USE NullAssumption, SizeAssumption
    DEF HWStep, Fpga, TypeOK, WriterTypeOK, WriterShape, HWLabels, HWGoto, shared, hwLocal, fpga, history,
        wVars, wFlags, wNames, mainVars, Slots, Mixed
<1>1. CASE Fpga
  <2>1. produced % 2 \in {0, 1} /\ 1 - (produced % 2) \in {0, 1}
    BY <1>1
  <2>4. bram' \in [{0, 1} -> Nat] /\ isr' \subseteq {0, 1} /\ produced' \in Nat
    BY <1>1, <2>1, SMTT(30) DEF FpgaFill
  <2>2. TypeOK'
    BY <1>1, <2>4, SMTT(30) DEF FpgaFill
  <2>3. WriterShape'
    BY <1>1 DEF FpgaFill
  <2> QED
    BY <2>2, <2>3
<1>2. CASE HWStep /\ HWBegin(rtAllowed)
  BY <1>2 DEF HWBegin
<1>3. CASE HWStep /\ HWTop
  BY <1>3 DEF HWTop
<1>4. CASE HWStep /\ Poll
  BY <1>4 DEF Poll
<1>5. CASE HWStep /\ PollAgain
  BY <1>5 DEF PollAgain
<1>6. CASE HWStep /\ AckOne
  BY <1>6 DEF AckOne, Ack
<1>7. CASE HWStep /\ AckBoth
  <2>1. isr' \subseteq {0, 1} /\ bufferNum' \in {0, 1} /\ firstInterrupt' \in BOOLEAN
    BY <1>7 DEF AckBoth, Ack
  <2>2. numErrors' \in Nat
    BY <1>7 DEF AckBoth
  <2>3. TypeOK'
    BY <1>7, <2>1, <2>2 DEF AckBoth, Ack
  <2>4. WriterShape'
    BY <1>7 DEF AckBoth, Ack
  <2> QED
    BY <2>3, <2>4
<1>8. CASE HWStep /\ ResetDma
  BY <1>8 DEF ResetDma
<1>9. CASE HWStep /\ StartDma
  BY <1>9 DEF StartDma
<1>10. CASE HWStep /\ DmaComplete
  BY <1>10, SMTT(30) DEF DmaComplete
<1>11. CASE HWStep /\ DmaFailed
  BY <1>11 DEF DmaFailed
<1>12. CASE HWStep /\ PushBuffer
  <2>1. queueIndex' \in Slots /\ dataQueue' \in Seq(Slots \cup {NULL}) /\ pushed' \in Seq(Nat)
    BY <1>12 DEF PushBuffer, Push, NextIndex
  <2>2. TypeOK'
    BY <1>12, <2>1 DEF PushBuffer
  <2>3. WriterShape'
    BY <1>12 DEF PushBuffer
  <2> QED
    BY <2>2, <2>3
<1> HIDE DEF TypeOK, WriterTypeOK, WriterShape, Fpga, HWLabels, HWGoto, shared, hwLocal, fpga, history,
        wVars, wFlags, wNames, mainVars, Slots, Mixed
<1>13. CASE HWStep
  <2>1. \/ HWBegin(rtAllowed) \/ HWTop \/ Poll \/ PollAgain \/ AckOne \/ AckBoth
        \/ ResetDma \/ StartDma \/ DmaComplete \/ DmaFailed \/ PushBuffer
    BY <1>13 DEF HWNext
  <2> HIDE DEF HWStep
  <2> QED
    BY <1>2, <1>3, <1>4, <1>5, <1>6, <1>7, <1>8, <1>9, <1>10, <1>11, <1>12, <1>13, <2>1
<1> QED
  BY <1>1, <1>13

\* WriterThread and the MQTT thread keep them.
LEMMA WriterStepTypes ==
    ASSUME TypeOK, WriterShape, WriterStep \/ Mqtt PROVE TypeOK' /\ WriterShape'
<1>1. CASE WriterStep
  <2>1. WriterTypeOK' /\ WriterShape'
    BY <1>1, WriterTypes DEF WriterStep, TypeOK
  <2>2. UNCHANGED <<hwVars, mainPc, rtAllowed, spoiled, stopSignal>>
    BY <1>1 DEF WriterStep, WriterNext, WriterBegin, OpenFiles, WriterTop, Reopen, ClearBreak,
                PushHistory, Rename, ResetBytes, WriterPop, WriterSync, WriteWhole, WriteChannel,
                CountBytes, CheckSize, shared, mainVars
  <2> QED
    BY <2>1, <2>2 DEF TypeOK, WriterTypeOK, hwVars, hwLocal, fpga, history
<1>2. CASE Mqtt
  BY <1>2 DEF Mqtt, SetWrite, TypeOK, WriterTypeOK, WriterShape, shared, hwVars, hwLocal, fpga,
              history, wNames, mainVars
<1> QED
  BY <1>1, <1>2

(***************************************************************************)
(* Taking from the front and adding at the end, element by element.        *)
(***************************************************************************)
\* What pop_front leaves.
LEMMA TailElements ==
    ASSUME NEW S, NEW q \in Seq(S), q # <<>>
    PROVE  /\ Tail(q) \in Seq(S) /\ Len(Tail(q)) = Len(q) - 1 /\ Len(q) \in Nat \ {0}
           /\ Head(q) = q[1]
           /\ \A i \in 1 .. Len(q) - 1 : Tail(q)[i] = q[i + 1] /\ i + 1 \in 1 .. Len(q)
OBVIOUS

\* What push adds.
LEMMA AppendElements ==
    ASSUME NEW S, NEW q \in Seq(S), NEW e \in S
    PROVE  /\ Append(q, e) \in Seq(S) /\ Len(Append(q, e)) = Len(q) + 1 /\ Len(q) \in Nat
           /\ Append(q, e)[Len(q) + 1] = e
           /\ \A i \in 1 .. Len(q) : Append(q, e)[i] = q[i]
OBVIOUS

(***************************************************************************)
(* The null that ends the writer.                                          *)
(***************************************************************************)
\* No step queues a buffer behind the null, or lets a thread run on past its join.
LEMMA NullStep ==
    ASSUME TypeOK, NullLast, [Next]_vars PROVE NullLast'
<1> USE NullAssumption
    DEF TypeOK, WriterTypeOK, NullLast, MainGoto, HWGoto, WGoto, shared, hwVars, wVars, mainVars
<1>1. CASE StartWriter \/ StartHW \/ Stop \/ DrainCheck \/ JoinHW \/ JoinWriter
  <2>1. CASE StartWriter \/ StartHW
    BY <2>1 DEF StartWriter, StartHW
  <2>2. CASE Stop \/ DrainCheck
    BY <2>2 DEF Stop, DrainCheck
  <2>3. CASE JoinHW
    BY <2>3 DEF JoinHW
  <2>4. CASE JoinWriter
    BY <2>4 DEF JoinWriter
  <2> QED
    BY <1>1, <2>1, <2>2, <2>3, <2>4
<1>2. CASE DrainPop
  BY <1>2 DEF DrainPop, PopFront
<1>3. CASE PushNull
  <2>1. dataQueue' = Append(dataQueue, NULL) /\ mainPc = "pushNull" /\ mainPc' = "joinWriter"
    BY <1>3 DEF PushNull, Push
  <2>2. \A i \in 1 .. Len(dataQueue') : dataQueue'[i] = NULL => i = Len(dataQueue')
    BY <2>1, SMTT(30)
  <2>3. hwPc' = "exited" /\ ~(wPc' = "exited" /\ rtAllowed')
    BY <1>3, <2>1 DEF PushNull
  <2> QED
    BY <2>1, <2>2, <2>3
<1>4. CASE HWStep /\ PushBuffer
  <2>1. /\ dataQueue' = Append(dataQueue, queueIndex) /\ queueIndex # NULL
        /\ mainPc \notin {"joinWriter", "stopped"}
    BY <1>4 DEF HWStep, PushBuffer, Push
  <2>2. \A i \in 1 .. Len(dataQueue') : dataQueue'[i] # NULL
    <3>1. dataQueue \in Seq(Slots \cup {NULL}) /\ queueIndex \in Slots \cup {NULL}
      OBVIOUS
    <3>2. \A i \in 1 .. Len(dataQueue) : dataQueue[i] # NULL
      BY <2>1
    <3>3. /\ Len(dataQueue') = Len(dataQueue) + 1 /\ Len(dataQueue) \in Nat
          /\ dataQueue'[Len(dataQueue) + 1] = queueIndex
          /\ \A i \in 1 .. Len(dataQueue) : dataQueue'[i] = dataQueue[i]
      BY <2>1, <3>1, AppendElements
    <3>4. \A i \in 1 .. Len(dataQueue) + 1 : i = Len(dataQueue) + 1 \/ i \in 1 .. Len(dataQueue)
      BY <3>3
    <3> QED
      BY <2>1, <3>2, <3>3, <3>4
  <2> QED
    BY <1>4, <2>1, <2>2 DEF HWStep, PushBuffer
<1>5. CASE HWStep /\ ~PushBuffer
  BY <1>5 DEF HWStep, HWNext, HWBegin, HWTop, Poll, PollAgain, AckOne, AckBoth, Ack,
     ResetDma, StartDma, DmaComplete, DmaFailed
<1>6. CASE Fpga
  BY <1>6 DEF Fpga, FpgaFill
<1>7. CASE WriterStep /\ WriterPop
  <2> DEFINE n == Len(dataQueue)
  <2>1. dataQueue # <<>> /\ dataQueue' = Tail(dataQueue) /\ dataQueue \in Seq(Slots \cup {NULL})
    BY <1>7 DEF WriterPop, PopFront
  <2>2. /\ Len(dataQueue') = n - 1 /\ n \in Nat \ {0} /\ Head(dataQueue) = dataQueue[1]
        /\ \A i \in 1 .. n - 1 : dataQueue'[i] = dataQueue[i + 1] /\ i + 1 \in 1 .. n
    BY <2>1, TailElements
  <2>3. dataQueue' \in Seq(Slots \cup {NULL})
    BY <2>1, TailElements
  <2>4. Head(dataQueue) = NULL => dataQueue' = <<>> /\ mainPc \in {"joinWriter", "stopped"}
    <3>1. 1 \in 1 .. n
      BY <2>2
    <3>2. Head(dataQueue) = NULL => Len(dataQueue') = 0 /\ mainPc \in {"joinWriter", "stopped"}
      BY <2>2, <3>1
    <3> QED
      BY <2>3, <3>2
  <2>5. wPc' = "exited" => Head(dataQueue) = NULL
    BY <1>7 DEF WriterPop
  <2>6. ASSUME NEW i \in 1 .. Len(dataQueue'), dataQueue'[i] = NULL
        PROVE  i = Len(dataQueue') /\ mainPc \in {"joinWriter", "stopped"}
    <3>1. i \in 1 .. n - 1 /\ i \in Nat
      BY <2>2
    <3>2. dataQueue[i + 1] = NULL /\ i + 1 \in 1 .. n
      BY <2>2, <2>6, <3>1
    <3>3. i + 1 = n /\ mainPc \in {"joinWriter", "stopped"}
      BY <3>2
    <3> QED
      BY <2>2, <3>1, <3>3
  <2>7. UNCHANGED <<mainPc, hwPc, rtAllowed>>
    BY <1>7 DEF WriterStep
  <2>8. wPc # "exited"
    BY <1>7 DEF WriterPop
  <2> QED
    BY <2>4, <2>5, <2>6, <2>7, <2>8
<1>8. CASE WriterStep /\ ~WriterPop
  BY <1>8 DEF WriterStep, WriterNext, WriterBegin, OpenFiles, WriterTop, Reopen, ClearBreak,
     PushHistory, Rename, ResetBytes, WriterSync, WriteWhole, WriteChannel, CountBytes, CheckSize
<1>9. CASE Mqtt
  BY <1>9 DEF Mqtt, SetWrite
<1>10. CASE UNCHANGED vars
  BY <1>10 DEF vars
<1> QED
  BY <1>1, <1>2, <1>3, <1>4, <1>5, <1>6, <1>7, <1>8, <1>9, <1>10 DEF Next, MainNext

(***************************************************************************)
(* The ring.                                                               *)
(***************************************************************************)

\* Taking a buffer off the front, by the writer or by Stop.
LEMMA RingPop ==
    ASSUME TypeOK, NullLast, RingShape, QueuedIntact, PopFront,
           UNCHANGED <<ddr, pushed, queueIndex, hwPc>>
    PROVE  RingShape' /\ QueuedIntact'
<1> DEFINE n == Len(dataQueue)
<1>1. dataQueue # <<>> /\ dataQueue' = Tail(dataQueue) /\ dataQueue \in Seq(Slots \cup {NULL})
  BY DEF PopFront, TypeOK, WriterTypeOK
<1>2. /\ Len(dataQueue') = n - 1 /\ n \in Nat \ {0}
      /\ \A i \in 1 .. n - 1 : dataQueue'[i] = dataQueue[i + 1] /\ i + 1 \in 1 .. n
      /\ dataQueue' \in Seq(Slots \cup {NULL})
  BY <1>1, TailElements
<1>3. DataLen \in 0 .. n /\ Len(pushed) \in Nat
  BY <1>2 DEF DataLen, TypeOK, WriterTypeOK
<1>4. CASE n = 1
  <2>1. Len(dataQueue') = 0 /\ dataQueue' = <<>>
    BY <1>2, <1>4
  <2>2. DataLen' = 0
    BY <2>1 DEF DataLen
  <2> QED
    BY <1>3, <2>1, <2>2, SizeAssumption DEF RingShape, QueuedIntact
<1>5. CASE n > 1
  <2>1. dataQueue'[n - 1] = dataQueue[n] /\ dataQueue' # <<>>
    BY <1>2, <1>5
  <2>2. DataLen' = DataLen - 1
    BY <1>1, <1>2, <1>5, <2>1 DEF DataLen
  <2>3. RingShape'
    BY <1>2, <1>3, <2>2, SizeAssumption DEF RingShape
  <2>4. ASSUME NEW i \in 1 .. DataLen'
        PROVE  /\ dataQueue'[i] = Behind(queueIndex', DataLen' + 1 - i)
               /\ ddr[dataQueue'[i]] = pushed[Len(pushed) - DataLen' + i]
    <3>1. i \in Nat /\ i \in 1 .. n - 1 /\ i + 1 \in 1 .. DataLen
      BY <1>2, <1>3, <2>2
    <3>2. dataQueue'[i] = dataQueue[i + 1]
      BY <1>2, <3>1
    <3>3. /\ dataQueue[i + 1] = Behind(queueIndex, DataLen + 1 - (i + 1))
          /\ ddr[dataQueue[i + 1]] = pushed[Len(pushed) - DataLen + (i + 1)]
      BY <3>1 DEF QueuedIntact
    <3>4. /\ DataLen + 1 - (i + 1) = DataLen' + 1 - i
          /\ Len(pushed) - DataLen + (i + 1) = Len(pushed) - DataLen' + i
      BY <1>3, <2>2, <3>1
    <3> QED
      BY <3>2, <3>3, <3>4
  <2> QED
    BY <2>3, <2>4 DEF QueuedIntact
<1> QED
  BY <1>2, <1>4, <1>5

\* Moving queueIndex on takes every place one further behind it.
LEMMA BehindNext ==
    ASSUME queueIndex \in Slots
    PROVE  /\ Behind(NextIndex, 1) = queueIndex
           /\ \A d \in 1 .. DDR_Q_SIZE - 1 : Behind(NextIndex, d + 1) = Behind(queueIndex, d)
BY SizeAssumption DEF Behind, NextIndex, Slots

\* A buffer less than a whole ring behind queueIndex is another one.
LEMMA BehindOther ==
    ASSUME queueIndex \in Slots, NEW d \in 1 .. DDR_Q_SIZE - 1
    PROVE  Behind(queueIndex, d) \in Slots /\ Behind(queueIndex, d) # queueIndex
BY SizeAssumption DEF Behind, Slots

\* While no null is queued every buffer in the queue holds data.
LEMMA AllData ==
    ASSUME TypeOK, NullLast, mainPc \notin {"joinWriter", "stopped"}
    PROVE  DataLen = Len(dataQueue) /\ \A i \in 1 .. Len(dataQueue) : dataQueue[i] # NULL
<1>1. \A i \in 1 .. Len(dataQueue) : dataQueue[i] # NULL
  BY DEF NullLast
<1>2. dataQueue # <<>> => Len(dataQueue) \in 1 .. Len(dataQueue)
  BY DEF TypeOK, WriterTypeOK
<1> QED
  BY <1>1, <1>2 DEF DataLen

\* The push of the buffer just filled, with queueIndex moved on, extends the ring.
LEMMA RingPush ==
    ASSUME TypeOK, NullLast, RingShape, QueuedIntact, HWStep, PushBuffer
    PROVE  RingShape' /\ QueuedIntact'
<1> DEFINE n == Len(dataQueue)
           k == Len(pushed)
<1>1. /\ dataQueue \in Seq(Slots \cup {NULL}) /\ queueIndex \in Slots
      /\ pushed \in Seq(Nat) /\ ddr[queueIndex] \in Nat
  BY DEF TypeOK, WriterTypeOK
<1>2. /\ dataQueue' = Append(dataQueue, queueIndex) /\ n < DDR_Q_SIZE
      /\ pushed' = Append(pushed, ddr[queueIndex]) /\ ddr' = ddr
      /\ queueIndex' = NextIndex /\ hwPc = "push" /\ hwPc' = "top"
  BY DEF PushBuffer, Push, HWGoto
<1>3. /\ Len(dataQueue') = n + 1 /\ n \in Nat /\ dataQueue'[n + 1] = queueIndex
      /\ \A i \in 1 .. n : dataQueue'[i] = dataQueue[i]
      /\ dataQueue' \in Seq(Slots \cup {NULL})
  BY <1>1, <1>2, AppendElements
<1>4. /\ Len(pushed') = k + 1 /\ k \in Nat /\ pushed'[k + 1] = ddr[queueIndex]
      /\ \A i \in 1 .. k : pushed'[i] = pushed[i]
  BY <1>1, <1>2, AppendElements
<1>5. DataLen = n
  BY <1>2, AllData DEF NullLast
<1>6. DataLen' = n + 1
  BY <1>1, <1>3, NullAssumption DEF DataLen
<1>7. RingShape'
  BY <1>2, <1>3, <1>4, <1>5, <1>6, SizeAssumption DEF RingShape
<1>8. n <= k
  BY <1>5 DEF RingShape
<1>9. ASSUME NEW i \in 1 .. n + 1
      PROVE  /\ dataQueue'[i] = Behind(NextIndex, n + 2 - i)
             /\ ddr[dataQueue'[i]] = pushed'[k - n + i]
  <2>1. CASE i = n + 1
    <3>1. n + 2 - i = 1 /\ k - n + i = k + 1
      BY <2>1, <1>3, <1>4
    <3>2. Behind(NextIndex, 1) = queueIndex
      BY <1>1, <1>2, BehindNext
    <3> QED
      BY <2>1, <3>1, <3>2, <1>3, <1>4
  <2>2. CASE i # n + 1
    <3>1. i \in 1 .. n /\ k - n + i \in 1 .. k /\ n + 1 - i \in 1 .. DDR_Q_SIZE - 1
      BY <2>2, <1>2, <1>3, <1>4, <1>8, SizeAssumption
    <3>2. dataQueue[i] = Behind(queueIndex, n + 1 - i) /\ ddr[dataQueue[i]] = pushed[k - n + i]
      BY <3>1, <1>5 DEF QueuedIntact
    <3>3. Behind(NextIndex, (n + 1 - i) + 1) = Behind(queueIndex, n + 1 - i)
      BY <1>1, <1>2, <3>1, BehindNext
    <3>4. (n + 1 - i) + 1 = n + 2 - i
      BY <3>1, <1>3
    <3> QED
      BY <3>1, <3>2, <3>3, <3>4, <1>3, <1>4
  <2> QED
    BY <2>1, <2>2
<1>10. ASSUME NEW i \in 1 .. DataLen'
       PROVE  /\ dataQueue'[i] = Behind(queueIndex', DataLen' + 1 - i)
              /\ ddr'[dataQueue'[i]] = pushed'[Len(pushed') - DataLen' + i]
  <2>1. /\ i \in 1 .. n + 1 /\ DataLen' + 1 - i = n + 2 - i
        /\ Len(pushed') - DataLen' + i = k - n + i
    BY <1>3, <1>4, <1>6
  <2> HIDE DEF n, k
  <2> QED
    BY <1>2, <1>9, <2>1
<1> QED
  BY <1>7, <1>10 DEF QueuedIntact

\* A transfer changes only the buffer queueIndex, and the queue holds no such buffer.
LEMMA RingDma ==
    ASSUME TypeOK, RingShape, QueuedIntact, Len(dataQueue) < DDR_Q_SIZE, NEW v,
           ddr' = [ddr EXCEPT ![queueIndex] = v],
           UNCHANGED <<dataQueue, pushed, queueIndex>>
    PROVE  RingShape' /\ QueuedIntact'
<1>1. DataLen' = DataLen /\ DataLen \in 0 .. Len(dataQueue)
  BY DEF DataLen, TypeOK, WriterTypeOK
<1>2. RingShape'
  BY <1>1 DEF RingShape
<1>3. ASSUME NEW i \in 1 .. DataLen PROVE ddr'[dataQueue[i]] = ddr[dataQueue[i]]
  <2>1. DataLen + 1 - i \in 1 .. DDR_Q_SIZE - 1 /\ queueIndex \in Slots
    BY <1>1, SizeAssumption DEF TypeOK, WriterTypeOK
  <2>2. dataQueue[i] \in Slots /\ dataQueue[i] # queueIndex
    BY <2>1, BehindOther DEF QueuedIntact
  <2> QED
    BY <2>2 DEF TypeOK, WriterTypeOK
<1> QED
  BY <1>1, <1>2, <1>3 DEF QueuedIntact

\* The null that Stop queues leaves the buffers before it where they are.
LEMMA RingNull ==
    ASSUME TypeOK, NullLast, RingShape, QueuedIntact, PushNull
    PROVE  RingShape' /\ QueuedIntact'
<1> DEFINE n == Len(dataQueue)
<1>1. /\ dataQueue' = Append(dataQueue, NULL) /\ n < DDR_Q_SIZE /\ mainPc = "pushNull"
      /\ UNCHANGED <<ddr, pushed, queueIndex, hwPc>>
  BY DEF PushNull, Push, MainGoto, hwVars, hwLocal, history
<1>2. dataQueue \in Seq(Slots \cup {NULL}) /\ NULL \in Slots \cup {NULL}
  BY DEF TypeOK, WriterTypeOK
<1>3. /\ Len(dataQueue') = n + 1 /\ n \in Nat /\ dataQueue'[n + 1] = NULL
      /\ \A i \in 1 .. n : dataQueue'[i] = dataQueue[i]
  BY <1>1, <1>2, AppendElements
<1>4. DataLen = n
  BY <1>1, AllData
<1>5. DataLen' = n
  <2>1. dataQueue' # <<>>
    BY <1>3
  <2> QED
    BY <1>3, <2>1 DEF DataLen
<1>6. hwPc = "exited"
  BY <1>1 DEF NullLast
<1>7. RingShape'
  BY <1>1, <1>3, <1>4, <1>5, <1>6, SizeAssumption DEF RingShape
<1> HIDE DEF n
<1> QED
  BY <1>1, <1>3, <1>4, <1>5, <1>7 DEF QueuedIntact

\* Every other step leaves the ring alone.
LEMMA RingSame ==
    ASSUME RingShape, QueuedIntact, UNCHANGED <<dataQueue, ddr, pushed, queueIndex>>,
           hwPc' \in {"dma", "push"} => hwPc \in {"dma", "push"}
    PROVE  RingShape' /\ QueuedIntact'
<1>1. DataLen' = DataLen
  BY DEF DataLen
<1> QED
  BY <1>1 DEF RingShape, QueuedIntact

\* The inductive step, one case per kind of step of the three threads.
LEMMA RingStep ==
    ASSUME RingInv, [Next]_vars PROVE RingInv'
<1> USE DEF RingInv
<1>1. TypeOK' /\ WriterShape'
  <2>1. CASE UNCHANGED vars
    BY <2>1 DEF vars, mainVars, shared, hwVars, hwLocal, fpga, history, wVars, wFlags, wNames, TypeOK, WriterTypeOK,
       WriterShape
  <2> QED
    BY <2>1, MainTypes, HWTypes, WriterStepTypes DEF Next
<1>2. NullLast'
  BY NullStep
<1>3. RingShape' /\ QueuedIntact'
  <2>1. CASE DrainPop
    BY <2>1, RingPop DEF DrainPop, hwVars, hwLocal, history
  <2>2. CASE WriterStep /\ WriterPop
    BY <2>2, RingPop DEF WriterStep, WriterPop, hwVars, hwLocal, history
  <2>3. CASE PushNull
    BY <2>3, RingNull
  <2>4. CASE HWStep /\ PushBuffer
    BY <2>4, RingPush
  <2>5. CASE HWStep /\ StartDma
    <3>1. Len(dataQueue) < DDR_Q_SIZE
      BY <2>5, SizeAssumption DEF StartDma, RingShape, TypeOK, WriterTypeOK
    <3> QED
      BY <2>5, <3>1, RingDma DEF StartDma, hwLocal, history
  <2>6. CASE HWStep /\ DmaComplete
    <3>1. Len(dataQueue) < DDR_Q_SIZE
      BY <2>6 DEF DmaComplete, HWGoto, RingShape
    <3> QED
      BY <2>6, <3>1, RingDma DEF DmaComplete, hwLocal, history
  <2>7. CASE HWStep /\ ~(PushBuffer \/ StartDma \/ DmaComplete)
    <3>1. UNCHANGED <<dataQueue, ddr, pushed, queueIndex>> /\ hwPc' \notin {"dma", "push"}
      BY <2>7 DEF HWStep, HWNext, HWBegin, HWTop, Poll, PollAgain, AckOne, AckBoth, Ack,
         ResetDma, DmaFailed, HWGoto, shared, hwLocal, history
    <3> QED
      BY <3>1, RingSame
  <2>8. CASE WriterStep /\ ~WriterPop
    <3>1. UNCHANGED shared
      BY <2>8 DEF WriterStep, WriterNext, WriterBegin, OpenFiles, WriterTop, Reopen,
         ClearBreak, PushHistory, Rename, ResetBytes, WriterSync, WriteWhole, WriteChannel,
         CountBytes, CheckSize
    <3> QED
      BY <2>8, <3>1, RingSame DEF WriterStep, shared, hwVars, hwLocal, history
  <2>9. CASE StartWriter \/ StartHW \/ Stop \/ DrainCheck \/ JoinHW \/ JoinWriter
    <3>1. UNCHANGED <<dataQueue, ddr, pushed, queueIndex>>
          /\ (hwPc' \in {"dma", "push"} => hwPc \in {"dma", "push"})
      BY <2>9 DEF StartWriter, StartHW, Stop, DrainCheck, JoinHW, JoinWriter, HWGoto, shared,
         hwVars, hwLocal, history
    <3> QED
      BY <3>1, RingSame
  <2>10. CASE Fpga
    BY <2>10, RingSame DEF Fpga, FpgaFill, shared, hwLocal
  <2>11. CASE Mqtt \/ UNCHANGED vars
    BY <2>11, RingSame DEF Mqtt, SetWrite, vars, shared, hwVars, hwLocal, history
  <2> QED
    BY <2>1, <2>2, <2>3, <2>4, <2>5, <2>6, <2>7, <2>8, <2>9, <2>10, <2>11 DEF Next, MainNext
<1> QED
  BY <1>1, <1>2, <1>3

(***************************************************************************)
(* How the data in the queue moves.                                        *)
(***************************************************************************)
\* HWThread's push.
LEMMA DataPush ==
    ASSUME RingInv, HWStep, PushBuffer
    PROVE  /\ DataLen = Len(dataQueue) /\ DataLen \in Nat /\ DataLen' = DataLen + 1
           /\ \A i \in 1 .. DataLen : dataQueue'[i] = dataQueue[i]
           /\ dataQueue'[DataLen + 1] = queueIndex
           /\ Len(pushed) \in Nat /\ Len(pushed') = Len(pushed) + 1
           /\ \A i \in 1 .. Len(pushed) : pushed'[i] = pushed[i]
<1> USE DEF RingInv
<1>1. /\ dataQueue' = Append(dataQueue, queueIndex) /\ pushed' = Append(pushed, ddr[queueIndex])
      /\ hwPc = "push" /\ mainPc' = mainPc
  BY DEF HWStep, PushBuffer, Push, HWGoto
<1>2. /\ dataQueue \in Seq(Slots \cup {NULL}) /\ queueIndex \in Slots /\ pushed \in Seq(Nat)
      /\ ddr[queueIndex] \in Nat
  BY DEF TypeOK, WriterTypeOK
<1>3. /\ Len(dataQueue') = Len(dataQueue) + 1 /\ Len(dataQueue) \in Nat
      /\ \A i \in 1 .. Len(dataQueue) : dataQueue'[i] = dataQueue[i]
      /\ dataQueue'[Len(dataQueue) + 1] = queueIndex
  BY <1>1, <1>2, AppendElements
<1>4. /\ Len(pushed') = Len(pushed) + 1 /\ Len(pushed) \in Nat
      /\ \A i \in 1 .. Len(pushed) : pushed'[i] = pushed[i]
  BY <1>1, <1>2, AppendElements
<1>5. DataLen = Len(dataQueue)
  BY <1>1, AllData DEF NullLast
<1>6. DataLen' = Len(dataQueue')
  BY <1>2, <1>3, NullAssumption DEF DataLen
<1> QED
  BY <1>3, <1>4, <1>5, <1>6

\* A buffer of data taken off the front, by the writer or by Stop.
LEMMA DataPop ==
    ASSUME RingInv, PopFront, Head(dataQueue) # NULL
    PROVE  /\ DataLen \in Nat \ {0} /\ DataLen' = DataLen - 1
           /\ Head(dataQueue) = dataQueue[1]
           /\ \A i \in 1 .. DataLen - 1 : dataQueue'[i] = dataQueue[i + 1]
<1> DEFINE n == Len(dataQueue)
<1>1. /\ dataQueue # <<>> /\ dataQueue' = Tail(dataQueue)
      /\ dataQueue \in Seq(Slots \cup {NULL})
  BY DEF PopFront, RingInv, TypeOK, WriterTypeOK
<1>2. /\ Len(dataQueue') = n - 1 /\ n \in Nat \ {0} /\ Head(dataQueue) = dataQueue[1]
      /\ \A i \in 1 .. n - 1 : dataQueue'[i] = dataQueue[i + 1]
      /\ dataQueue' \in Seq(Slots \cup {NULL})
  BY <1>1, TailElements
<1>3. CASE n = 1
  <2>1. DataLen = 1
    BY <1>1, <1>2, <1>3 DEF DataLen
  <2>2. DataLen' = 0
    BY <1>2, <1>3 DEF DataLen
  <2> QED
    BY <1>2, <2>1, <2>2
<1>4. CASE n > 1
  <2>1. dataQueue'[n - 1] = dataQueue[n] /\ dataQueue' # <<>>
    BY <1>2, <1>4
  <2>2. DataLen' = DataLen - 1 /\ DataLen \in 1 .. n
    BY <1>1, <1>2, <1>4, <2>1 DEF DataLen
  <2> QED
    BY <1>2, <2>2
<1> QED
  BY <1>2, <1>3, <1>4

\* The null taken off the front, by the writer: it was all that was left.
LEMMA NullPop ==
    ASSUME RingInv, PopFront, Head(dataQueue) = NULL PROVE DataLen = 0 /\ DataLen' = 0
<1>1. /\ dataQueue # <<>> /\ dataQueue' = Tail(dataQueue)
      /\ dataQueue \in Seq(Slots \cup {NULL})
  BY DEF PopFront, RingInv, TypeOK, WriterTypeOK
<1>2. /\ Len(dataQueue') = Len(dataQueue) - 1 /\ Len(dataQueue) \in Nat \ {0}
      /\ Head(dataQueue) = dataQueue[1] /\ dataQueue' \in Seq(Slots \cup {NULL})
  BY <1>1, TailElements
<1>3. Len(dataQueue) = 1
  BY <1>2 DEF RingInv, NullLast
<1>4. dataQueue' = <<>>
  BY <1>2, <1>3
<1> QED
  BY <1>1, <1>2, <1>3, <1>4 DEF DataLen

\* Stop's push of the null.
LEMMA NullPush ==
    ASSUME RingInv, PushNull
    PROVE  DataLen' = DataLen /\ \A i \in 1 .. DataLen : dataQueue'[i] = dataQueue[i]
<1>1. mainPc = "pushNull" /\ dataQueue' = Append(dataQueue, NULL)
  BY DEF PushNull, Push, MainGoto
<1>2. dataQueue \in Seq(Slots \cup {NULL})
  BY DEF RingInv, TypeOK, WriterTypeOK
<1>3. /\ Len(dataQueue') = Len(dataQueue) + 1 /\ Len(dataQueue) \in Nat
      /\ dataQueue'[Len(dataQueue) + 1] = NULL
      /\ \A i \in 1 .. Len(dataQueue) : dataQueue'[i] = dataQueue[i]
  BY <1>1, <1>2, AppendElements
<1>4. DataLen = Len(dataQueue)
  BY <1>1, AllData DEF RingInv
<1>5. dataQueue' # <<>>
  BY <1>3
<1> QED
  BY <1>3, <1>4, <1>5 DEF DataLen

\* While Stop drains the queue there is no null in it.
LEMMA DrainData == ASSUME RingInv, DrainPop PROVE PopFront /\ Head(dataQueue) # NULL
<1>1. mainPc = "drainPop" /\ PopFront /\ dataQueue # <<>>
  BY DEF DrainPop, MainGoto, PopFront
<1>2. Head(dataQueue) = dataQueue[1] /\ 1 \in 1 .. Len(dataQueue)
  BY <1>1, TailElements DEF RingInv, TypeOK, WriterTypeOK
<1> QED
  BY <1>1, <1>2, AllData DEF RingInv

\* What the writer's steps other than pop_front leave alone.
LEMMA WriterKeeps ==
    ASSUME WriterStep, ~WriterPop
    PROVE  UNCHANGED <<dataQueue, nextData, ddr>> /\ (Copying' => Copying)
BY DEF WriterStep, WriterNext, WriterBegin, OpenFiles, WriterTop, Reopen, ClearBreak, PushHistory,
       Rename, ResetBytes, WriterSync, WriteWhole, WriteChannel, CountBytes, CheckSize, WGoto,
       shared, Copying

\* Every other step leaves the queue and what was pushed alone.
LEMMA QueueStays ==
    ASSUME [Next]_vars, ~(HWStep /\ PushBuffer), ~DrainPop, ~PushNull, ~(WriterStep /\ WriterPop)
    PROVE  UNCHANGED <<dataQueue, pushed>> /\ DataLen' = DataLen
<1>1. UNCHANGED <<dataQueue, pushed>>
  <2>1. CASE HWStep
    BY <2>1 DEF HWStep, HWNext, HWBegin, HWTop, Poll, PollAgain, AckOne, AckBoth, Ack,
                ResetDma, StartDma, DmaComplete, DmaFailed, shared, history
  <2>2. CASE WriterStep
    BY <2>2, WriterKeeps DEF WriterStep, hwVars, history
  <2>3. CASE Fpga \/ Mqtt \/ UNCHANGED vars
    BY <2>3 DEF Fpga, FpgaFill, Mqtt, SetWrite, vars, hwVars, shared, history
  <2>4. CASE StartWriter \/ StartHW \/ Stop \/ DrainCheck \/ JoinHW \/ JoinWriter
    BY <2>4 DEF StartWriter, StartHW, Stop, DrainCheck, JoinHW, JoinWriter, hwVars, shared, history
  <2> QED
    BY <2>1, <2>2, <2>3, <2>4 DEF Next, MainNext
<1> QED
  BY <1>1 DEF DataLen

\* The ring's invariant holds when HardwareManager has been constructed.
LEMMA RingInit == Init => RingInv
<1> SUFFICES ASSUME Init PROVE RingInv
  OBVIOUS
<1> USE SizeAssumption, ManagerAssumption, WriterAssumption
    DEF Init, SharedInit, HWInit, WriterInit
<1>1. TypeOK
  <2>1. 0 \in Slots /\ ddr \in [Slots -> Nat] /\ bram \in [{0, 1} -> Nat]
    BY DEF Slots, Mixed
  <2>2. files \in [Channels -> Seq(Seq(Nat))] /\ fileHistory \in Seq(Nat)
    OBVIOUS
  <2>3. chan \in 0 .. NumOutFiles /\ bytesWritten \in 0 .. MaxFileBlocks /\ fileNo \in Nat \ {0}
    OBVIOUS
  <2>4. dataQueue \in Seq(Slots \cup {NULL}) /\ pushed \in Seq(Nat)
    OBVIOUS
  <2> QED
    BY <2>1, <2>2, <2>3, <2>4 DEF TypeOK, WriterTypeOK, MainLabels, HWLabels, WLabels
<1>2. NullLast
  BY DEF NullLast
<1>3. DataLen = 0
  BY DEF DataLen
<1>4. RingShape /\ QueuedIntact
  BY <1>3 DEF RingShape, QueuedIntact
<1>5. WriterShape
  BY DEF WriterShape
<1> QED
  BY <1>1, <1>2, <1>4, <1>5 DEF RingInv

\* Every reachable state satisfies the inductive invariant: types, the null last, the
\* buffers of the queue the last ones filled in ring order (HWThread, Stop, pop_front).
THEOREM RingCorrect == SafeSpec => []RingInv
BY RingInit, RingStep, PTL DEF SafeSpec

\* Each variable of the shared state and of the threads keeps its type.
THEOREM TypesCorrect == SafeSpec => []TypeOK
<1>1. RingInv => TypeOK
  BY DEF RingInv
<1> QED
  BY <1>1, RingCorrect, PTL

\* A buffer queued by HWThread holds, until it is taken, the block it was queued with.
THEOREM BuffersIntact == SafeSpec => []QueuedIntact
<1>1. RingInv => QueuedIntact
  BY DEF RingInv
<1> QED
  BY <1>1, RingCorrect, PTL

\* Behind the buffers of the queue there is always one free that the ring comes to next.
LEMMA TargetFree == RingInv => DmaTargetFree
<1> SUFFICES ASSUME RingInv, hwPc \in {"dma", "push"}, NEW i \in 1 .. Len(dataQueue)
             PROVE  dataQueue[i] # queueIndex
  BY DEF DmaTargetFree
<1>1. Len(dataQueue) < DDR_Q_SIZE /\ queueIndex \in Slots
  BY DEF RingInv, RingShape, TypeOK, WriterTypeOK
<1>2. DataLen = Len(dataQueue)
  BY AllData DEF RingInv, NullLast
<1>3. DataLen + 1 - i \in 1 .. DDR_Q_SIZE - 1
  BY <1>1, <1>2, SizeAssumption DEF RingInv, TypeOK, WriterTypeOK
<1> QED
  BY <1>1, <1>2, <1>3, BehindOther DEF RingInv, QueuedIntact

\* The DMA transfer's target is never a buffer that waits in m_dataQueue.
THEOREM TargetNeverQueued == SafeSpec => []DmaTargetFree
BY TargetFree, RingCorrect, PTL

\* When Stop returns both threads have ended and the queue is empty.
THEOREM StopLeavesNothing == SafeSpec => []StoppedIsClean
<1>1. RingInv => StoppedIsClean
  BY DEF RingInv, NullLast, StoppedIsClean
<1> QED
  BY <1>1, RingCorrect, PTL

(***************************************************************************)
(* Stop's waits.                                                           *)
(***************************************************************************)
\* Which threads run, and on what: both only with the priority they ask for, the writer
\* until the null that Stop has queued.
StopShape ==
    /\ hwPc \notin {"unstarted", "start", "exited"} => rtAllowed
    /\ wPc \notin {"unstarted", "start", "exited"} => rtAllowed
    /\ wPc = "unstarted" => mainPc = "start"
    /\ hwPc = "unstarted" => mainPc \in {"start", "started"}
    /\ mainPc \notin {"joinWriter", "stopped"} /\ ~rtAllowed => dataQueue = <<>>
    /\ mainPc = "joinWriter" /\ wPc # "exited" =>
           dataQueue # <<>> /\ dataQueue[Len(dataQueue)] = NULL

LEMMA StopShapeStep ==
    ASSUME TypeOK, NullLast, StopShape, [Next]_vars PROVE StopShape'
<1> USE DEF StopShape, MainGoto, HWGoto, WGoto, shared, hwVars, wVars, mainVars
<1>1. CASE StartWriter \/ StartHW \/ Stop \/ DrainCheck \/ DrainPop \/ JoinHW \/ JoinWriter
  <2>1. CASE StartWriter \/ StartHW
    BY <2>1 DEF StartWriter, StartHW, NullLast
  <2>2. CASE Stop \/ DrainCheck \/ DrainPop
    BY <2>2 DEF Stop, DrainCheck, DrainPop, PopFront
  <2>3. CASE JoinHW
    BY <2>3 DEF JoinHW
  <2>4. CASE JoinWriter
    BY <2>4 DEF JoinWriter
  <2> QED
    BY <1>1, <2>1, <2>2, <2>3, <2>4
<1>2. CASE PushNull
  <2>1. dataQueue' = Append(dataQueue, NULL) /\ dataQueue \in Seq(Slots \cup {NULL})
    BY <1>2 DEF PushNull, Push, TypeOK, WriterTypeOK
  <2>2. dataQueue' # <<>> /\ dataQueue'[Len(dataQueue')] = NULL
    BY <2>1
  <2> QED
    BY <1>2, <2>2 DEF PushNull
<1>3. CASE HWStep
  <2>1. mainPc' = mainPc /\ wPc' = wPc /\ rtAllowed' = rtAllowed
    BY <1>3 DEF HWStep
  <2>2. /\ hwPc # "unstarted" /\ hwPc' # "unstarted"
        /\ hwPc' \notin {"start", "exited"} => rtAllowed
    BY <1>3 DEF HWStep, HWNext, HWBegin, HWTop, Poll, PollAgain, AckOne, AckBoth, Ack, ResetDma,
                StartDma, DmaComplete, DmaFailed, PushBuffer
  <2>3. CASE PushBuffer
    <3>1. rtAllowed /\ mainPc # "joinWriter"
      BY <2>3 DEF PushBuffer, NullLast
    <3> QED
      BY <2>1, <2>2, <3>1
  <2>4. CASE ~PushBuffer
    <3>1. dataQueue' = dataQueue
      BY <1>3, <2>4 DEF HWStep, HWNext, HWBegin, HWTop, Poll, PollAgain, AckOne, AckBoth, Ack,
                        ResetDma, StartDma, DmaComplete, DmaFailed
    <3> QED
      BY <2>1, <2>2, <3>1
  <2> QED
    BY <2>3, <2>4
<1>4. CASE WriterStep
  <2>1. mainPc' = mainPc /\ hwPc' = hwPc /\ rtAllowed' = rtAllowed
    BY <1>4 DEF WriterStep
  <2>2. /\ wPc \notin {"unstarted", "exited"} /\ wPc' # "unstarted"
        /\ wPc' \notin {"start", "exited"} => rtAllowed
    BY <1>4 DEF WriterStep, WriterNext, WriterBegin, OpenFiles, WriterTop, Reopen, ClearBreak,
                PushHistory, Rename, ResetBytes, WriterPop, WriterSync, WriteWhole, WriteChannel,
                CountBytes, CheckSize
  <2>3. CASE WriterPop
    <3> DEFINE n == Len(dataQueue)
    <3>1. /\ dataQueue # <<>> /\ dataQueue' = Tail(dataQueue) /\ wPc = "pop"
          /\ wPc' = (IF Head(dataQueue) = NULL THEN "exited" ELSE "popped")
      BY <2>3 DEF WriterPop, PopFront
    <3>2. /\ Len(dataQueue') = n - 1 /\ n \in Nat \ {0} /\ Head(dataQueue) = dataQueue[1]
          /\ \A i \in 1 .. n - 1 : dataQueue'[i] = dataQueue[i + 1]
      BY <3>1, TailElements DEF TypeOK, WriterTypeOK
    <3>3. ASSUME mainPc = "joinWriter", wPc' # "exited"
          PROVE  dataQueue' # <<>> /\ dataQueue'[Len(dataQueue')] = NULL
      <4>1. dataQueue[n] = NULL /\ dataQueue[1] # NULL
        BY <3>1, <3>2, <3>3
      <4>2. n > 1
        BY <3>2, <4>1
      <4>3. Len(dataQueue') > 0 /\ dataQueue'[n - 1] = dataQueue[n]
        BY <3>2, <4>2
      <4> QED
        BY <3>2, <4>1, <4>3
    <3>4. rtAllowed
      BY <3>1
    <3> QED
      BY <2>1, <2>2, <3>1, <3>3, <3>4
  <2>4. CASE ~WriterPop
    <3>1. dataQueue' = dataQueue
      BY <1>4, <2>4 DEF WriterStep, WriterNext, WriterBegin, OpenFiles, WriterTop, Reopen,
                ClearBreak, PushHistory, Rename, ResetBytes, WriterSync, WriteWhole, WriteChannel,
                CountBytes, CheckSize
    <3> QED
      BY <2>1, <2>2, <3>1
  <2> QED
    BY <2>3, <2>4
<1>5. CASE Fpga \/ Mqtt
  BY <1>5 DEF Fpga, FpgaFill, Mqtt, SetWrite
<1>6. CASE UNCHANGED vars
  BY <1>6 DEF vars
<1> QED
  BY <1>1, <1>2, <1>3, <1>4, <1>5, <1>6 DEF Next, MainNext

\* While Stop waits for HWThread, for room for its null, or for the writer, it has what it
\* waits for or one of the two can go on, whatever the size of the queue.
THEOREM StopIsNeverStuck == SafeSpec => []StopNeverStuck
<1>1. Init => StopShape
  BY DEF Init, SharedInit, HWInit, WriterInit, StopShape
<1>2. RingInv /\ StopShape /\ [Next]_vars => StopShape'
  BY StopShapeStep DEF RingInv
<1>3. ASSUME RingInv, StopShape PROVE StopNeverStuck
  <2> USE <1>3 DEF RingInv, NullLast, RingShape, StopShape, WriterCanStep
  <2>1. /\ dataQueue \in Seq(Slots \cup {NULL}) /\ Len(dataQueue) <= DDR_Q_SIZE
        /\ DDR_Q_SIZE \in Nat \ {0}
    BY SizeAssumption DEF TypeOK, WriterTypeOK
  <2>2. ~(Len(dataQueue) < DDR_Q_SIZE) /\ mainPc \in {"joinHW", "pushNull"} => WriterCanStep
    <3> SUFFICES ASSUME ~(Len(dataQueue) < DDR_Q_SIZE), mainPc \in {"joinHW", "pushNull"}
                 PROVE  WriterCanStep
      OBVIOUS
    <3>1. dataQueue # <<>>
      BY <2>1
    <3> QED
      BY <3>1
  <2>3. mainPc = "joinHW" => hwPc = "exited" \/ HWCanStep \/ WriterCanStep
    BY <2>2 DEF HWCanStep
  <2>4. mainPc = "joinWriter" => wPc = "exited" \/ WriterCanStep
    OBVIOUS
  <2> QED
    BY <2>2, <2>3, <2>4 DEF StopNeverStuck
<1> QED
  BY <1>1, <1>2, <1>3, RingInit, RingStep, PTL DEF SafeSpec
=============================================================================
