--------------------------- MODULE RecordingProofs ---------------------------
(***************************************************************************)
(* For any number of channels and files of any size: where the blocks of   *)
(* the recording are while WriterThread breaks files, that none is written *)
(* twice or forgotten between HWThread's push and the files, and that the  *)
(* blocks HWThread misses are counted; that what is on file is in order    *)
(* and alike in all channels; and that the whole implements Recorder.      *)
(***************************************************************************)
EXTENDS HardwareManagerProofs, FiniteSetTheorems, SequenceTheorems

LEMMA FileInit == Init => FileInv
  BY WriterStarts DEF Init

LEMMA FileStep ==
    ASSUME RingInv, FileInv, [Next]_vars PROVE FileInv'
<1>1. CASE WriterStep
  BY <1>1, NamesStep, FilesStep DEF FileInv, RingInv, TypeOK, WriterStep
<1>2. CASE StartWriter
  <2>1. wPc = "unstarted" /\ wPc' = "start" /\ UNCHANGED <<files, wNames>>
    BY <1>2 DEF StartWriter, WGoto
  <2> QED
    BY <2>1 DEF FileInv, NamesShape, FilesShape, BreakShape, Unopened, Opened, wNames
<1>3. CASE ~WriterStep /\ ~StartWriter
  <2>1. UNCHANGED <<wPc, files, chan, bytesWritten, breakFileSignal, wNames>>
    BY <1>3 DEF Next, MainNext, StartHW, Stop, DrainCheck, DrainPop, JoinHW, PushNull, JoinWriter,
                HWStep, Fpga, Mqtt, SetWrite, vars, wVars, wFlags
  <2> QED
    BY <2>1, FilesFrame
<1> QED
  BY <1>1, <1>2, <1>3

\* At the top of WriterThread's loop and before each pop_front every file but the last is
\* full, the last holds m_bytesWritten, and the names and the history are those of the files.
THEOREM FilesAreAligned == SafeSpec => []FilesAligned
<1>1. ASSUME RingInv, FileInv PROVE FilesAligned
  <2> USE <1>1
  <2> SUFFICES ASSUME wPc \in {"top", "pop", "popped", "checkSize"}
               PROVE  /\ \A c \in Recorded : FullFiles(c) /\ Len(LastFile(c)) = bytesWritten
                      /\ \A c \in Channels : Len(files[c]) = currIFFilename + 1
                      /\ fileNo = currIFFilename + 1
                      /\ fileHistory = [i \in 1 .. currIFFilename |-> i - 1]
    BY DEF FilesAligned, FullFiles
  <2>1. Opened
    BY DEF Opened
  <2>2. \A c \in Channels : Opening(c) = 0 /\ InLast(c) = bytesWritten
    BY DEF Opening, InLast
  <2>3. fileNo = currIFFilename + 1 /\ fileHistory = [i \in 1 .. currIFFilename |-> i - 1]
    BY <2>1 DEF FileInv, NamesShape
  <2>4. Recorded \subseteq Channels /\ currIFFilename \in Nat
    BY WriterAssumption DEF Recorded, Channels, RingInv, TypeOK, WriterTypeOK
  <2> QED
    BY <2>1, <2>2, <2>3, <2>4 DEF FileInv, FilesShape
<1> QED
  BY <1>1, RingInit, RingStep, FileInit, FileStep, PTL DEF SafeSpec

-----------------------------------------------------------------------------
(* Where the blocks are.                                                   *)

\* A place in a sequence of sequences is a pair of numbers.
LEMMA PlacesAreNumbers ==
    ASSUME NEW s \in Seq(Seq(Nat)), NEW i \in DOMAIN s, NEW j \in DOMAIN s[i]
    PROVE  i \in Nat /\ j \in Nat
<1>1. i \in Nat /\ s[i] \in Seq(Nat)
  OBVIOUS
<1>2. j \in Nat
  BY <1>1
<1> QED
  BY <1>1, <1>2

\* The files of a channel hold sequences of blocks.
LEMMA FilesTyped ==
    ASSUME RingInv, NEW c \in Recorded
    PROVE  c \in Channels /\ files[c] \in Seq(Seq(Nat))
<1>1. c \in Channels
  BY WriterAssumption DEF Recorded, Channels
<1>2. files \in [Channels -> Seq(Seq(Nat))]
  BY DEF RingInv, TypeOK, WriterTypeOK
<1> QED
  BY <1>1, <1>2

\* The blocks of a channel, by the number of its files and what is in the last.
LEMMA BlocksAre ==
    ASSUME RingInv, FileInv, Opened, NEW c \in Recorded
    PROVE  /\ c \in Channels /\ Len(files[c]) \in Nat \ {0} /\ InLast(c) \in Nat
           /\ Blocks(c) = (Len(files[c]) - 1) * MaxFileBlocks + InLast(c)
<1>1. c \in Channels /\ MaxFileBlocks \in Nat
  BY WriterAssumption DEF Recorded, Channels
<1>2. files[c] \in Seq(Seq(Nat)) /\ files[c] # <<>> /\ bytesWritten \in Nat
  BY <1>1 DEF RingInv, TypeOK, WriterTypeOK, WriterShape, Opened
<1>3. InLast(c) \in Nat
  BY <1>1, <1>2 DEF InLast
<1>4. Len(LastFile(c)) = InLast(c)
  BY DEF FileInv, FilesShape
<1> QED
  BY <1>1, <1>2, <1>3, <1>4 DEF Blocks

\* What is counted are numbers.
LEMMA Counts ==
    ASSUME RingInv, FileInv, NEW c \in Recorded
    PROVE  /\ Len(pushed) \in Nat /\ dropped \in Nat /\ DataLen \in Nat /\ Held(c) \in Nat
           /\ Blocks(c) \in Nat
<1>1. c \in Channels /\ MaxFileBlocks \in Nat \ {0}
  BY WriterAssumption DEF Recorded, Channels
<1>2. /\ files[c] \in Seq(Seq(Nat)) /\ pushed \in Seq(Nat) /\ dropped \in Nat
      /\ dataQueue \in Seq(Slots \cup {NULL})
  BY <1>1 DEF RingInv, TypeOK, WriterTypeOK
<1>3. DataLen \in Nat /\ Held(c) \in Nat
  BY <1>2 DEF DataLen, Held
<1>4. Blocks(c) \in Nat
  <2>1. CASE files[c] = <<>>
    BY <2>1 DEF Blocks
  <2>2. CASE files[c] # <<>>
    <3>1. Len(files[c]) - 1 \in Nat /\ Len(LastFile(c)) \in Nat /\ MaxFileBlocks \in Nat
      BY <1>1, <1>2, <2>2 DEF LastFile
    <3>2. (Len(files[c]) - 1) * MaxFileBlocks \in Nat
      BY <3>1
    <3> QED
      BY <2>2, <3>1, <3>2 DEF Blocks
  <2> QED
    BY <2>1, <2>2
<1> QED
  BY <1>2, <1>3, <1>4

LEMMA CountsNext ==
    ASSUME RingInv', FileInv', NEW c \in Recorded PROVE Blocks(c)' \in Nat /\ dropped' \in Nat
<1>1. c \in Channels /\ MaxFileBlocks \in Nat \ {0}
  BY WriterAssumption DEF Recorded, Channels
<1>2. files'[c] \in Seq(Seq(Nat)) /\ dropped' \in Nat
  BY <1>1 DEF RingInv, TypeOK, WriterTypeOK
<1>3. CASE files'[c] = <<>>
  BY <1>2, <1>3 DEF Blocks
<1>4. CASE files'[c] # <<>>
  <2>1. Len(files'[c]) - 1 \in Nat /\ Len(LastFile(c)') \in Nat /\ MaxFileBlocks \in Nat
    BY <1>1, <1>2, <1>4 DEF LastFile
  <2>2. (Len(files'[c]) - 1) * MaxFileBlocks \in Nat
    BY <2>1
  <2> QED
    BY <1>2, <1>4, <2>1, <2>2 DEF Blocks
<1> QED
  BY <1>3, <1>4

\* HWThread and Stop: a buffer pushed is in the queue, one taken by Stop is dropped.
LEMMA ConservedByOthers ==
    ASSUME RingInv, FileInv, RingInv', BlocksConserved, [Next]_vars, ~WriterStep
    PROVE  BlocksConserved'
<1> SUFFICES ASSUME NEW c \in Recorded
             PROVE  Len(pushed') = DataLen' + Held(c)' + Blocks(c)' + dropped'
  BY DEF BlocksConserved
<1> USE DEF RingInv
<1>0. Len(pushed) = DataLen + Held(c) + Blocks(c) + dropped
  BY DEF BlocksConserved
<1>1. /\ Len(pushed) \in Nat /\ dropped \in Nat /\ DataLen \in Nat /\ Held(c) \in Nat
      /\ Blocks(c) \in Nat
  BY Counts
<1>2. CASE HWStep /\ PushBuffer
  <2>1. UNCHANGED <<wPc, chan, files, dropped>>
    BY <1>2 DEF HWStep, wVars
  <2>2. Held(c)' = Held(c) /\ Blocks(c)' = Blocks(c)
    BY <2>1 DEF Held, Blocks, LastFile
  <2>3. Len(pushed') = Len(pushed) + 1 /\ DataLen' = DataLen + 1
    BY <1>2, DataPush
  <2> QED
    BY <1>0, <1>1, <2>1, <2>2, <2>3
<1>3. CASE DrainPop
  <2>1. dropped' = dropped + 1 /\ UNCHANGED <<pushed, wPc, chan, files>>
    BY <1>3 DEF DrainPop, hwVars, history
  <2>2. Held(c)' = Held(c) /\ Blocks(c)' = Blocks(c)
    BY <2>1 DEF Held, Blocks, LastFile
  <2>3. DataLen' = DataLen - 1
    BY <1>3, DrainData, DataPop
  <2> QED
    BY <1>0, <1>1, <2>1, <2>2, <2>3
<1>4. CASE PushNull
  <2>1. UNCHANGED <<pushed, wPc, chan, files, dropped>>
    BY <1>4 DEF PushNull, hwVars, history, wVars
  <2>2. Held(c)' = Held(c) /\ Blocks(c)' = Blocks(c)
    BY <2>1 DEF Held, Blocks, LastFile
  <2>3. DataLen' = DataLen
    BY <1>4, NullPush
  <2> QED
    BY <1>0, <1>1, <2>1, <2>2, <2>3
<1>5. CASE StartWriter
  <2>1. /\ wPc = "unstarted" /\ wPc' = "start" /\ UNCHANGED <<pushed, dataQueue, files, dropped>>
    BY <1>5 DEF StartWriter, WGoto, hwVars, history, shared
  <2>2. DataLen' = DataLen /\ Held(c) = 0 /\ Held(c)' = 0 /\ Blocks(c)' = Blocks(c)
    BY <2>1 DEF DataLen, Held, Blocks, LastFile
  <2> QED
    BY <1>0, <2>1, <2>2
<1>6. CASE ~(HWStep /\ PushBuffer) /\ ~DrainPop /\ ~PushNull /\ ~StartWriter
  <2>1. UNCHANGED <<pushed, dataQueue, wPc, chan, files, dropped>>
    <3>1. CASE HWStep
      BY <1>6, <3>1 DEF HWStep, HWNext, HWBegin, HWTop, Poll, PollAgain, AckOne, AckBoth, Ack,
                  ResetDma, StartDma, DmaComplete, DmaFailed, wVars, shared, history
    <3>2. CASE Fpga \/ Mqtt \/ UNCHANGED vars
      BY <3>2 DEF Fpga, FpgaFill, Mqtt, SetWrite, vars, wVars, hwVars, shared, history
    <3>3. CASE StartHW \/ Stop \/ DrainCheck \/ JoinHW \/ JoinWriter
      BY <3>3 DEF StartHW, Stop, DrainCheck, JoinHW, JoinWriter, wVars, hwVars, shared, history
    <3> QED
      BY <1>6, <3>1, <3>2, <3>3 DEF Next, MainNext
  <2>2. DataLen' = DataLen /\ Held(c)' = Held(c) /\ Blocks(c)' = Blocks(c)
    BY <2>1 DEF DataLen, Held, Blocks, LastFile
  <2> QED
    BY <1>0, <2>1, <2>2
<1> QED
  BY <1>2, <1>3, <1>4, <1>5, <1>6

\* The writer: a buffer taken is in its hands until each channel has it, or it is dropped.
LEMMA ConservedByWriter ==
    ASSUME RingInv, FileInv, RingInv', FileInv', BlocksConserved, WriterStep
    PROVE  BlocksConserved'
<1> SUFFICES ASSUME NEW c \in Recorded
             PROVE  Len(pushed') = DataLen' + Held(c)' + Blocks(c)' + dropped'
  BY DEF BlocksConserved
<1> USE DEF WGoto
<1>0. Len(pushed) = DataLen + Held(c) + Blocks(c) + dropped
  BY DEF BlocksConserved
<1>1. /\ Len(pushed) \in Nat /\ dropped \in Nat /\ DataLen \in Nat /\ Held(c) \in Nat
      /\ Blocks(c) \in Nat
  BY Counts
<1>2. pushed' = pushed
  BY DEF WriterStep, hwVars, history
<1>3. /\ NumOutFiles \in Nat \ {0} /\ MaxFileBlocks \in Nat \ {0} /\ chan \in 0 .. NumOutFiles
      /\ c \in Channels /\ c \in 0 .. NumOutFiles - 1 /\ files \in [Channels -> Seq(Seq(Nat))]
      /\ bytesWritten \in Nat
  <2>1. NumOutFiles \in Nat \ {0} /\ MaxFileBlocks \in Nat \ {0}
    BY WriterAssumption
  <2>2. c \in Channels /\ c \in 0 .. NumOutFiles - 1
    BY <2>1 DEF Recorded, Channels
  <2>3. /\ chan \in 0 .. NumOutFiles /\ files \in [Channels -> Seq(Seq(Nat))]
        /\ bytesWritten \in Nat
    BY DEF RingInv, TypeOK, WriterTypeOK
  <2> QED
    BY <2>1, <2>2, <2>3
<1>4. CASE WriterPop
  <2>1. /\ wPc = "pop" /\ wPc' = (IF Head(dataQueue) = NULL THEN "exited" ELSE "popped")
        /\ dataQueue # <<>> /\ dataQueue' = Tail(dataQueue) /\ UNCHANGED <<files, dropped>>
    BY <1>4 DEF WriterPop, PopFront
  <2>2. Blocks(c)' = Blocks(c) /\ Held(c) = 0 /\ Held(c)' = IF Head(dataQueue) = NULL THEN 0 ELSE 1
    BY <2>1 DEF Blocks, LastFile, Held
  <2>3. CASE Head(dataQueue) = NULL
    <3>1. DataLen = 0 /\ DataLen' = 0
      BY <1>4, <2>3, NullPop DEF WriterPop
    <3> QED
      BY <1>0, <1>2, <2>1, <2>2, <2>3, <3>1
  <2>4. CASE Head(dataQueue) # NULL
    <3>1. DataLen' = DataLen - 1
      BY <1>4, <2>4, DataPop DEF WriterPop
    <3> QED
      BY <1>0, <1>1, <1>2, <2>1, <2>2, <2>4, <3>1
  <2> QED
    BY <2>3, <2>4
<1>5. CASE ~WriterPop
  <2>1. DataLen' = DataLen
    BY <1>5 DEF WriterStep, WriterNext, WriterBegin, OpenFiles, WriterTop, Reopen, ClearBreak,
       PushHistory, Rename, ResetBytes, WriterSync, WriteWhole, WriteChannel, CountBytes, CheckSize,
       shared, DataLen
  <2>2. SUFFICES Held(c)' + Blocks(c)' + dropped' = Held(c) + Blocks(c) + dropped
    <3>1. ASSUME Held(c)' + Blocks(c)' + dropped' = Held(c) + Blocks(c) + dropped,
                 Held(c)' \in Nat, Blocks(c)' \in Nat, dropped' \in Nat
          PROVE  Len(pushed') = DataLen' + Held(c)' + Blocks(c)' + dropped'
      <4>1. \A d, h, b, x \in Nat : d + h + b + x = d + (h + b + x)
        OBVIOUS
      <4>2. DataLen + Held(c)' + Blocks(c)' + dropped' = DataLen + (Held(c)' + Blocks(c)' + dropped')
        BY <1>1, <3>1, <4>1
      <4>3. DataLen + Held(c) + Blocks(c) + dropped = DataLen + (Held(c) + Blocks(c) + dropped)
        BY <1>1, <4>1
      <4> QED
        BY <1>0, <1>2, <2>1, <3>1, <4>2, <4>3
    <3>2. Held(c)' \in Nat
      BY DEF Held
    <3>3. Blocks(c)' \in Nat /\ dropped' \in Nat
      BY CountsNext
    <3> QED
      BY <3>1, <3>2, <3>3
  <2>3. CASE WriterBegin(rtAllowed) \/ WriterTop \/ ClearBreak \/ PushHistory \/ Rename
             \/ ResetBytes \/ CountBytes \/ CheckSize
    <3>1. /\ UNCHANGED <<files, dropped>>
          /\ wPc \notin {"popped", "write"} /\ wPc' \notin {"popped", "write"}
      BY <2>3 DEF WriterBegin, WriterTop, ClearBreak, PushHistory, Rename, ResetBytes, CountBytes,
                  CheckSize
    <3>2. Held(c) = 0 /\ Held(c)' = 0 /\ Blocks(c)' = Blocks(c)
      BY <3>1 DEF Held, Blocks, LastFile
    <3> QED
      BY <3>1, <3>2
  <2>4. CASE OpenFiles
    <3>1. /\ wPc = "open" /\ wPc' = "top" /\ files' = [d \in Channels |-> << <<>> >>] /\ dropped' = dropped
      BY <2>4 DEF OpenFiles
    <3>2. files[c] = <<>> /\ files'[c] = << <<>> >>
      BY <1>3, <3>1 DEF FileInv, NamesShape, Unopened
    <3>3. Blocks(c) = 0
      BY <3>2 DEF Blocks
    <3>4. Blocks(c)' = (1 - 1) * MaxFileBlocks + 0
      BY <3>2 DEF Blocks, LastFile
    <3>5. Blocks(c)' = 0
      BY <1>3, <3>4
    <3>6. Held(c) = 0 /\ Held(c)' = 0
      BY <3>1 DEF Held
    <3> QED
      BY <3>1, <3>3, <3>5, <3>6
  <2>5. CASE WriterSync
    <3>1. /\ wPc = "popped" /\ wPc' = (IF writeOn THEN "write" ELSE "checkSize") /\ chan' = 0
          /\ dropped' = (IF writeOn THEN dropped ELSE dropped + 1) /\ files' = files
      BY <2>5 DEF WriterSync
    <3>2. Blocks(c)' = Blocks(c) /\ Held(c) = 1 /\ Held(c)' = IF writeOn THEN 1 ELSE 0
      BY <1>3, <3>1 DEF Blocks, LastFile, Held
    <3> QED
      BY <1>1, <3>1, <3>2
  <2>6. CASE Reopen
    <3>1. /\ wPc = "reopen" /\ wPc' \in {"reopen", "reopened"} /\ dropped' = dropped
          /\ files' = [files EXCEPT ![chan] = Append(files[chan], <<>>)] /\ chan' = chan + 1
          /\ UNCHANGED <<fileNo, bytesWritten>> /\ chan \in Channels
      BY <1>3, <2>6 DEF Reopen, RingInv, WriterShape, Channels, wFlags, wNames
    <3>2. Opened /\ Opened' /\ Held(c) = 0 /\ Held(c)' = 0
      BY <3>1 DEF Opened, Held
    <3>3. Blocks(c)' = Blocks(c)
      <4>1. CASE c = chan
        <5> DEFINE n == Len(files[c])
        <5>1. Blocks(c) = (n - 1) * MaxFileBlocks + InLast(c) /\ n \in Nat \ {0}
          BY <3>2, BlocksAre
        <5>2. InLast(c) = MaxFileBlocks
          BY <1>3, <3>1, <4>1 DEF InLast
        <5>3. Len(files'[c]) = n + 1 /\ files'[c][n + 1] = <<>>
          BY <1>3, <3>1, <4>1, NewFile
        <5>4. files'[c] # <<>>
          BY <5>1, <5>3
        <5>5. Blocks(c)' = ((n + 1) - 1) * MaxFileBlocks + 0
          BY <5>3, <5>4 DEF Blocks, LastFile
        <5>6. (n - 1) * MaxFileBlocks + MaxFileBlocks = ((n + 1) - 1) * MaxFileBlocks + 0
          BY <1>3, <5>1
        <5> QED
          BY <5>1, <5>2, <5>5, <5>6
      <4>2. CASE c # chan
        <5>1. files'[c] = files[c]
          BY <1>3, <3>1, <4>2
        <5> QED
          BY <5>1 DEF Blocks, LastFile
      <4> QED
        BY <4>1, <4>2
    <3> QED
      BY <3>1, <3>2, <3>3
  <2>7. ASSUME NEW d \in Channels, wPc = "write", wPc' \in {"write", "count"}, dropped' = dropped,
               files' = [files EXCEPT ![d] = [files[d] EXCEPT ![Len(files[d])] =
                                                 Append(files[d][Len(files[d])], ddr[nextData])]]
        PROVE  Blocks(c)' = IF c = d THEN Blocks(c) + 1 ELSE Blocks(c)
    <3>1. ddr[nextData] \in Nat /\ files[d] # <<>>
      BY <2>7 DEF RingInv, WriterShape, TypeOK, WriterTypeOK
    <3>2. /\ Len(files'[d]) = Len(files[d]) /\ Len(files[d]) \in Nat \ {0}
          /\ Len(files[d][Len(files[d])]) \in Nat
          /\ Len(files'[d][Len(files[d])]) = Len(files[d][Len(files[d])]) + 1
          /\ \A e \in Channels : e # d => files'[e] = files[e]
      BY <1>3, <2>7, <3>1, NewBlock
    <3>3. CASE c = d
      <4>1. files'[d] # <<>>
        BY <3>2
      <4>2. Blocks(c) = (Len(files[d]) - 1) * MaxFileBlocks + Len(files[d][Len(files[d])])
        BY <3>1, <3>3 DEF Blocks, LastFile
      <4>3. Blocks(c)' = (Len(files[d]) - 1) * MaxFileBlocks + (Len(files[d][Len(files[d])]) + 1)
        BY <3>2, <3>3, <4>1 DEF Blocks, LastFile
      <4>4. (Len(files[d]) - 1) * MaxFileBlocks \in Nat
        <5>1. Len(files[d]) - 1 \in Nat /\ MaxFileBlocks \in Nat
          BY <1>3, <3>2
        <5> QED
          BY <5>1
      <4> QED
        BY <3>2, <3>3, <4>2, <4>3, <4>4
    <3>4. CASE c # d
      <4>1. files'[c] = files[c]
        BY <1>3, <3>2, <3>4
      <4> QED
        BY <3>4, <4>1 DEF Blocks, LastFile
    <3> QED
      BY <3>3, <3>4
  <2>8. CASE WriteWhole
    <3>1. /\ wPc = "write" /\ wPc' = "count" /\ ~WriteSplit /\ dropped' = dropped
          /\ files' = [files EXCEPT ![0] = [files[0] EXCEPT ![Len(files[0])] =
                                                Append(files[0][Len(files[0])], ddr[nextData])]]
      BY <2>8 DEF WriteWhole, Fwrite
    <3>2. c = 0 /\ chan = 0
      BY <3>1 DEF Recorded, FileInv, BreakShape
    <3>3. Blocks(c)' = Blocks(c) + 1
      BY <1>3, <2>7, <3>1, <3>2
    <3>4. Held(c) = 1 /\ Held(c)' = 0
      BY <3>1, <3>2 DEF Held
    <3> QED
      BY <1>1, <3>1, <3>3, <3>4
  <2>9. CASE WriteChannel
    <3>1. /\ wPc = "write" /\ wPc' = (IF chan + 1 = NumOutFiles THEN "count" ELSE "write")
          /\ dropped' = dropped /\ chan' = chan + 1
          /\ files' = [files EXCEPT ![chan] = [files[chan] EXCEPT ![Len(files[chan])] =
                                                Append(files[chan][Len(files[chan])], ddr[nextData])]]
      BY <2>9 DEF WriteChannel, Fwrite
    <3>2. PICK d \in Channels : d = chan
      BY <1>3, <3>1 DEF RingInv, WriterShape, Channels
    <3>3. Blocks(c)' = IF c = d THEN Blocks(c) + 1 ELSE Blocks(c)
      BY <2>7, <3>1, <3>2
    <3>4. Held(c) = IF chan <= c THEN 1 ELSE 0
      BY <3>1 DEF Held
    <3>5. Held(c)' = IF chan + 1 <= c THEN 1 ELSE 0
      BY <1>3, <3>1 DEF Held
    <3> QED
      BY <1>1, <1>3, <3>1, <3>2, <3>3, <3>4, <3>5
  <2> QED
    BY <1>5, <2>3, <2>4, <2>5, <2>6, <2>8, <2>9 DEF WriterStep, WriterNext
<1> QED
  BY <1>4, <1>5

\* Every block queued is in the queue, in the writer's hands, in the files of each channel,
\* or was dropped by a pause or by Stop's drain: none is written twice or forgotten.
THEOREM BlocksAreConserved == SafeSpec => []BlocksConserved
<1>1. ASSUME Init PROVE BlocksConserved
  <2>1. \A c \in Recorded : c \in Channels
    BY WriterAssumption DEF Recorded, Channels
  <2>2. \A c \in Recorded : Blocks(c) = 0 /\ Held(c) = 0
    BY <1>1, <2>1 DEF Init, WriterInit, Blocks, Held
  <2>3. Len(pushed) = 0 /\ DataLen = 0 /\ dropped = 0
    BY <1>1 DEF Init, SharedInit, HWInit, WriterInit, DataLen
  <2> QED
    BY <2>2, <2>3 DEF BlocksConserved
<1>2. ASSUME RingInv, FileInv, BlocksConserved, [Next]_vars PROVE BlocksConserved'
  BY <1>2, RingStep, FileStep, ConservedByOthers, ConservedByWriter
<1> QED
  BY <1>1, <1>2, RingInit, RingStep, FileInit, FileStep, PTL DEF SafeSpec

-----------------------------------------------------------------------------
(* The way in: blocks the FPGA has completed, and gaps among those pushed. *)

LastPushed == IF pushed = <<>> THEN 0 ELSE pushed[Len(pushed)]

\* What m_numErrors and firstInterrupt allow for.
Allowed == numErrors + (IF firstInterrupt THEN 0 ELSE 1)

\* If HWThread goes on with block k, the gap this makes is counted already.
GapCounted(k) == pushed # <<>> /\ LastPushed + 1 < k => Cardinality(Gaps) + 1 <= Allowed

\* The FPGA's buffer b holds the block completed last, which is not pushed yet.
Fresh(b) == produced > LastPushed /\ bram[b] = produced /\ GapCounted(produced)

\* While HWThread polls, the interrupts up tell how many blocks have come since it last took
\* some: none, one, or more than one, which it will find out and count.
PollShape ==
    hwPc \in {"unstarted", "start", "top", "poll", "polled"} =>
        /\ isr = {} => GapCounted(produced + 1)
        /\ isr # {} /\ isr # {0, 1} =>
               LET b == (produced + 1) % 2 IN isr = {b} /\ Fresh(b)
        /\ hwPc = "polled" /\ regValue # {} => regValue = isr

\* While it has a block no other comes, but for the wait that overrun tells of.
HandShape ==
    /\ hwPc \in {"acked", "fullWait", "dma", "push"} => isr = {} /\ Fresh(bufferNum)
    /\ hwPc = "push" => ddr[queueIndex] = produced

OrderShape == ~overrun => LastPushed <= produced /\ PollShape /\ HandShape

\* The inductive invariant behind LossesCounted.
LossInv == LossesCounted /\ OrderShape

LEMMA GapsAreFinite ==
    ASSUME pushed \in Seq(Nat) PROVE IsFiniteSet(Gaps) /\ Cardinality(Gaps) \in Nat
<1>1. IsFiniteSet(2 .. Len(pushed))
  BY FS_Interval
<1>2. Gaps \in SUBSET (2 .. Len(pushed))
  BY DEF Gaps
<1> QED
  BY <1>1, <1>2, FS_Subset, FS_CardinalityType

\* A push adds one gap at most, and keeps the order if the block is a later one.
LEMMA OnePushed ==
    ASSUME pushed \in Seq(Nat), NEW block \in Nat, pushed' = Append(pushed, block)
    PROVE  /\ LastPushed' = block /\ LastPushed \in Nat
           /\ Cardinality(Gaps)' = IF pushed # <<>> /\ block # LastPushed + 1
                                   THEN Cardinality(Gaps) + 1 ELSE Cardinality(Gaps)
           /\ (\A i \in DOMAIN pushed : pushed[i] # Mixed) /\ block # Mixed
                 => \A i \in DOMAIN pushed' : pushed'[i] # Mixed
           /\ (\A i \in 2 .. Len(pushed) : pushed[i] > pushed[i - 1]) /\ block > LastPushed
                 => \A i \in 2 .. Len(pushed') : pushed'[i] > pushed'[i - 1]
<1> DEFINE n == Len(pushed)
<1>1. /\ n \in Nat /\ Len(pushed') = n + 1 /\ pushed'[n + 1] = block /\ pushed' # <<>>
      /\ \A i \in 1 .. n : pushed'[i] = pushed[i]
      /\ DOMAIN pushed = 1 .. n /\ DOMAIN pushed' = 1 .. n + 1
      /\ pushed = <<>> <=> n = 0
  OBVIOUS
<1>2. LastPushed' = block
  BY <1>1 DEF LastPushed
<1>3. LastPushed \in Nat /\ (n > 0 => LastPushed = pushed[n])
  BY <1>1 DEF LastPushed
<1> HIDE DEF n
<1>4. \A i \in 2 .. n + 1 : i = n + 1 \/ (i \in 2 .. n /\ i - 1 \in 1 .. n /\ i \in 1 .. n)
  BY <1>1
<1>5. \A i \in 1 .. n + 1 : i = n + 1 \/ i \in 1 .. n
  BY <1>1
<1>6. (n + 1) - 1 = n /\ n + 1 \notin 2 .. n /\ (n > 0 => n + 1 \in 2 .. n + 1 /\ n \in 1 .. n)
      /\ (~(n > 0) => n = 0 /\ n + 1 \notin 2 .. n + 1)
  BY <1>1
<1>7. Cardinality(Gaps)' = IF pushed # <<>> /\ block # LastPushed + 1
                           THEN Cardinality(Gaps) + 1 ELSE Cardinality(Gaps)
  <2>1. Gaps = {i \in 2 .. n : pushed[i] # pushed[i - 1] + 1}
    BY DEF Gaps, n
  <2>2. Gaps' = {i \in 2 .. n + 1 : pushed'[i] # pushed'[i - 1] + 1}
    BY <1>1 DEF Gaps
  <2>3. \A i \in 2 .. n : i \in Gaps' <=> i \in Gaps
    <3>1. \A i \in 2 .. n : i \in 2 .. n + 1 /\ i \in 1 .. n /\ i - 1 \in 1 .. n
      BY <1>1
    <3> QED
      BY <1>1, <2>1, <2>2, <3>1
  <2>4. n + 1 \in Gaps' <=> n > 0 /\ block # LastPushed + 1
    BY <1>1, <1>3, <1>6, <2>2
  <2>5. \A i \in Gaps' : i = n + 1 \/ i \in 2 .. n
    BY <1>4, <2>2
  <2>6. n + 1 \notin Gaps /\ \A i \in Gaps : i \in 2 .. n
    BY <1>6, <2>1
  <2>7. IsFiniteSet(Gaps)
    BY GapsAreFinite
  <2>8. CASE n > 0 /\ block # LastPushed + 1
    <3>1. Gaps' = Gaps \cup {n + 1}
      BY <2>3, <2>4, <2>5, <2>6, <2>8
    <3>2. Cardinality(Gaps \cup {n + 1}) = Cardinality(Gaps) + 1
      BY <2>6, <2>7, FS_AddElement
    <3>3. pushed # <<>>
      BY <1>1, <1>6, <2>8
    <3> QED
      BY <2>8, <3>1, <3>2, <3>3
  <2>9. CASE ~(n > 0 /\ block # LastPushed + 1)
    <3>1. Gaps' = Gaps
      BY <2>3, <2>4, <2>5, <2>6, <2>9
    <3> QED
      BY <1>1, <1>6, <2>9, <3>1
  <2> QED
    BY <2>8, <2>9
<1>8. (\A i \in DOMAIN pushed : pushed[i] # Mixed) /\ block # Mixed
          => \A i \in DOMAIN pushed' : pushed'[i] # Mixed
  BY <1>1, <1>5
<1>9. (\A i \in 2 .. Len(pushed) : pushed[i] > pushed[i - 1]) /\ block > LastPushed
          => \A i \in 2 .. Len(pushed') : pushed'[i] > pushed'[i - 1]
  <2> SUFFICES ASSUME \A i \in 2 .. n : pushed[i] > pushed[i - 1], block > LastPushed,
                      NEW i \in 2 .. n + 1
               PROVE  pushed'[i] > pushed'[i - 1]
    BY <1>1 DEF n
  <2>1. CASE i = n + 1
    <3>1. n > 0
      BY <1>6, <2>1
    <3> QED
      BY <1>1, <1>3, <1>6, <2>1, <3>1
  <2>2. CASE i \in 2 .. n
    BY <1>1, <1>4, <2>2
  <2> QED
    BY <1>4, <2>1, <2>2
<1> QED
  BY <1>2, <1>3, <1>7, <1>8, <1>9


\* Steps that touch nothing of it.
LEMMA LossSame ==
    ASSUME LossInv, UNCHANGED <<regValue, bufferNum, firstInterrupt, queueIndex, numErrors, isr, bram,
                                produced, pushed, overrun, ddr>>,
           \/ hwPc' = hwPc
           \/ /\ hwPc' \in {"start", "top", "poll", "exited"}
              /\ hwPc \in {"unstarted", "start", "top", "poll", "polled"}
           \/ hwPc = "acked" /\ hwPc' \in {"fullWait", "exited"}
    PROVE  LossInv'
<1> USE DEF LossInv
<1>1. LossesCounted' /\ LastPushed' = LastPushed
  BY DEF LossesCounted, Gaps, LastPushed
<1>2. Cardinality(Gaps)' = Cardinality(Gaps) /\ Allowed' = Allowed
  BY DEF Gaps, Allowed
<1>3. \A k : GapCounted(k)' = GapCounted(k)
  BY <1>1, <1>2 DEF GapCounted
<1>4. \A b : Fresh(b)' = Fresh(b)
  BY <1>1, <1>3 DEF Fresh
<1>5. OrderShape'
  BY <1>1, <1>3, <1>4 DEF OrderShape, PollShape, HandShape
<1> QED
  BY <1>1, <1>5

\* The FPGA completes a block.
LEMMA LossByFpga ==
    ASSUME TypeOK, LossInv, Fpga PROVE LossInv'
<1> USE DEF LossInv
<1> SUFFICES ASSUME ~overrun' PROVE LossInv'
  BY DEF LossesCounted, OrderShape
<1>0. produced \in Nat
  BY DEF TypeOK
<1> PICK b \in {0, 1} : b = produced % 2
  BY <1>0
<1>1. /\ ~Prompt /\ bram' = [bram EXCEPT ![b] = produced + 1, ![1 - b] = Mixed]
      /\ isr' = isr \cup {b} /\ produced' = produced + 1
      /\ ~overrun /\ hwPc # "fullWait"
      /\ UNCHANGED <<hwPc, regValue, bufferNum, firstInterrupt, queueIndex, numErrors, pushed, ddr>>
  BY DEF Fpga, FpgaFill, hwLocal, shared, TypeOK
<1>2. hwPc \notin {"acked", "fullWait", "dma", "push"} /\ (hwPc = "polled" => regValue = {})
  BY <1>1 DEF Prompt
<1>3. produced \in Nat /\ LastPushed \in Nat /\ LastPushed <= produced /\ isr \subseteq {0, 1}
      /\ bram \in [{0, 1} -> Nat]
  BY <1>1 DEF TypeOK, OrderShape, LastPushed
<1>4. /\ b \in {0, 1} /\ (produced + 1) % 2 \in {0, 1} /\ (produced + 1) % 2 # b
      /\ (produced' + 1) % 2 = b
  BY <1>0, <1>1
<1>5. bram'[b] = produced + 1
  BY <1>1, <1>3, <1>4
<1>6. LossesCounted' /\ LastPushed' = LastPushed /\ Cardinality(Gaps)' = Cardinality(Gaps)
      /\ Allowed' = Allowed
  BY <1>1 DEF LossesCounted, Gaps, LastPushed, Allowed
<1>7. PollShape'
  <2> SUFFICES ASSUME hwPc \in {"unstarted", "start", "top", "poll", "polled"},
                      isr' # {0, 1}
               PROVE  /\ isr' = {b} /\ produced' > LastPushed' /\ bram'[b] = produced'
                      /\ GapCounted(produced)'
    BY <1>1, <1>2, <1>4 DEF PollShape, Fresh
  <2>1. isr = {}
    BY <1>1, <1>3, <1>4 DEF PollShape, OrderShape
  <2>2. GapCounted(produced + 1)
    BY <1>1, <2>1 DEF PollShape, OrderShape
  <2>3. GapCounted(produced)'
    BY <1>1, <1>6, <2>2 DEF GapCounted
  <2>4. produced' > LastPushed' /\ bram'[b] = produced'
    BY <1>1, <1>3, <1>5, <1>6
  <2> QED
    BY <1>1, <2>1, <2>3, <2>4
<1>8. HandShape'
  BY <1>1, <1>2 DEF HandShape
<1> QED
  BY <1>1, <1>3, <1>6, <1>7, <1>8 DEF OrderShape

\* HWThread takes a block, or finds that it has missed one.
LEMMA LossByAck ==
    ASSUME TypeOK, LossInv, HWStep, AckOne \/ AckBoth PROVE LossInv'
<1> USE DEF LossInv, HWGoto
<1> SUFFICES ASSUME ~overrun' PROVE LossInv'
  BY DEF LossesCounted, OrderShape
<1>1. /\ hwPc = "polled" /\ regValue # {} /\ isr' = isr \ regValue /\ ~overrun
      /\ bufferNum' = (IF 1 \in regValue THEN 1 ELSE 0)
      /\ UNCHANGED <<regValue, queueIndex, bram, produced, pushed, ddr>>
  BY DEF AckOne, AckBoth, Ack, history, shared
<1>2. regValue = isr /\ isr' = {} /\ isr \subseteq {0, 1}
  BY <1>1 DEF OrderShape, PollShape, TypeOK
<1>3. LastPushed' = LastPushed /\ Cardinality(Gaps)' = Cardinality(Gaps) /\ Cardinality(Gaps) \in Nat
  BY <1>1, GapsAreFinite DEF LastPushed, Gaps, TypeOK
<1>4. numErrors \in Nat /\ firstInterrupt \in BOOLEAN /\ produced \in Nat
  BY DEF TypeOK
<1>5. CASE AckOne
  <2>1. hwPc' = "acked" /\ regValue # {0, 1} /\ Allowed' = Allowed
    BY <1>5 DEF AckOne, Allowed
  <2>2. PICK b \in {0, 1} : isr = {b} /\ Fresh(b)
    <3>1. (produced + 1) % 2 \in {0, 1}
      BY <1>4
    <3> QED
      BY <1>1, <1>2, <2>1, <3>1 DEF OrderShape, PollShape
  <2>3. bufferNum' = b
    BY <1>1, <1>2, <2>2
  <2>4. Fresh(bufferNum)'
    BY <1>1, <1>3, <2>1, <2>2, <2>3 DEF Fresh, GapCounted
  <2>5. LossesCounted'
    BY <1>1, <1>3, <1>5 DEF LossesCounted, AckOne
  <2> QED
    BY <1>1, <1>2, <1>3, <2>1, <2>4, <2>5 DEF OrderShape, PollShape, HandShape
<1>6. CASE AckBoth
  <2>1. /\ hwPc' = "top" /\ Allowed' = Allowed + 1 /\ Allowed \in Nat
    BY <1>4, <1>6 DEF AckBoth, Allowed
  <2>2. Cardinality(Gaps) <= Allowed
    BY <1>1 DEF LossesCounted, Allowed
  <2>3. Cardinality(Gaps)' + 1 <= Allowed' /\ Cardinality(Gaps)' <= Allowed'
    BY <1>3, <2>1, <2>2
  <2>4. LossesCounted'
    BY <1>1, <2>3 DEF LossesCounted, Allowed
  <2>5. GapCounted(produced + 1)'
    BY <2>3 DEF GapCounted
  <2> QED
    BY <1>1, <1>2, <1>3, <2>1, <2>4, <2>5 DEF OrderShape, PollShape, HandShape
<1> QED
  BY <1>5, <1>6


\* The block is transferred, given up, or queued.
LEMMA LossByTransfer ==
    ASSUME TypeOK, LossInv, HWStep, StartDma \/ DmaComplete \/ DmaFailed \/ PushBuffer
    PROVE  LossInv'
<1> USE DEF LossInv, HWGoto
<1> SUFFICES ASSUME ~overrun' PROVE LossInv'
  BY DEF LossesCounted, OrderShape
<1>1. /\ hwPc \in {"fullWait", "dma", "push"} /\ ~overrun
      /\ UNCHANGED <<bufferNum, isr, bram, produced, firstInterrupt>>
  BY DEF StartDma, DmaComplete, DmaFailed, PushBuffer, hwLocal, fpga, history
<1>2. isr = {} /\ Fresh(bufferNum) /\ LastPushed <= produced /\ LossesCounted
      /\ (hwPc = "push" => ddr[queueIndex] = produced)
  BY <1>1 DEF OrderShape, HandShape
<1>3. numErrors \in Nat /\ firstInterrupt \in BOOLEAN /\ produced \in Nat /\ pushed \in Seq(Nat)
      /\ queueIndex \in Slots /\ ddr \in [Slots -> Nat]
  BY DEF TypeOK, WriterTypeOK
<1>4. Cardinality(Gaps) \in Nat /\ Allowed \in Nat /\ Cardinality(Gaps) <= Allowed
  BY <1>1, <1>2, <1>3, GapsAreFinite DEF LossesCounted, Allowed
<1>5. CASE StartDma \/ DmaComplete
  <2>1. /\ UNCHANGED <<pushed, numErrors, queueIndex, overrun>>
        /\ hwPc' \in {"dma", "push"}
        /\ hwPc' = "push" => ddr' = [ddr EXCEPT ![queueIndex] = bram[bufferNum]]
    BY <1>5 DEF StartDma, DmaComplete, hwLocal, history
  <2>2. LossesCounted' /\ LastPushed' = LastPushed /\ Cardinality(Gaps)' = Cardinality(Gaps)
        /\ Allowed' = Allowed
    BY <1>1, <1>2, <2>1 DEF LossesCounted, Gaps, LastPushed, Allowed
  <2>3. Fresh(bufferNum)'
    BY <1>1, <1>2, <2>1, <2>2 DEF Fresh, GapCounted
  <2>4. hwPc' = "push" => ddr'[queueIndex'] = produced'
    BY <1>1, <1>2, <1>3, <2>1 DEF Fresh
  <2> QED
    BY <1>1, <1>2, <2>1, <2>2, <2>3, <2>4 DEF OrderShape, PollShape, HandShape
<1>6. CASE DmaFailed
  <2>1. hwPc' = "top" /\ numErrors' = numErrors + 1 /\ UNCHANGED pushed
    BY <1>6 DEF DmaFailed, history
  <2>2. LastPushed' = LastPushed /\ Cardinality(Gaps)' = Cardinality(Gaps) /\ Allowed' = Allowed + 1
    BY <1>1, <1>3, <2>1 DEF LastPushed, Gaps, Allowed
  <2>3. Cardinality(Gaps)' + 1 <= Allowed' /\ Cardinality(Gaps)' <= Allowed'
    BY <1>4, <2>2
  <2>4. LossesCounted'
    BY <1>1, <1>2, <2>1, <2>3 DEF LossesCounted, Allowed
  <2>5. GapCounted(produced + 1)'
    BY <2>3 DEF GapCounted
  <2> QED
    BY <1>1, <1>2, <2>1, <2>2, <2>4, <2>5 DEF OrderShape, PollShape, HandShape
<1>7. CASE PushBuffer
  <2>1. /\ hwPc = "push" /\ hwPc' = "top" /\ pushed' = Append(pushed, ddr[queueIndex])
        /\ numErrors' = numErrors
    BY <1>7 DEF PushBuffer
  <2>2. pushed' = Append(pushed, produced)
    BY <1>2, <2>1
  <2>3. produced > LastPushed /\ GapCounted(produced)
    BY <1>2 DEF Fresh
  <2>4. /\ LastPushed' = produced /\ LastPushed \in Nat
        /\ Cardinality(Gaps)' = IF pushed # <<>> /\ produced # LastPushed + 1
                                THEN Cardinality(Gaps) + 1 ELSE Cardinality(Gaps)
        /\ (\A i \in DOMAIN pushed : pushed[i] # Mixed) /\ produced # Mixed
              => \A i \in DOMAIN pushed' : pushed'[i] # Mixed
        /\ (\A i \in 2 .. Len(pushed) : pushed[i] > pushed[i - 1]) /\ produced > LastPushed
              => \A i \in 2 .. Len(pushed') : pushed'[i] > pushed'[i - 1]
    BY <1>3, <2>2, OnePushed
  <2>5. produced # Mixed /\ (produced # LastPushed + 1 => LastPushed + 1 < produced)
    BY <1>3, <2>3, <2>4 DEF Mixed
  <2>6. Allowed' = Allowed
    BY <1>1, <2>1 DEF Allowed
  <2>7. Cardinality(Gaps)' <= Allowed'
    <3>1. CASE pushed # <<>> /\ produced # LastPushed + 1
      BY <2>3, <2>4, <2>5, <2>6, <3>1 DEF GapCounted
    <3>2. CASE ~(pushed # <<>> /\ produced # LastPushed + 1)
      BY <1>4, <2>4, <2>6, <3>2
    <3> QED
      BY <3>1, <3>2
  <2>8. LossesCounted'
    BY <1>1, <1>2, <2>3, <2>4, <2>5, <2>7 DEF LossesCounted, Allowed
  <2>9. LastPushed' <= produced' /\ GapCounted(produced + 1)'
    BY <1>1, <1>3, <2>4 DEF GapCounted
  <2> QED
    BY <1>1, <1>2, <2>1, <2>8, <2>9 DEF OrderShape, PollShape, HandShape
<1> QED
  BY <1>5, <1>6, <1>7

LEMMA LossStep ==
    ASSUME TypeOK, LossInv, [Next]_vars PROVE LossInv'
<1>1. CASE Fpga
  BY <1>1, LossByFpga
<1>2. CASE HWStep
  <2>1. CASE AckOne \/ AckBoth
    BY <1>2, <2>1, LossByAck
  <2>2. CASE StartDma \/ DmaComplete \/ DmaFailed \/ PushBuffer
    BY <1>2, <2>2, LossByTransfer
  <2>3. CASE Poll
    <3>1. /\ hwPc = "poll" /\ hwPc' = "polled" /\ regValue' = isr
          /\ UNCHANGED <<bufferNum, firstInterrupt, queueIndex, numErrors, isr, bram, produced,
                         pushed, overrun, ddr>>
      BY <2>3 DEF Poll, HWGoto, fpga, history, shared
    <3>2. LossesCounted' /\ LastPushed' = LastPushed
          /\ Cardinality(Gaps)' = Cardinality(Gaps) /\ Allowed' = Allowed
      BY <3>1 DEF LossInv, LossesCounted, Gaps, LastPushed, Allowed
    <3>3. ~overrun => PollShape'
      BY <3>1, <3>2 DEF LossInv, OrderShape, PollShape, Fresh, GapCounted
    <3>4. HandShape'
      BY <3>1 DEF HandShape
    <3> QED
      BY <3>1, <3>2, <3>3, <3>4 DEF LossInv, OrderShape
  <2>4. CASE HWBegin(rtAllowed) \/ HWTop \/ PollAgain \/ ResetDma
    <3>1. UNCHANGED <<regValue, bufferNum, firstInterrupt, queueIndex, numErrors, isr, bram,
                      produced, pushed, overrun, ddr>>
      BY <2>4 DEF HWBegin, HWTop, PollAgain, ResetDma, hwLocal, fpga, history, shared
    <3>2. \/ /\ hwPc' \in {"start", "top", "poll", "exited"}
             /\ hwPc \in {"unstarted", "start", "top", "poll", "polled"}
          \/ hwPc = "acked" /\ hwPc' \in {"fullWait", "exited"}
      BY <2>4 DEF HWBegin, HWTop, PollAgain, ResetDma, HWGoto
    <3> QED
      BY <3>1, <3>2, LossSame
  <2> QED
    BY <1>2, <2>1, <2>2, <2>3, <2>4 DEF HWStep, HWNext
<1>3. CASE StartHW
  <2>1. hwPc = "unstarted" /\ hwPc' = "start"
        /\ UNCHANGED <<regValue, bufferNum, firstInterrupt, queueIndex, numErrors, isr, bram,
                       produced, pushed, overrun, ddr>>
    BY <1>3 DEF StartHW, HWGoto, hwLocal, fpga, history, shared
  <2> QED
    BY <2>1, LossSame
<1>4. CASE ~Fpga /\ ~HWStep /\ ~StartHW
  <2>1. UNCHANGED <<hwVars, ddr>>
    <3>1. CASE WriterStep
      BY <3>1 DEF WriterStep, WriterNext, WriterBegin, OpenFiles, WriterTop, Reopen, ClearBreak,
                  PushHistory, Rename, ResetBytes, WriterPop, WriterSync, WriteWhole, WriteChannel,
                  CountBytes, CheckSize, shared
    <3>2. CASE ~WriterStep
      BY <1>4, <3>2 DEF Next, MainNext, StartWriter, Stop, DrainCheck, DrainPop, JoinHW, PushNull,
                        JoinWriter, Mqtt, SetWrite, vars, shared
    <3> QED
      BY <3>1, <3>2
  <2>2. hwPc' = hwPc
        /\ UNCHANGED <<regValue, bufferNum, firstInterrupt, queueIndex, numErrors, isr, bram,
                       produced, pushed, overrun, ddr>>
    BY <2>1 DEF hwVars, hwLocal, fpga, history
  <2> QED
    BY <2>2, LossSame
<1> QED
  BY <1>1, <1>2, <1>3, <1>4

LEMMA LossInit == ASSUME Init PROVE LossInv
<1>1. /\ pushed = <<>> /\ produced = 0 /\ isr = {} /\ hwPc = "unstarted" /\ numErrors = 0
      /\ firstInterrupt = TRUE
  BY DEF Init, HWInit
<1>2. Gaps = {}
  BY <1>1 DEF Gaps
<1>3. Cardinality(Gaps) = 0
  BY <1>2, FS_EmptySet
<1>4. LossesCounted
  BY <1>1, <1>3 DEF LossesCounted
<1>5. OrderShape
  BY <1>1 DEF OrderShape, PollShape, HandShape, GapCounted, LastPushed
<1> QED
  BY <1>4, <1>5 DEF LossInv

\* Unless a block came while HWThread waited for room in a full queue, the recording holds
\* whole blocks in the order they were sampled, and HWThread has counted every gap in it in
\* m_numErrors, but for the one that firstInterrupt forgives.
THEOREM GapsAreCounted == SafeSpec => []LossesCounted
<1>1. LossInv => LossesCounted
  BY DEF LossInv
<1>2. RingInv /\ LossInv /\ [Next]_vars => LossInv'
  BY LossStep DEF RingInv
<1> QED
  BY <1>1, <1>2, LossInit, RingInit, RingStep, PTL DEF SafeSpec

-----------------------------------------------------------------------------
(* What is in the files.                                                   *)

\* Block j of file i of channel c is on file.
On(c, i, j) == i \in DOMAIN files[c] /\ j \in DOMAIN files[c][i]

\* HWThread never transfers into a buffer that waits in the queue (DmaTargetFree), nor,
\* unless spoiled tells of it, into the one being copied.
HandsOff == ~spoiled /\ hwPc \in {"dma", "push"} /\ Copying => nextData # queueIndex

\* What the steps of the other threads leave alone.
LEMMA OthersKeep ==
    ASSUME [Next]_vars, ~WriterStep
    PROVE  /\ UNCHANGED <<nextData, files, chan, bytesWritten>>
           /\ wPc' = wPc \/ (wPc = "unstarted" /\ wPc' = "start")
           /\ (Copying' <=> Copying) /\ \A c \in Recorded : Held(c)' = Held(c)
<1>1. /\ UNCHANGED <<nextData, files, chan, bytesWritten>>
      /\ wPc' = wPc \/ (wPc = "unstarted" /\ wPc' = "start")
  <2>1. CASE StartWriter
    BY <2>1 DEF StartWriter, WGoto, wFlags
  <2>2. CASE ~StartWriter
    BY <2>2 DEF Next, MainNext, StartHW, Stop, DrainCheck, DrainPop, JoinHW, PushNull, JoinWriter,
                HWStep, Fpga, Mqtt, SetWrite, vars, wVars, wFlags
  <2> QED
    BY <2>1, <2>2
<1> QED
  BY <1>1 DEF Copying, Held

LEMMA HandsOffStep ==
    ASSUME RingInv, HandsOff, [Next]_vars PROVE HandsOff'
<1> USE DEF HandsOff
<1>1. CASE WriterStep /\ WriterPop
  <2>1. /\ nextData' = Head(dataQueue) /\ dataQueue # <<>>
        /\ UNCHANGED <<hwPc, queueIndex>>
    BY <1>1 DEF WriterStep, WriterPop, PopFront, hwVars, hwLocal
  <2>2. dataQueue[1] = Head(dataQueue) /\ 1 \in 1 .. Len(dataQueue)
    BY <2>1, TailElements DEF RingInv, TypeOK, WriterTypeOK
  <2>3. hwPc \in {"dma", "push"} => dataQueue[1] # queueIndex
    BY <2>2, TargetFree DEF DmaTargetFree
  <2> QED
    BY <2>1, <2>2, <2>3
<1>2. CASE WriterStep /\ ~WriterPop
  BY <1>2, WriterKeeps DEF WriterStep, mainVars, hwVars, hwLocal
<1>3. CASE HWStep
  <2>1. UNCHANGED <<nextData, wPc>> /\ Copying' = Copying
    BY <1>3 DEF HWStep, wVars, Copying
  <2>2. CASE StartDma
    <3>1. (~spoiled' => ~(Copying /\ nextData = queueIndex)) /\ queueIndex' = queueIndex
      BY <1>3, <2>2 DEF HWStep, StartDma, hwLocal
    <3> QED
      BY <2>1, <3>1
  <2>3. CASE ~StartDma
    <3>2. ~spoiled' => ~spoiled
      BY <1>3 DEF HWStep
    <3>3. hwPc' \in {"dma", "push"} => hwPc \in {"dma", "push"} /\ queueIndex' = queueIndex
      BY <1>3, <2>3 DEF HWStep, HWNext, HWBegin, HWTop, Poll, PollAgain, AckOne, AckBoth, Ack,
                        ResetDma, DmaComplete, DmaFailed, PushBuffer, HWGoto, hwLocal
    <3> QED
      BY <2>1, <3>2, <3>3
  <2> QED
    BY <2>2, <2>3
<1>4. CASE ~WriterStep /\ ~HWStep
  <2>1. UNCHANGED <<nextData, spoiled, queueIndex>> /\ (Copying' <=> Copying)
        /\ (hwPc' \in {"dma", "push"} => hwPc' = hwPc)
    BY <1>4 DEF Next, MainNext, StartWriter, StartHW, Stop, DrainCheck, DrainPop, JoinHW, PushNull,
                JoinWriter, Fpga, FpgaFill, Mqtt, SetWrite, vars, wVars, hwVars, hwLocal, mainVars,
                WGoto, HWGoto, Copying
  <2> QED
    BY <2>1
<1> QED
  BY <1>1, <1>2, <1>3, <1>4

\* A buffer that the writer copies on, not spoiled, is the same one and holds the same block.
LEMMA CopiedIntact ==
    ASSUME RingInv, HandsOff, [Next]_vars, ~spoiled', Copying, Copying'
    PROVE  ~spoiled /\ nextData' = nextData /\ nextData \in Slots /\ ddr'[nextData] = ddr[nextData]
<1>0. nextData \in Slots /\ ddr \in [Slots -> Nat]
  BY DEF RingInv, WriterShape, TypeOK, WriterTypeOK, Copying
<1>1. CASE WriterStep
  <2>1. ~WriterPop
    BY DEF WriterPop, WGoto, Copying
  <2> QED
    BY <1>0, <1>1, <2>1, WriterKeeps DEF WriterStep, mainVars
<1>2. CASE HWStep
  <2>1. nextData' = nextData /\ ~spoiled
    BY <1>2 DEF HWStep, wVars
  <2>2. CASE StartDma
    <3>1. nextData # queueIndex /\ ddr' = [ddr EXCEPT ![queueIndex] = Mixed]
      BY <1>2, <2>2 DEF HWStep, StartDma
    <3> QED
      BY <1>0, <2>1, <3>1
  <2>3. CASE DmaComplete
    <3>1. nextData # queueIndex /\ ddr' = [ddr EXCEPT ![queueIndex] = bram[bufferNum]]
      BY <2>1, <2>3 DEF DmaComplete, HandsOff, HWGoto
    <3> QED
      BY <1>0, <2>1, <3>1
  <2>4. CASE ~StartDma /\ ~DmaComplete
    <3>1. ddr' = ddr
      BY <1>2, <2>4 DEF HWStep, HWNext, HWBegin, HWTop, Poll, PollAgain, AckOne, AckBoth, Ack,
                        ResetDma, DmaFailed, PushBuffer, shared
    <3> QED
      BY <1>0, <2>1, <3>1
  <2> QED
    BY <2>2, <2>3, <2>4
<1>3. CASE ~WriterStep /\ ~HWStep
  <2>1. UNCHANGED <<nextData, spoiled, ddr>>
    BY <1>3 DEF Next, MainNext, StartWriter, StartHW, Stop, DrainCheck, DrainPop, JoinHW, PushNull,
                JoinWriter, Fpga, FpgaFill, Mqtt, SetWrite, vars, wVars, mainVars, shared, wFlags
  <2> QED
    BY <1>0, <2>1
<1> QED
  BY <1>1, <1>2, <1>3

\* fwrite puts a block behind all blocks of the channel.
LEMMA BlockAdded ==
    ASSUME NEW f \in [Channels -> Seq(Seq(Nat))], NEW c \in Channels, NEW b \in Nat, f[c] # <<>>
    PROVE  LET last == Len(f[c])
               m == Len(f[c][last])
               g == [f EXCEPT ![c] = [f[c] EXCEPT ![last] = Append(f[c][last], b)]]
           IN /\ m \in Nat /\ DOMAIN g[c] = DOMAIN f[c] /\ last \in DOMAIN f[c]
              /\ \A i \in DOMAIN f[c] : i # last => g[c][i] = f[c][i] /\ i < last
              /\ DOMAIN f[c][last] = 1 .. m /\ DOMAIN g[c][last] = 1 .. m + 1
              /\ \A j \in 1 .. m : g[c][last][j] = f[c][last][j]
              /\ g[c][last][m + 1] = b
<1> DEFINE last == Len(f[c])
           m == Len(f[c][last])
           s == Append(f[c][last], b)
           h == [f[c] EXCEPT ![last] = s]
<1>1. f[c] \in Seq(Seq(Nat)) /\ last \in 1 .. Len(f[c]) /\ f[c][last] \in Seq(Nat)
      /\ DOMAIN f[c] = 1 .. Len(f[c])
  OBVIOUS
<1>2. /\ m \in Nat /\ DOMAIN f[c][last] = 1 .. m /\ DOMAIN s = 1 .. m + 1 /\ s[m + 1] = b
      /\ \A j \in 1 .. m : s[j] = f[c][last][j]
  BY <1>1
<1>3. /\ DOMAIN h = DOMAIN f[c] /\ h[last] = s
      /\ \A i \in DOMAIN f[c] : i # last => h[i] = f[c][i] /\ i < last
  BY <1>1
<1>4. [f EXCEPT ![c] = h][c] = h
  OBVIOUS
<1> HIDE DEF h, s, m, last
<1>5. LET g == [f EXCEPT ![c] = h]
      IN /\ m \in Nat /\ DOMAIN g[c] = DOMAIN f[c] /\ last \in DOMAIN f[c]
         /\ \A i \in DOMAIN f[c] : i # last => g[c][i] = f[c][i] /\ i < last
         /\ DOMAIN f[c][last] = 1 .. m /\ DOMAIN g[c][last] = 1 .. m + 1
         /\ \A j \in 1 .. m : g[c][last][j] = f[c][last][j]
         /\ g[c][last][m + 1] = b
  BY <1>1, <1>2, <1>3, <1>4 DEF last
<1> QED
  BY <1>5 DEF h, s, m, last

\* What one fwrite changes, in terms of places in the recording.
Wrote(d) ==
    /\ wPc = "write" /\ Held(d) = 1
    /\ \A c \in Recorded : c # d => files'[c] = files[c] /\ Held(c)' = Held(c)
    /\ Held(d)' = 0 /\ Len(files'[d]) = Len(files[d])
    /\ \A i, j \in Nat : On(d, i, j) =>
           i <= Len(files[d]) /\ (i = Len(files[d]) => j <= bytesWritten)
    /\ \A i, j \in Nat :
           On(d, i, j)' <=> On(d, i, j) \/ (i = Len(files[d]) /\ j = bytesWritten + 1)
    /\ \A i, j \in Nat : On(d, i, j) => files'[d][i][j] = files[d][i][j]
    /\ files'[d][Len(files[d])][bytesWritten + 1] = ddr[nextData]

LEMMA WriteWrites ==
    ASSUME RingInv, FileInv, NEW d \in Recorded, wPc = "write", Held(d) = 1, Held(d)' = 0,
           \A c \in Recorded : c # d => Held(c)' = Held(c),
           files' = [files EXCEPT ![d] = [files[d] EXCEPT ![Len(files[d])] =
                                              Append(files[d][Len(files[d])], ddr[nextData])]]
    PROVE  Wrote(d)
<1> DEFINE last == Len(files[d])
           m == Len(files[d][last])
<1>1. /\ files \in [Channels -> Seq(Seq(Nat))] /\ d \in Channels /\ ddr[nextData] \in Nat
      /\ files[d] # <<>> /\ bytesWritten \in Nat /\ Recorded \subseteq Channels
  <2>1. d \in Channels /\ Recorded \subseteq Channels
    BY FilesTyped
  <2>2. files \in [Channels -> Seq(Seq(Nat))] /\ bytesWritten \in Nat /\ ddr[nextData] \in Nat
    BY DEF RingInv, TypeOK, WriterTypeOK, WriterShape
  <2>3. files[d] # <<>>
    BY <2>1 DEF RingInv, WriterShape
  <2> QED
    BY <2>1, <2>2, <2>3
<1>2. m = bytesWritten
  <2>1. m = InLast(d)
    BY DEF FileInv, FilesShape, Opened, LastFile
  <2>2. ~(WriteSplit /\ d < chan)
    <3>1. chan <= d /\ chan \in Nat /\ d \in Nat
      BY <1>1, WriterAssumption DEF Held, RingInv, TypeOK, WriterTypeOK, Channels
    <3> QED
      BY <3>1
  <2> QED
    BY <2>1, <2>2 DEF InLast
<1>3. /\ m \in Nat /\ DOMAIN files'[d] = DOMAIN files[d] /\ last \in DOMAIN files[d]
      /\ \A i \in DOMAIN files[d] : i # last => files'[d][i] = files[d][i] /\ i < last
      /\ DOMAIN files[d][last] = 1 .. m /\ DOMAIN files'[d][last] = 1 .. m + 1
      /\ \A j \in 1 .. m : files'[d][last][j] = files[d][last][j]
      /\ files'[d][last][m + 1] = ddr[nextData]
  BY <1>1, BlockAdded
<1>4. \A c \in Recorded : c # d => files'[c] = files[c]
  BY <1>1
<1>5. Len(files'[d]) = Len(files[d])
  BY <1>1, NewBlock
<1>6. last \in Nat
  BY <1>1
<1> HIDE DEF m, last
<1>7. \A i, j \in Nat : On(d, i, j) => i <= last /\ (i = last => j <= m)
  BY <1>3, <1>6 DEF On
<1>8. \A i, j \in Nat : On(d, i, j)' <=> On(d, i, j) \/ (i = last /\ j = m + 1)
  <2> SUFFICES ASSUME NEW i \in Nat, NEW j \in Nat
               PROVE  On(d, i, j)' <=> On(d, i, j) \/ (i = last /\ j = m + 1)
    OBVIOUS
  <2>1. CASE i = last
    <3>1. j \in 1 .. m + 1 <=> j \in 1 .. m \/ j = m + 1
      BY <1>3
    <3> QED
      BY <1>3, <2>1, <3>1 DEF On
  <2>2. CASE i # last
    BY <1>3, <2>2 DEF On
  <2> QED
    BY <2>1, <2>2
<1>9. \A i, j \in Nat : On(d, i, j) => files'[d][i][j] = files[d][i][j]
  <2> SUFFICES ASSUME NEW i \in Nat, NEW j \in Nat, On(d, i, j)
               PROVE  files'[d][i][j] = files[d][i][j]
    OBVIOUS
  <2>1. CASE i = last
    BY <1>3, <2>1 DEF On
  <2>2. CASE i # last
    BY <1>3, <2>2 DEF On
  <2> QED
    BY <2>1, <2>2
<1> QED
  BY <1>2, <1>3, <1>4, <1>5, <1>7, <1>8, <1>9 DEF Wrote, last

\* A step of the writer adds one block to one channel, or none.
LEMMA FilesGrow ==
    ASSUME RingInv, FileInv, WriterStep
    PROVE  \/ \E d \in Recorded : Wrote(d)
           \/ /\ \A c \in Recorded : \A i, j \in Nat :
                    On(c, i, j)' => On(c, i, j) /\ files'[c][i][j] = files[c][i][j]
              /\ wPc' = "write" => \A c \in Recorded : Held(c)' = 1
              /\ wPc # "write"
<1> USE DEF WGoto
<1>1. /\ NumOutFiles \in Nat \ {0} /\ chan \in 0 .. NumOutFiles
      /\ files \in [Channels -> Seq(Seq(Nat))] /\ Recorded \subseteq Channels
      /\ Channels = 0 .. NumOutFiles - 1
  BY WriterAssumption DEF RingInv, TypeOK, WriterTypeOK, Recorded, Channels
<1>2. CASE WriteWhole
  <2>1. /\ wPc = "write" /\ wPc' = "count" /\ Recorded = {0}
        /\ files' = [files EXCEPT ![0] = [files[0] EXCEPT ![Len(files[0])] =
                                              Append(files[0][Len(files[0])], ddr[nextData])]]
    BY <1>2 DEF WriteWhole, Fwrite, Recorded
  <2>2. Held(0) = 1 /\ Held(0)' = 0
    <3>1. chan = 0
      BY <1>2, <2>1 DEF WriteWhole, FileInv, BreakShape
    <3> QED
      BY <2>1, <3>1 DEF Held
  <2>3. Wrote(0)
    BY <2>1, <2>2, WriteWrites
  <2> QED
    BY <2>1, <2>3
<1>3. CASE WriteChannel
  <2>1. /\ wPc = "write" /\ wPc' = (IF chan + 1 = NumOutFiles THEN "count" ELSE "write")
        /\ chan' = chan + 1 /\ Recorded = Channels
        /\ files' = [files EXCEPT ![chan] = [files[chan] EXCEPT ![Len(files[chan])] =
                                                Append(files[chan][Len(files[chan])], ddr[nextData])]]
    BY <1>3 DEF WriteChannel, Fwrite, Recorded
  <2>2. PICK d \in Recorded : d = chan
    BY <1>1, <2>1 DEF RingInv, WriterShape
  <2>3. Held(d) = 1
    BY <1>1, <2>1, <2>2 DEF Held
  <2>4. \A c \in Recorded : Held(c)' = IF c = d THEN 0 ELSE Held(c)
    <3> SUFFICES ASSUME NEW c \in Recorded PROVE Held(c)' = IF c = d THEN 0 ELSE Held(c)
      OBVIOUS
    <3>1. c \in 0 .. NumOutFiles - 1 /\ Held(c)' = (IF wPc' = "write" /\ chan + 1 <= c THEN 1 ELSE 0)
          /\ Held(c) = (IF chan <= c THEN 1 ELSE 0)
      BY <1>1, <2>1 DEF Held
    <3>2. wPc' = "count" => c <= chan
      BY <1>1, <2>1, <3>1
    <3>3. chan + 1 <= c <=> chan <= c /\ c # chan
      BY <1>1, <3>1
    <3>4. wPc' = "write" \/ wPc' = "count"
      BY <2>1
    <3> QED
      BY <2>2, <3>1, <3>2, <3>3, <3>4
  <2>5. Wrote(d)
    BY <2>1, <2>2, <2>3, <2>4, WriteWrites
  <2> QED
    BY <2>5
<1>4. CASE OpenFiles
  <2>1. \A c \in Recorded : files'[c] = << <<>> >>
    BY <1>1, <1>4 DEF OpenFiles
  <2>2. \A c \in Recorded : DOMAIN files'[c] = {1} /\ DOMAIN files'[c][1] = {}
    BY <2>1
  <2> QED
    BY <1>4, <2>2 DEF OpenFiles, On
<1>5. CASE Reopen
  <2>1. wPc # "write" /\ wPc' # "write" /\ chan \in Channels
        /\ files' = [files EXCEPT ![chan] = Append(files[chan], <<>>)]
    BY <1>1, <1>5 DEF Reopen, RingInv, WriterShape
  <2>2. ASSUME NEW c \in Recorded, NEW i \in Nat, NEW j \in Nat, On(c, i, j)'
        PROVE  On(c, i, j) /\ files'[c][i][j] = files[c][i][j]
    <3>1. CASE c = chan
      <4> DEFINE n == Len(files[chan])
      <4>1. /\ Len(files'[chan]) = n + 1 /\ n \in Nat /\ files'[chan][n + 1] = <<>>
            /\ \A k \in 1 .. n : files'[chan][k] = files[chan][k]
        BY <1>1, <2>1, NewFile
      <4>2. DOMAIN files'[chan] = 1 .. n + 1 /\ DOMAIN files[chan] = 1 .. n
        BY <1>1, <2>1
      <4>3. i # n + 1
        BY <2>2, <3>1, <4>1 DEF On
      <4>4. i \in 1 .. n
        BY <2>2, <3>1, <4>1, <4>2, <4>3 DEF On
      <4> QED
        BY <2>2, <3>1, <4>1, <4>2, <4>4 DEF On
    <3>2. CASE c # chan
      BY <1>1, <2>1, <2>2, <3>2 DEF On
    <3> QED
      BY <3>1, <3>2
  <2> QED
    BY <2>1, <2>2
<1>6. CASE ~WriteWhole /\ ~WriteChannel /\ ~OpenFiles /\ ~Reopen
  <2>1. files' = files
    BY <1>6 DEF WriterStep, WriterNext, WriterBegin, WriterTop, ClearBreak, PushHistory, Rename,
                ResetBytes, WriterPop, WriterSync, CountBytes, CheckSize
  <2>2. wPc' = "write" => chan' = 0
    BY <1>6 DEF WriterStep, WriterNext, WriterBegin, WriterTop, ClearBreak, PushHistory, Rename,
                ResetBytes, WriterPop, WriterSync, CountBytes, CheckSize
  <2>3. wPc' = "write" => \A c \in Recorded : Held(c)' = 1
    BY <1>1, <2>2 DEF Held
  <2>4. wPc # "write"
    BY <1>6 DEF WriterStep, WriterNext, WriterBegin, WriterTop, ClearBreak, PushHistory, Rename,
                ResetBytes, WriterPop, WriterSync, CountBytes, CheckSize
  <2> QED
    BY <2>1, <2>3, <2>4 DEF On
<1> QED
  BY <1>2, <1>3, <1>4, <1>5, <1>6

\* While a block is written each channel has the same number of files, and the block's place
\* is taken just where the channel has it already.
LEMMA WritePlaces ==
    ASSUME RingInv, FileInv, wPc = "write"
    PROVE  /\ \A c, d \in Recorded : Len(files[c]) = Len(files[d])
           /\ \A c \in Recorded : /\ Len(files[c]) \in Nat /\ bytesWritten \in Nat
                                  /\ On(c, Len(files[c]), bytesWritten + 1) => Held(c) = 0
<1>1. Opened /\ Recorded \subseteq Channels /\ bytesWritten \in Nat /\ chan \in Nat
      /\ files \in [Channels -> Seq(Seq(Nat))] /\ Channels \subseteq Nat
  BY WriterAssumption DEF Opened, Recorded, Channels, RingInv, TypeOK, WriterTypeOK
<1>2. \A c \in Recorded : Len(files[c]) = fileNo + 0
  BY <1>1 DEF FileInv, FilesShape, Opening
<1>3. ASSUME NEW c \in Recorded, On(c, Len(files[c]), bytesWritten + 1) PROVE Held(c) = 0
  <2>1. files[c] \in Seq(Seq(Nat)) /\ LastFile(c) \in Seq(Nat) /\ Len(LastFile(c)) = InLast(c)
    BY <1>1, <1>3 DEF FileInv, FilesShape, LastFile, On
  <2>2. bytesWritten + 1 <= InLast(c)
    BY <1>1, <1>3, <2>1 DEF On, LastFile
  <2>3. c < chan
    BY <1>1, <2>2 DEF InLast
  <2> QED
    BY <1>1, <2>3 DEF Held
<1>4. \A c \in Recorded : Len(files[c]) \in Nat
  BY <1>1
<1> QED
  BY <1>1, <1>2, <1>3, <1>4

SameBlocks ==
    \A c, d \in Recorded : \A i, j \in Nat :
        On(c, i, j) /\ On(d, i, j) => files[c][i][j] = files[d][i][j]

\* The channels served have the block the buffer holds.
ServedAlike ==
    wPc = "write" => \A c \in Recorded : Held(c) = 0 =>
        /\ On(c, Len(files[c]), bytesWritten + 1)
        /\ files[c][Len(files[c])][bytesWritten + 1] = ddr[nextData]

\* The inductive invariant behind ChannelsAlike.
AlikeInv == ~spoiled => SameBlocks /\ ServedAlike

LEMMA AlikeStep ==
    ASSUME RingInv, FileInv, HandsOff, AlikeInv, [Next]_vars PROVE AlikeInv'
<1> SUFFICES ASSUME ~spoiled' PROVE SameBlocks' /\ ServedAlike'
  BY DEF AlikeInv
<1>1. ~spoiled
  BY DEF Next, MainNext, StartWriter, StartHW, Stop, DrainCheck, DrainPop, JoinHW, PushNull,
         JoinWriter, HWStep, WriterStep, Fpga, Mqtt, vars, mainVars
<1>2. SameBlocks /\ ServedAlike
  BY <1>1 DEF AlikeInv
<1>3. ASSUME WriterStep, NEW d \in Recorded, Wrote(d) PROVE SameBlocks' /\ ServedAlike'
  <2>1. /\ wPc = "write" /\ Held(d) = 1 /\ Len(files'[d]) = Len(files[d])
        /\ \A c \in Recorded : c # d => files'[c] = files[c] /\ Held(c)' = Held(c)
    BY <1>3 DEF Wrote
  <2>2. /\ UNCHANGED <<nextData, ddr>> /\ bytesWritten' = bytesWritten
    <3>1. ~WriterPop
      BY <2>1 DEF WriterPop, WGoto
    <3>2. bytesWritten' = bytesWritten
      BY <1>3, <2>1 DEF WriterStep, WriterNext, WriterBegin, OpenFiles, WriterTop, Reopen, ClearBreak,
                  PushHistory, Rename, ResetBytes, WriterPop, WriterSync, WriteWhole, WriteChannel,
                  CountBytes, CheckSize, WGoto, wFlags
    <3> QED
      BY <1>3, <3>1, <3>2, WriterKeeps
  <2>3. /\ \A c, e \in Recorded : Len(files[c]) = Len(files[e])
        /\ \A c \in Recorded : /\ Len(files[c]) \in Nat /\ bytesWritten + 1 \in Nat
                               /\ On(c, Len(files[c]), bytesWritten + 1) => Held(c) = 0
    BY <2>1, WritePlaces
  <2> PICK x \in Nat, y \in Nat : x = Len(files[d]) /\ y = bytesWritten + 1
    BY <2>3
  <2>4. /\ x \in Nat /\ y \in Nat
        /\ \A c \in Recorded : On(c, x, y) => Held(c) = 0
        /\ \A c \in Recorded : Held(c) = 0 => On(c, x, y) /\ files[c][x][y] = ddr[nextData]
    BY <1>2, <2>1, <2>3 DEF ServedAlike
  <2>5. /\ \A i, j \in Nat : On(d, i, j)' <=> On(d, i, j) \/ (i = x /\ j = y)
        /\ \A i, j \in Nat : On(d, i, j) => files'[d][i][j] = files[d][i][j]
        /\ files'[d][x][y] = ddr[nextData]
    BY <1>3 DEF Wrote
  <2>6. \A c \in Recorded : c # d => \A i, j \in Nat : On(c, i, j)' <=> On(c, i, j)
    BY <2>1 DEF On
  <2>7. ASSUME NEW e \in Recorded, e # d, NEW i \in Nat, NEW j \in Nat, On(d, i, j)', On(e, i, j)'
        PROVE  files'[d][i][j] = files'[e][i][j]
    <3>1. On(e, i, j) /\ files'[e] = files[e]
      BY <2>1, <2>6, <2>7
    <3>2. CASE On(d, i, j)
      BY <1>2, <2>5, <3>1, <3>2 DEF SameBlocks
    <3>3. CASE i = x /\ j = y
      <4>1. files[e][x][y] = ddr[nextData]
        BY <2>4, <3>1, <3>3
      <4> QED
        BY <2>5, <3>1, <3>3, <4>1
    <3> QED
      BY <2>5, <2>7, <3>2, <3>3
  <2>8. SameBlocks'
    <3> SUFFICES ASSUME NEW c \in Recorded, NEW e \in Recorded, NEW i \in Nat, NEW j \in Nat,
                        On(c, i, j)', On(e, i, j)'
                 PROVE  files'[c][i][j] = files'[e][i][j]
      BY DEF SameBlocks
    <3>1. CASE c = d \/ e = d
      BY <2>7, <3>1
    <3>2. CASE c # d /\ e # d
      BY <1>2, <2>1, <2>6, <3>2 DEF SameBlocks
    <3> QED
      BY <3>1, <3>2
  <2>9. ASSUME NEW c \in Recorded, Held(c)' = 0
        PROVE  On(c, x, y)' /\ files'[c][x][y] = ddr[nextData] /\ Len(files'[c]) = x
    <3>1. CASE c = d
      BY <2>1, <2>4, <2>5, <3>1
    <3>2. CASE c # d
      <4>1. files'[c] = files[c] /\ Held(c) = 0
        BY <2>1, <2>9, <3>2
      <4>2. On(c, x, y) /\ files[c][x][y] = ddr[nextData] /\ Len(files[c]) = x
        BY <2>3, <2>4, <4>1
      <4> QED
        BY <2>4, <2>6, <3>2, <4>1, <4>2
    <3> QED
      BY <3>1, <3>2
  <2>10. ServedAlike'
    <3> SUFFICES ASSUME NEW c \in Recorded, Held(c)' = 0
                 PROVE  On(c, Len(files[c]), bytesWritten + 1)'
                        /\ files'[c][Len(files'[c])][bytesWritten' + 1] = ddr'[nextData']
      BY DEF ServedAlike
    <3>1. On(c, x, y)' /\ files'[c][x][y] = ddr[nextData] /\ Len(files'[c]) = x
      BY <2>9
    <3>2. On(c, Len(files[c]), bytesWritten + 1)'
      BY <2>2, <3>1 DEF On
    <3> QED
      BY <2>2, <3>1, <3>2
  <2> QED
    BY <2>8, <2>10
<1>4. CASE WriterStep /\ ~(\E d \in Recorded : Wrote(d))
  <2>1. /\ \A c \in Recorded : \A i, j \in Nat :
                    On(c, i, j)' => On(c, i, j) /\ files'[c][i][j] = files[c][i][j]
        /\ wPc' = "write" => \A c \in Recorded : Held(c)' = 1
    BY <1>4, FilesGrow
  <2>2. SameBlocks'
    BY <1>2, <2>1 DEF SameBlocks
  <2>3. ServedAlike'
    BY <2>1 DEF ServedAlike
  <2> QED
    BY <2>2, <2>3
<1>5. CASE ~WriterStep
  <2>1. /\ UNCHANGED <<nextData, files, bytesWritten>> /\ (Copying' <=> Copying)
        /\ \A c \in Recorded : Held(c)' = Held(c)
        /\ wPc' = "write" => wPc = "write"
    BY <1>5, OthersKeep
  <2>2. SameBlocks'
    BY <1>2, <2>1 DEF SameBlocks, On
  <2>3. wPc' = "write" => ddr'[nextData'] = ddr[nextData]
    BY <2>1, CopiedIntact DEF Copying
  <2>4. ServedAlike'
    BY <1>2, <2>1, <2>3 DEF ServedAlike, On
  <2> QED
    BY <2>2, <2>4
<1> QED
  BY <1>3, <1>4, <1>5

\* Unless a transfer hit the buffer that WriterThread was copying, the same place of two
\* channels' files holds the same block, wherever in its loops the writer is.
THEOREM ChannelsStayAlike == SafeSpec => []ChannelsAlike
<1>1. ASSUME Init PROVE HandsOff /\ AlikeInv
  <2>1. hwPc = "unstarted" /\ wPc = "unstarted" /\ \A c \in Channels : files[c] = <<>>
    BY <1>1 DEF Init, HWInit, WriterInit
  <2>2. \A c \in Recorded, i, j \in Nat : ~On(c, i, j)
    BY <2>1, WriterAssumption DEF On, Recorded, Channels
  <2> QED
    BY <2>1, <2>2 DEF HandsOff, AlikeInv, SameBlocks, ServedAlike
<1>2. ASSUME RingInv, AlikeInv PROVE ChannelsAlike
  <2> SUFFICES ASSUME ~spoiled, NEW c \in Recorded, NEW d \in Recorded,
                      NEW i \in DOMAIN files[c] \cap DOMAIN files[d],
                      NEW j \in DOMAIN files[c][i] \cap DOMAIN files[d][i]
               PROVE  files[c][i][j] = files[d][i][j]
    BY DEF ChannelsAlike
  <2>1. files[c] \in Seq(Seq(Nat))
    BY <1>2, FilesTyped
  <2>2. i \in Nat /\ j \in Nat
    BY <2>1, PlacesAreNumbers
  <2>3. On(c, i, j) /\ On(d, i, j)
    BY DEF On
  <2> QED
    BY <1>2, <2>2, <2>3 DEF AlikeInv, SameBlocks
<1> QED
  BY <1>1, <1>2, RingInit, RingStep, FileInit, FileStep, HandsOffStep, AlikeStep, PTL DEF SafeSpec

\* The block pushed last before those in the queue: the writer has taken none after it.
Before == IF Len(pushed) > DataLen THEN pushed[Len(pushed) - DataLen] ELSE 0

\* It moves on with each buffer taken, and only then.
LEMMA BeforeMoves ==
    ASSUME RingInv, LossesCounted, ~overrun, [Next]_vars
    PROVE  /\ Before \in Nat /\ Before' \in Nat /\ Before <= Before'
           /\ WriterStep /\ WriterPop /\ Head(dataQueue) # NULL
                 => /\ ddr[Head(dataQueue)] = Before' /\ Before < Before'
<1> DEFINE n == Len(pushed) - DataLen
<1>1. /\ pushed \in Seq(Nat) /\ Len(pushed) \in Nat /\ DataLen \in Nat /\ DataLen <= Len(pushed)
      /\ dataQueue \in Seq(Slots \cup {NULL})
  BY DEF RingInv, RingShape, TypeOK, WriterTypeOK, DataLen
<1>2. /\ \A i \in 1 .. Len(pushed) : pushed[i] \in Nat /\ pushed[i] # 0
      /\ \A i \in 2 .. Len(pushed) : pushed[i] > pushed[i - 1]
  BY <1>1 DEF LossesCounted, Mixed
<1>3. n \in Nat /\ n <= Len(pushed) /\ Before = IF n > 0 THEN pushed[n] ELSE 0
  BY <1>1 DEF Before
<1>4. Before \in Nat
  BY <1>2, <1>3
<1>5. ASSUME PopFront, Head(dataQueue) # NULL, pushed' = pushed
      PROVE  ddr[Head(dataQueue)] = Before' /\ Before' \in Nat /\ Before < Before'
  <2>1. /\ DataLen \in Nat \ {0} /\ DataLen' = DataLen - 1 /\ Head(dataQueue) = dataQueue[1]
    BY <1>5, DataPop
  <2>2. n + 1 \in 1 .. Len(pushed) /\ Len(pushed') - DataLen' = n + 1
    BY <1>1, <1>5, <2>1
  <2>3. Before' = pushed[n + 1]
    <3>1. Len(pushed') > DataLen'
      BY <1>1, <1>5, <2>1
    <3> HIDE DEF n
    <3> QED
      BY <1>5, <2>2, <3>1 DEF Before
  <2>4. ddr[dataQueue[1]] = pushed[n + 1]
    BY <2>1 DEF RingInv, QueuedIntact
  <2> HIDE DEF n
  <2>5. Before' \in Nat /\ Before < Before'
    <3>1. CASE n = 0
      BY <1>2, <1>3, <2>2, <2>3, <3>1
    <3>2. CASE n # 0
      <4>1. n + 1 \in 2 .. Len(pushed) /\ (n + 1) - 1 = n /\ n > 0
        BY <1>1, <1>3, <2>2, <3>2
      <4>2. pushed[n + 1] > pushed[n]
        BY <1>2, <4>1
      <4> QED
        BY <1>2, <1>3, <1>4, <2>2, <2>3, <4>1, <4>2
    <3> QED
      BY <3>1, <3>2
  <2> QED
    BY <2>1, <2>3, <2>4, <2>5
<1>6. ASSUME DataLen' = DataLen, pushed' = pushed PROVE Before' = Before
  BY <1>6 DEF Before
<1>7. CASE HWStep /\ PushBuffer
  <2>1. /\ DataLen' = DataLen + 1 /\ Len(pushed') = Len(pushed) + 1
        /\ \A i \in 1 .. Len(pushed) : pushed'[i] = pushed[i]
    BY <1>7, DataPush
  <2>2. Len(pushed') - DataLen' = n /\ (Len(pushed') > DataLen' <=> n > 0)
    <3>1. \A p, d \in Nat : (p + 1) - (d + 1) = p - d /\ (p + 1 > d + 1 <=> p - d > 0)
      OBVIOUS
    <3> QED
      BY <1>1, <2>1, <3>1
  <2>3. Before' = Before
    <3>1. Before' = IF n > 0 THEN pushed'[n] ELSE 0
      <4> HIDE DEF n
      <4> QED
        BY <2>2 DEF Before
    <3>2. n > 0 => n \in 1 .. Len(pushed)
      BY <1>1
    <3> HIDE DEF n
    <3> QED
      BY <1>3, <2>1, <3>1, <3>2
  <2> QED
    BY <1>4, <1>7, <2>3 DEF HWStep, PushBuffer, WriterPop, HWGoto, WGoto, WriterStep, hwVars
<1>8. CASE DrainPop
  <2>1. Before' \in Nat /\ Before < Before'
    BY <1>5, <1>8, DrainData DEF DrainPop, hwVars, history
  <2>2. wPc' = wPc
    BY <1>8 DEF DrainPop
  <2>3. ~WriterPop
    BY <2>2 DEF WriterPop, WGoto
  <2> QED
    BY <1>4, <2>1, <2>3
<1>9. CASE WriterStep /\ WriterPop
  <2>1. PopFront /\ pushed' = pushed
    BY <1>9 DEF WriterStep, WriterPop, hwVars, history
  <2>2. CASE Head(dataQueue) = NULL
    BY <1>4, <1>6, <2>1, <2>2, NullPop
  <2>3. CASE Head(dataQueue) # NULL
    BY <1>4, <1>5, <2>1, <2>3
  <2> QED
    BY <2>2, <2>3
<1>10. CASE PushNull
  <2>1. pushed' = pushed /\ wPc' = wPc
    BY <1>10 DEF PushNull, hwVars, history, wVars
  <2>2. ~WriterPop
    BY <2>1 DEF WriterPop, WGoto
  <2> QED
    BY <1>4, <1>6, <1>10, <2>1, <2>2, NullPush
<1>11. CASE ~(HWStep /\ PushBuffer) /\ ~DrainPop /\ ~PushNull /\ ~(WriterStep /\ WriterPop)
  BY <1>4, <1>6, <1>11, QueueStays
<1> QED
  BY <1>7, <1>8, <1>9, <1>10, <1>11

Sorted ==
    \A c \in Recorded : \A i, j, k, l \in Nat :
        On(c, i, j) /\ On(c, k, l) =>
            /\ files[c][i][j] # Mixed
            /\ i < k \/ (i = k /\ j < l) => files[c][i][j] < files[c][k][l]

\* What a channel has on file comes before what the writer holds for it, and that before
\* what is in the queue.
Below ==
    /\ \A c \in Recorded : \A i, j \in Nat : On(c, i, j) =>
           files[c][i][j] <= Before /\ (Held(c) = 1 => files[c][i][j] < ddr[nextData])
    /\ Copying => ddr[nextData] # Mixed /\ ddr[nextData] <= Before

\* The inductive invariant behind RecordedInOrder.
OrderInv == ~overrun /\ ~spoiled => Sorted /\ Below

\* Nothing happened stays so: the histories are never cleared.
LEMMA Latches == ASSUME [Next]_vars PROVE (overrun => overrun') /\ (spoiled => spoiled')
<1>1. CASE HWStep
  <2>1. overrun' = overrun
    BY <1>1 DEF HWStep, HWNext, HWBegin, HWTop, Poll, PollAgain, AckOne, AckBoth, Ack, ResetDma,
                StartDma, DmaComplete, DmaFailed, PushBuffer, history
  <2>2. spoiled => spoiled'
    BY <1>1 DEF HWStep
  <2> QED
    BY <2>1, <2>2
<1>2. CASE Fpga
  BY <1>2 DEF Fpga, FpgaFill, mainVars
<1>3. CASE ~HWStep /\ ~Fpga
  BY <1>3 DEF Next, MainNext, StartWriter, StartHW, Stop, DrainCheck, DrainPop, JoinHW, PushNull,
              JoinWriter, WriterStep, Mqtt, vars, mainVars, hwVars, history
<1> QED
  BY <1>1, <1>2, <1>3

LEMMA OrderStep ==
    ASSUME RingInv, FileInv, LossInv, HandsOff, OrderInv, [Next]_vars PROVE OrderInv'
<1> SUFFICES ASSUME ~overrun', ~spoiled' PROVE Sorted' /\ Below'
  BY DEF OrderInv
<1>1. ~overrun /\ ~spoiled
  BY Latches
<1>2. Sorted /\ Below /\ LossesCounted
  BY <1>1 DEF OrderInv, LossInv
<1>3. /\ Before \in Nat /\ Before' \in Nat /\ Before <= Before'
      /\ WriterStep /\ WriterPop /\ Head(dataQueue) # NULL
            => /\ ddr[Head(dataQueue)] = Before' /\ Before < Before'
  BY <1>1, <1>2, BeforeMoves
<1>4. \A c \in Recorded : \A i, j \in Nat : On(c, i, j) => files[c][i][j] \in Nat
  <2>1. \A c \in Recorded : files[c] \in Seq(Seq(Nat))
    BY FilesTyped
  <2> QED
    BY <2>1 DEF On
<1>5. Copying => ddr[nextData] \in Nat
  BY DEF Copying, RingInv, WriterShape, TypeOK, WriterTypeOK
<1>6. ASSUME \A c \in Recorded : \A i, j \in Nat :
                 On(c, i, j)' => On(c, i, j) /\ files'[c][i][j] = files[c][i][j]
      PROVE  /\ Sorted'
             /\ \A c \in Recorded : \A i, j \in Nat : On(c, i, j)' => files'[c][i][j] <= Before'
  <2>1. ASSUME NEW c \in Recorded, NEW i \in Nat, NEW j \in Nat, On(c, i, j)'
        PROVE  On(c, i, j) /\ files'[c][i][j] = files[c][i][j]
    BY <1>6, <2>1
  <2>2. Sorted'
    <3> SUFFICES ASSUME NEW c \in Recorded, NEW i \in Nat, NEW j \in Nat, NEW k \in Nat, NEW l \in Nat,
                        On(c, i, j)', On(c, k, l)'
                 PROVE  /\ files'[c][i][j] # Mixed
                        /\ i < k \/ (i = k /\ j < l) => files'[c][i][j] < files'[c][k][l]
      BY DEF Sorted
    <3>1. /\ On(c, i, j) /\ files'[c][i][j] = files[c][i][j]
          /\ On(c, k, l) /\ files'[c][k][l] = files[c][k][l]
      BY <2>1
    <3> QED
      BY <1>2, <3>1 DEF Sorted
  <2>3. ASSUME NEW c \in Recorded, NEW i \in Nat, NEW j \in Nat, On(c, i, j)'
        PROVE  files'[c][i][j] <= Before'
    <3>1. On(c, i, j) /\ files'[c][i][j] = files[c][i][j]
      BY <2>1, <2>3
    <3>2. files[c][i][j] <= Before /\ files[c][i][j] \in Nat
      BY <1>2, <1>4, <3>1 DEF Below
    <3> QED
      BY <1>3, <3>1, <3>2
  <2> QED
    BY <2>2, <2>3
<1>7. ASSUME WriterStep, NEW d \in Recorded, Wrote(d) PROVE Sorted' /\ Below'
  <2>1. /\ wPc = "write" /\ Held(d) = 1 /\ Held(d)' = 0 /\ Copying
        /\ \A c \in Recorded : c # d => files'[c] = files[c] /\ Held(c)' = Held(c)
    BY <1>7 DEF Wrote, Copying
  <2>2. UNCHANGED <<nextData, ddr>>
    BY <1>7, <2>1, WriterKeeps DEF WriterPop, WGoto
  <2>3. Len(files[d]) \in Nat /\ bytesWritten \in Nat
    BY <2>1, WritePlaces
  <2> PICK x \in Nat, y \in Nat : x = Len(files[d]) /\ y = bytesWritten + 1
    BY <2>3
  <2>4. /\ \A i, j \in Nat : On(d, i, j) => i <= x /\ (i = x => j < y)
        /\ \A i, j \in Nat : On(d, i, j)' <=> On(d, i, j) \/ (i = x /\ j = y)
        /\ \A i, j \in Nat : On(d, i, j) => files'[d][i][j] = files[d][i][j]
        /\ files'[d][x][y] = ddr[nextData]
    BY <1>7, <2>3 DEF Wrote
  <2>5. \A c \in Recorded : c # d => \A i, j \in Nat : On(c, i, j)' <=> On(c, i, j)
    BY <2>1 DEF On
  <2>6. /\ ddr[nextData] # Mixed /\ ddr[nextData] <= Before /\ ddr[nextData] \in Nat
        /\ \A i, j \in Nat : On(d, i, j) =>
              files[d][i][j] < ddr[nextData] /\ files[d][i][j] <= Before
    BY <1>2, <1>5, <2>1 DEF Below
  <2>7. Sorted'
    <3> SUFFICES ASSUME NEW c \in Recorded, NEW i \in Nat, NEW j \in Nat, NEW k \in Nat, NEW l \in Nat,
                        On(c, i, j)', On(c, k, l)'
                 PROVE  /\ files'[c][i][j] # Mixed
                        /\ i < k \/ (i = k /\ j < l) => files'[c][i][j] < files'[c][k][l]
      BY DEF Sorted
    <3>1. CASE c # d
      <4>1. On(c, i, j) /\ On(c, k, l) /\ files'[c] = files[c]
        BY <2>1, <2>5, <3>1
      <4> QED
        BY <1>2, <4>1 DEF Sorted
    <3>2. CASE c = d /\ On(d, i, j) /\ On(d, k, l)
      <4>1. /\ On(c, i, j) /\ files'[c][i][j] = files[c][i][j]
            /\ On(c, k, l) /\ files'[c][k][l] = files[c][k][l]
        BY <2>4, <3>2
      <4> QED
        BY <1>2, <4>1 DEF Sorted
    <3>3. CASE c = d /\ On(d, i, j) /\ k = x /\ l = y
      <4>1. files[d][i][j] # Mixed
        BY <1>2, <3>3 DEF Sorted
      <4> QED
        BY <2>4, <2>6, <3>3, <4>1
    <3>4. CASE c = d /\ i = x /\ j = y
      <4>1. ~(i < k \/ (i = k /\ j < l))
        BY <2>4, <3>4
      <4> QED
        BY <2>4, <2>6, <3>4, <4>1
    <3> QED
      BY <2>4, <3>1, <3>2, <3>3, <3>4
  <2>8. Below'
    <3>1. ASSUME NEW c \in Recorded, NEW i \in Nat, NEW j \in Nat, On(c, i, j)'
          PROVE  /\ files'[c][i][j] <= Before'
                 /\ Held(c)' = 1 => files'[c][i][j] < ddr'[nextData']
      <4>1. CASE c # d
        <5>1. On(c, i, j) /\ files'[c] = files[c] /\ Held(c)' = Held(c)
          BY <2>1, <2>5, <3>1, <4>1
        <5>2. /\ files[c][i][j] \in Nat /\ files[c][i][j] <= Before
              /\ Held(c) = 1 => files[c][i][j] < ddr[nextData]
          BY <1>2, <1>4, <5>1 DEF Below
        <5> QED
          BY <1>3, <2>2, <5>1, <5>2
      <4>2. CASE c = d
        <5>1. Held(c)' # 1
          BY <2>1, <4>2
        <5>2. CASE On(d, i, j)
          <6>1. files'[d][i][j] = files[d][i][j] /\ files[d][i][j] <= Before
                /\ files[d][i][j] \in Nat
            BY <1>4, <2>4, <2>6, <5>2
          <6> QED
            BY <1>3, <4>2, <5>1, <6>1
        <5>3. CASE i = x /\ j = y
          BY <1>3, <2>4, <2>6, <4>2, <5>1, <5>3
        <5> QED
          BY <2>4, <3>1, <4>2, <5>2, <5>3
      <4> QED
        BY <4>1, <4>2
    <3>2. ddr'[nextData'] # Mixed /\ ddr'[nextData'] <= Before'
      BY <1>3, <2>2, <2>6
    <3> QED
      BY <3>1, <3>2 DEF Below
  <2> QED
    BY <2>7, <2>8
<1>8. CASE WriterStep /\ WriterPop
  <2>1. /\ files' = files /\ nextData' = Head(dataQueue) /\ ddr' = ddr
        /\ wPc' = (IF Head(dataQueue) = NULL THEN "exited" ELSE "popped")
    BY <1>8 DEF WriterPop, WGoto
  <2>2. \A c \in Recorded : \A i, j \in Nat :
            On(c, i, j)' => On(c, i, j) /\ files'[c][i][j] = files[c][i][j]
    BY <2>1 DEF On
  <2>3. CASE Head(dataQueue) = NULL
    <3>1. ~Copying' /\ \A c \in Recorded : Held(c)' = 0
      BY <2>1, <2>3 DEF Copying, Held
    <3> QED
      BY <1>6, <2>2, <3>1 DEF Below
  <2>4. CASE Head(dataQueue) # NULL
    <3>1. ddr'[nextData'] = Before' /\ Before < Before'
      BY <1>3, <1>8, <2>1, <2>4
    <3>2. ddr'[nextData'] # Mixed /\ ddr'[nextData'] <= Before'
      BY <1>3, <3>1 DEF Mixed
    <3>3. ASSUME NEW c \in Recorded, NEW i \in Nat, NEW j \in Nat, On(c, i, j)'
          PROVE  files'[c][i][j] < ddr'[nextData']
      <4>1. files'[c][i][j] \in Nat /\ files'[c][i][j] <= Before
        BY <1>2, <1>4, <2>2, <3>3 DEF Below
      <4> QED
        BY <1>3, <3>1, <4>1
    <3> QED
      BY <1>6, <2>2, <3>2, <3>3 DEF Below
  <2> QED
    BY <2>3, <2>4
<1>9. ASSUME \A c \in Recorded : \A i, j \in Nat :
                 On(c, i, j)' => On(c, i, j) /\ files'[c][i][j] = files[c][i][j],
             Copying' => Copying,
             \A c \in Recorded : Held(c)' = 1 => Held(c) = 1
      PROVE  Sorted' /\ Below'
  <2>1. Copying' => nextData' = nextData /\ ddr'[nextData] = ddr[nextData]
    BY <1>9, CopiedIntact
  <2>2. Copying' => ddr'[nextData'] # Mixed /\ ddr'[nextData'] <= Before'
    BY <1>2, <1>3, <1>5, <1>9, <2>1 DEF Below
  <2>3. ASSUME NEW c \in Recorded, NEW i \in Nat, NEW j \in Nat, On(c, i, j)', Held(c)' = 1
        PROVE  files'[c][i][j] < ddr'[nextData']
    <3>1. Copying'
      BY <2>3 DEF Held, Copying
    <3>2. files[c][i][j] < ddr[nextData]
      BY <1>2, <1>9, <2>3 DEF Below
    <3> QED
      BY <1>9, <2>1, <2>3, <3>1, <3>2
  <2> QED
    BY <1>6, <1>9, <2>2, <2>3 DEF Below
<1>10. CASE WriterStep /\ ~WriterPop /\ ~(\E d \in Recorded : Wrote(d))
  <2>1. /\ \A c \in Recorded : \A i, j \in Nat :
               On(c, i, j)' => On(c, i, j) /\ files'[c][i][j] = files[c][i][j]
        /\ wPc # "write"
    BY <1>10, FilesGrow
  <2>2. Copying' => Copying
    BY <1>10, WriterKeeps
  <2>3. \A c \in Recorded : Held(c)' = 1 => Held(c) = 1
    BY <2>1, <2>2 DEF Held, Copying
  <2> QED
    BY <1>9, <2>1, <2>2, <2>3
<1>11. CASE ~WriterStep
  <2>1. files' = files /\ (Copying' <=> Copying) /\ \A c \in Recorded : Held(c)' = Held(c)
    BY <1>11, OthersKeep
  <2> QED
    BY <1>9, <2>1 DEF On
<1> QED
  BY <1>7, <1>8, <1>10, <1>11

\* Unless a block was sampled while HWThread waited for room, or transferred into the buffer
\* WriterThread was copying, every channel's files hold whole blocks, each later than those
\* before it: nothing is written twice, out of turn or from a buffer being refilled.
THEOREM RecordingIsInOrder == SafeSpec => []RecordedInOrder
<1>1. ASSUME Init PROVE HandsOff /\ OrderInv
  <2>1. hwPc = "unstarted" /\ wPc = "unstarted" /\ \A c \in Channels : files[c] = <<>>
    BY <1>1 DEF Init, HWInit, WriterInit
  <2>2. \A c \in Recorded, i, j \in Nat : ~On(c, i, j)
    BY <2>1, WriterAssumption DEF On, Recorded, Channels
  <2> QED
    BY <2>1, <2>2 DEF HandsOff, OrderInv, Sorted, Below, Copying
<1>2. ASSUME RingInv, OrderInv PROVE RecordedInOrder
  <2> SUFFICES ASSUME ~overrun, ~spoiled, NEW c \in Recorded,
                      NEW i \in DOMAIN files[c], NEW k \in DOMAIN files[c],
                      NEW j \in DOMAIN files[c][i], NEW l \in DOMAIN files[c][k]
               PROVE  /\ files[c][i][j] # Mixed
                      /\ i < k \/ (i = k /\ j < l) => files[c][i][j] < files[c][k][l]
    BY DEF RecordedInOrder
  <2>1. files[c] \in Seq(Seq(Nat))
    BY <1>2, FilesTyped
  <2>2. i \in Nat /\ j \in Nat /\ k \in Nat /\ l \in Nat
    BY <2>1, PlacesAreNumbers
  <2>3. On(c, i, j) /\ On(c, k, l)
    BY DEF On
  <2>4. Sorted
    BY <1>2 DEF OrderInv
  <2> QED
    BY <2>2, <2>3, <2>4 DEF Sorted
<1>3. RingInv /\ LossInv /\ [Next]_vars => LossInv'
  BY LossStep DEF RingInv
<1> QED
  BY <1>1, <1>2, <1>3, RingInit, RingStep, FileInit, FileStep, LossInit, HandsOffStep, OrderStep,
     PTL DEF SafeSpec

-----------------------------------------------------------------------------
(* The whole as a recorder.                                                *)

\* The buffer being copied is the one before the data of the queue in the ring, as long
\* as Stop has taken none from between them.
TakenBehind ==
    Copying /\ ~stopSignal /\ DataLen < DDR_Q_SIZE => nextData = Behind(queueIndex, DataLen + 1)

StopKnown == ~stopSignal <=> mainPc \in {"start", "started", "running"}

\* What the buffers hold.
BlocksInRange ==
    /\ produced \in 0 .. MaxBlocks
    /\ \A b \in {0, 1} : bram[b] \in 0 .. MaxBlocks
    /\ \A s \in Slots : ddr[s] \in 0 .. MaxBlocks

LEMMA StopKnownStep == ASSUME StopKnown, [Next]_vars PROVE StopKnown'
<1> USE DEF StopKnown
<1>1. CASE MainNext
  BY <1>1 DEF MainNext, MainGoto, StartWriter, StartHW, Stop, DrainCheck, DrainPop, JoinHW,
              PushNull, JoinWriter, shared
<1>2. CASE HWStep
  BY <1>2 DEF HWStep, HWNext, HWBegin, HWTop, Poll, PollAgain, AckOne, AckBoth, Ack, ResetDma,
              StartDma, DmaComplete, DmaFailed, PushBuffer, shared
<1>3. CASE WriterStep
  BY <1>3 DEF WriterStep, WriterNext, WriterBegin, OpenFiles, WriterTop, Reopen, ClearBreak,
              PushHistory, Rename, ResetBytes, WriterPop, WriterSync, WriteWhole, WriteChannel,
              CountBytes, CheckSize, shared
<1>4. CASE Fpga \/ Mqtt \/ UNCHANGED vars
  BY <1>4 DEF Fpga, FpgaFill, Mqtt, SetWrite, vars, shared
<1> QED
  BY <1>1, <1>2, <1>3, <1>4 DEF Next

LEMMA BlocksInRangeStep ==
    ASSUME RingInv, BlocksInRange, [Next]_vars PROVE BlocksInRange'
<1> USE DEF BlocksInRange
<1>1. /\ ddr \in [Slots -> Nat] /\ bram \in [{0, 1} -> Nat] /\ queueIndex \in Slots
      /\ bufferNum \in {0, 1} /\ MaxBlocks \in Nat /\ produced \in Nat
  BY ManagerAssumption DEF RingInv, TypeOK, WriterTypeOK
<1>2. CASE HWStep
  <2>1. UNCHANGED <<bram, produced>>
    BY <1>2 DEF HWStep, HWNext, HWBegin, HWTop, Poll, PollAgain, AckOne, AckBoth, Ack, ResetDma,
                StartDma, DmaComplete, DmaFailed, PushBuffer, fpga
  <2>2. \/ ddr' = ddr \/ ddr' = [ddr EXCEPT ![queueIndex] = Mixed]
        \/ ddr' = [ddr EXCEPT ![queueIndex] = bram[bufferNum]]
    BY <1>2 DEF HWStep, HWNext, HWBegin, HWTop, Poll, PollAgain, AckOne, AckBoth, Ack, ResetDma,
                StartDma, DmaComplete, DmaFailed, PushBuffer, shared
  <2> QED
    BY <1>1, <2>1, <2>2 DEF Mixed
<1>3. CASE Fpga
  <2>1. PICK b \in {0, 1} : b = produced % 2
    BY <1>1
  <2>2. /\ produced' = produced + 1 /\ produced < MaxBlocks /\ ddr' = ddr
        /\ bram' = [bram EXCEPT ![b] = produced + 1, ![1 - b] = Mixed]
    BY <1>3, <2>1 DEF Fpga, FpgaFill, shared
  <2>3. bram'[b] = produced + 1 /\ bram'[1 - b] = 0 /\ 1 - b \in {0, 1} /\ 1 - b # b
    BY <1>1, <2>2 DEF Mixed
  <2> QED
    BY <1>1, <2>2, <2>3
<1>4. CASE ~HWStep /\ ~Fpga
  <2>1. UNCHANGED <<bram, produced, ddr>>
    BY <1>4 DEF Next, MainNext, StartWriter, StartHW, Stop, DrainCheck, DrainPop, JoinHW, PushNull,
                JoinWriter, WriterStep, WriterNext, WriterBegin, OpenFiles, WriterTop, Reopen,
                ClearBreak, PushHistory, Rename, ResetBytes, WriterPop, WriterSync, WriteWhole,
                WriteChannel, CountBytes, CheckSize, Mqtt, SetWrite, vars, shared, hwVars, fpga
  <2> QED
    BY <2>1
<1> QED
  BY <1>2, <1>3, <1>4

LEMMA TakenBehindStep ==
    ASSUME RingInv, StopKnown, TakenBehind, [Next]_vars PROVE TakenBehind'
<1> USE DEF TakenBehind
<1>1. queueIndex \in Slots /\ DDR_Q_SIZE \in Nat \ {0}
  BY SizeAssumption DEF RingInv, TypeOK
<1>2. CASE HWStep /\ PushBuffer
  <2>1. UNCHANGED <<nextData, stopSignal>> /\ Copying' = Copying /\ queueIndex' = NextIndex
    BY <1>2 DEF HWStep, PushBuffer, wVars, Copying
  <2>2. DataLen \in Nat /\ DataLen' = DataLen + 1
    BY <1>2, DataPush
  <2>3. ASSUME DataLen' < DDR_Q_SIZE
        PROVE  Behind(NextIndex, DataLen + 2) = Behind(queueIndex, DataLen + 1)
    <3>1. DataLen + 1 \in 1 .. DDR_Q_SIZE - 1 /\ DataLen + 2 = (DataLen + 1) + 1
      BY <1>1, <2>2, <2>3
    <3> QED
      BY <1>1, <3>1, BehindNext
  <2>4. Behind(queueIndex, DataLen + 1)' = Behind(NextIndex, DataLen + 2)
    BY <2>1, <2>2 DEF Behind
  <2> QED
    BY <1>1, <2>1, <2>2, <2>3, <2>4
<1>3. CASE WriterStep /\ WriterPop
  <2>1. /\ PopFront /\ nextData' = Head(dataQueue) /\ queueIndex' = queueIndex
        /\ Copying' => Head(dataQueue) # NULL
    BY <1>3 DEF WriterStep, WriterPop, WGoto, Copying, hwVars, hwLocal
  <2>2. ASSUME Copying' PROVE nextData' = Behind(queueIndex, DataLen' + 1)
    <3>1. /\ DataLen \in Nat \ {0} /\ DataLen' = DataLen - 1 /\ Head(dataQueue) = dataQueue[1]
      BY <2>1, <2>2, DataPop
    <3>2. dataQueue[1] = Behind(queueIndex, DataLen + 1 - 1)
      BY <3>1 DEF RingInv, QueuedIntact
    <3>3. DataLen + 1 - 1 = DataLen' + 1
      BY <3>1
    <3> QED
      BY <2>1, <3>1, <3>2, <3>3
  <2>3. Behind(queueIndex, DataLen + 1)' = Behind(queueIndex, DataLen' + 1)
    BY <2>1 DEF Behind
  <2> QED
    BY <2>2, <2>3
<1>4. CASE DrainPop \/ PushNull
  BY <1>4 DEF StopKnown, DrainPop, PushNull, MainGoto
<1>5. CASE ~(HWStep /\ PushBuffer) /\ ~(WriterStep /\ WriterPop) /\ ~DrainPop /\ ~PushNull
  <2>1. DataLen' = DataLen
    BY <1>5, QueueStays
  <2>2. UNCHANGED queueIndex /\ (~stopSignal' => ~stopSignal)
    BY <1>5 DEF Next, MainNext, StartWriter, StartHW, Stop, DrainCheck, JoinHW, JoinWriter,
                HWStep, HWNext, HWBegin, HWTop, Poll, PollAgain, AckOne, AckBoth, Ack, ResetDma,
                StartDma, DmaComplete, DmaFailed, WriterStep, WriterNext, WriterBegin, OpenFiles,
                WriterTop, Reopen, ClearBreak, PushHistory, Rename, ResetBytes, WriterSync,
                WriteWhole, WriteChannel, CountBytes, CheckSize, Fpga, FpgaFill, Mqtt, SetWrite,
                vars, shared, hwVars, hwLocal
  <2>3. nextData' = nextData /\ (Copying' => Copying)
    BY <1>5, OthersKeep, WriterKeeps
  <2>4. Behind(queueIndex, DataLen + 1)' = Behind(queueIndex, DataLen + 1)
    BY <2>1, <2>2 DEF Behind
  <2> QED
    BY <2>1, <2>2, <2>3, <2>4
<1> QED
  BY <1>2, <1>3, <1>4, <1>5

\* No transfer goes to a buffer that waits in the queue.
LEMMA TransferTarget ==
    ASSUME RingInv, HWStep, StartDma \/ DmaComplete
    PROVE  /\ Len(dataQueue) < DDR_Q_SIZE /\ DataLen = Len(dataQueue)
           /\ \A i \in 1 .. DataLen : dataQueue[i] # queueIndex
<1>1. /\ dataQueue \in Seq(Slots \cup {NULL}) /\ queueIndex \in Slots /\ DDR_Q_SIZE \in Nat \ {0}
  BY SizeAssumption DEF RingInv, TypeOK, WriterTypeOK
<1>2. Len(dataQueue) < DDR_Q_SIZE
  BY <1>1 DEF StartDma, DmaComplete, HWGoto, RingInv, RingShape
<1>3. DataLen = Len(dataQueue)
  <2>1. hwPc # "exited"
    BY DEF StartDma, DmaComplete, HWGoto
  <2> QED
    BY <2>1, AllData DEF RingInv, NullLast
<1>4. ASSUME NEW i \in 1 .. DataLen PROVE dataQueue[i] # queueIndex
  <2>1. DataLen + 1 - i \in 1 .. DDR_Q_SIZE - 1
    BY <1>1, <1>2, <1>3
  <2> QED
    BY <1>1, <2>1, BehindOther DEF RingInv, QueuedIntact
<1> QED
  BY <1>2, <1>3, <1>4

LEMMA SeqIsFunction ==
    ASSUME NEW S, NEW s \in Seq(S) PROVE s = [i \in 1 .. Len(s) |-> s[i]]
<1>1. s \in [1 .. Len(s) -> S]
  BY LenProperties
<1> QED
  BY <1>1

LEMMA FunctionIsSeq ==
    ASSUME NEW S, NEW n \in Nat, NEW f \in [1 .. n -> S] PROVE f \in Seq(S) /\ Len(f) = n
<1>1. f \in Seq(S)
  BY SeqDef
<1>2. Len(f) \in Nat /\ DOMAIN f = 1 .. Len(f) /\ DOMAIN f = 1 .. n
  BY <1>1, LenProperties
<1> QED
  BY <1>1, <1>2

\* The backlog is a sequence of blocks.
LEMMA BacklogIs ==
    ASSUME RingInv, BlocksInRange
    PROVE  /\ DataLen \in Nat /\ Len(Backlog) = DataLen /\ Backlog \in Seq(0 .. MaxBlocks)
           /\ \A i \in 1 .. DataLen : Backlog[i] = ddr[dataQueue[i]] /\ dataQueue[i] \in Slots
<1>1. DataLen \in Nat /\ queueIndex \in Slots /\ DDR_Q_SIZE \in Nat \ {0}
  BY SizeAssumption DEF RingInv, TypeOK, WriterTypeOK, DataLen
<1>2. DataLen <= DDR_Q_SIZE
  BY <1>1 DEF RingInv, RingShape, TypeOK, WriterTypeOK, DataLen
<1>3. ASSUME NEW i \in 1 .. DataLen PROVE dataQueue[i] \in Slots
  <2>1. dataQueue[i] = Behind(queueIndex, DataLen + 1 - i) /\ DataLen + 1 - i \in 1 .. DDR_Q_SIZE
    BY <1>1, <1>2 DEF RingInv, QueuedIntact
  <2> QED
    BY <1>1, <2>1 DEF Behind, Slots
<1>4. \A i \in 1 .. DataLen : Backlog[i] = ddr[dataQueue[i]] /\ Backlog[i] \in 0 .. MaxBlocks
  BY <1>3 DEF Backlog, BlocksInRange
<1>5. Backlog \in [1 .. DataLen -> 0 .. MaxBlocks]
  BY <1>4 DEF Backlog
<1> QED
  BY <1>1, <1>3, <1>4, <1>5, FunctionIsSeq

\* The front taken off.
LEMMA BacklogPop ==
    ASSUME RingInv, BlocksInRange, PopFront, Head(dataQueue) # NULL, ddr' = ddr
    PROVE  Backlog # <<>> /\ Head(Backlog) = ddr[Head(dataQueue)] /\ Backlog' = Tail(Backlog)
<1> DEFINE S == 0 .. MaxBlocks
<1>1. /\ DataLen \in Nat \ {0} /\ DataLen' = DataLen - 1 /\ Head(dataQueue) = dataQueue[1]
      /\ \A i \in 1 .. DataLen - 1 : dataQueue'[i] = dataQueue[i + 1]
  BY DataPop
<1>2. /\ Len(Backlog) = DataLen /\ Backlog \in Seq(S)
      /\ \A i \in 1 .. DataLen : Backlog[i] = ddr[dataQueue[i]]
  BY BacklogIs
<1>3. Backlog # <<>> /\ Head(Backlog) = Backlog[1]
  BY <1>1, <1>2
<1>4. /\ Tail(Backlog) \in Seq(S) /\ Len(Tail(Backlog)) = DataLen - 1
      /\ \A i \in 1 .. DataLen - 1 : Tail(Backlog)[i] = Backlog[i + 1]
  BY <1>1, <1>2, <1>3, HeadTailProperties
<1> HIDE DEF S
<1>5. Backlog' = [i \in 1 .. DataLen - 1 |-> ddr[dataQueue'[i]]]
  BY <1>1 DEF Backlog
<1>6. \A i \in 1 .. DataLen - 1 : ddr[dataQueue'[i]] = Tail(Backlog)[i]
  BY <1>1, <1>2, <1>4
<1>7. Tail(Backlog) = [i \in 1 .. DataLen - 1 |-> Tail(Backlog)[i]]
  BY <1>4, SeqIsFunction
<1>8. Backlog' = Tail(Backlog)
  BY <1>5, <1>6, <1>7
<1> QED
  BY <1>1, <1>2, <1>3, <1>8

\* HWThread's push.
LEMMA BacklogPush ==
    ASSUME RingInv, BlocksInRange, HWStep, PushBuffer
    PROVE  /\ Len(Backlog) < DDR_Q_SIZE /\ ddr[queueIndex] \in 0 .. MaxBlocks
           /\ Backlog' = Append(Backlog, ddr[queueIndex])
<1> DEFINE S == 0 .. MaxBlocks
           b == ddr[queueIndex]
<1>1. /\ DataLen = Len(dataQueue) /\ DataLen \in Nat /\ DataLen' = DataLen + 1
      /\ \A i \in 1 .. DataLen : dataQueue'[i] = dataQueue[i]
      /\ dataQueue'[DataLen + 1] = queueIndex
  BY DataPush
<1>2. /\ Len(Backlog) = DataLen /\ Backlog \in Seq(S)
      /\ \A i \in 1 .. DataLen : Backlog[i] = ddr[dataQueue[i]]
  BY BacklogIs
<1>3. b \in S /\ ddr' = ddr /\ Len(dataQueue) < DDR_Q_SIZE
  BY DEF RingInv, TypeOK, BlocksInRange, PushBuffer, Push
<1>4. Backlog' = [i \in 1 .. DataLen + 1 |-> ddr[dataQueue'[i]]]
  BY <1>1, <1>3 DEF Backlog
<1> HIDE DEF S
<1>5. ddr[dataQueue'[DataLen + 1]] = b
  BY <1>1
<1> HIDE DEF b
<1>6. /\ Append(Backlog, b) \in Seq(S) /\ Len(Append(Backlog, b)) = DataLen + 1
      /\ \A i \in 1 .. DataLen : Append(Backlog, b)[i] = Backlog[i]
      /\ Append(Backlog, b)[DataLen + 1] = b
  BY <1>1, <1>2, <1>3
<1>7. \A i \in 1 .. DataLen + 1 : ddr[dataQueue'[i]] = Append(Backlog, b)[i]
  BY <1>1, <1>2, <1>5, <1>6
<1>8. Append(Backlog, b) = [i \in 1 .. DataLen + 1 |-> Append(Backlog, b)[i]]
  BY <1>6, SeqIsFunction
<1>9. Backlog' = Append(Backlog, b)
  BY <1>4, <1>7, <1>8
<1> QED
  BY <1>1, <1>2, <1>3, <1>9 DEF b, S

\* Nothing else moves it: a transfer does not go to a buffer in the queue.
LEMMA BacklogStays ==
    ASSUME RingInv, BlocksInRange, [Next]_vars, ~(HWStep /\ PushBuffer), ~DrainPop,
           ~(WriterStep /\ WriterPop /\ Head(dataQueue) # NULL)
    PROVE  Backlog' = Backlog
<1>1. DataLen' = DataLen /\ \A i \in 1 .. DataLen : dataQueue'[i] = dataQueue[i]
  <2>1. CASE PushNull
    BY <2>1, NullPush
  <2>2. CASE WriterStep /\ WriterPop
    <3>1. PopFront /\ Head(dataQueue) = NULL
      BY <2>2 DEF WriterPop
    <3>2. DataLen = 0 /\ DataLen' = 0
      BY <3>1, NullPop
    <3> QED
      BY <3>2
  <2>3. CASE ~PushNull /\ ~(WriterStep /\ WriterPop)
    BY <2>3, QueueStays
  <2> QED
    BY <2>1, <2>2, <2>3
<1>2. \A i \in 1 .. DataLen : ddr'[dataQueue[i]] = ddr[dataQueue[i]]
  <2>1. CASE ddr' = ddr
    BY <2>1
  <2>2. CASE ddr' # ddr
    <3>1. HWStep /\ (StartDma \/ DmaComplete)
      BY <2>2 DEF Next, MainNext, StartWriter, StartHW, Stop, DrainCheck, DrainPop, JoinHW,
                  PushNull, JoinWriter, HWStep, HWNext, HWBegin, HWTop, Poll, PollAgain, AckOne,
                  AckBoth, Ack, ResetDma, DmaFailed, PushBuffer, WriterStep, WriterNext,
                  WriterBegin, OpenFiles, WriterTop, Reopen, ClearBreak, PushHistory, Rename,
                  ResetBytes, WriterPop, WriterSync, WriteWhole, WriteChannel, CountBytes,
                  CheckSize, Fpga, FpgaFill, Mqtt, SetWrite, vars, shared
    <3>2. \A i \in 1 .. DataLen : dataQueue[i] # queueIndex
      BY <3>1, TransferTarget
    <3>3. \A s \in Slots : s # queueIndex => ddr'[s] = ddr[s]
      BY <3>1 DEF StartDma, DmaComplete, RingInv, TypeOK, WriterTypeOK
    <3> QED
      BY <3>2, <3>3, BacklogIs
  <2> QED
    BY <2>1, <2>2
<1> QED
  BY <1>1, <1>2 DEF Backlog

\* A block in the writer's hands is owed to some channel.
LEMMA SomeOwed == ASSUME RingInv, FileInv, Copying PROVE Owed # {}
<1>1. NumOutFiles \in Nat \ {0} /\ chan \in 0 .. NumOutFiles /\ WriteSplit \in BOOLEAN
  BY WriterAssumption DEF RingInv, TypeOK, WriterTypeOK
<1>2. CASE wPc = "popped"
  <2>1. 0 \in Recorded /\ Held(0) = 1
    BY <1>1, <1>2 DEF Recorded, Channels, Held
  <2> QED
    BY <2>1 DEF Owed
<1>3. CASE wPc = "write"
  <2>1. chan \in Recorded /\ Held(chan) = 1
    BY <1>1, <1>3 DEF Recorded, Channels, Held, RingInv, WriterShape, FileInv, BreakShape
  <2> QED
    BY <2>1 DEF Owed
<1> QED
  BY <1>2, <1>3 DEF Copying

\* What the recorder has taken changes with the writer's steps only, but for the block in a
\* buffer that a transfer goes to.
LEMMA TakenStays ==
    ASSUME [Next]_vars, ~WriterStep
    PROVE  /\ UNCHANGED <<Owed, Recording>>
           /\ ddr'[nextData] = ddr[nextData] => Copied' = Copied
           /\ Copied' = IF Copying THEN ddr'[nextData] ELSE NULL
<1>1. UNCHANGED <<nextData, files>> /\ (Copying' <=> Copying)
      /\ \A c \in Recorded : Held(c)' = Held(c)
  BY OthersKeep
<1>2. Recorded' = Recorded
  BY DEF Recorded, Channels
<1>3. Owed' = Owed
  BY <1>1, <1>2 DEF Owed
<1>4. Recording' = Recording
  BY <1>1, <1>2 DEF Recording
<1> QED
  BY <1>1, <1>3, <1>4 DEF Copied

\* HWThread's push is Sample; its transfers spoil the block being copied, or show nothing.
LEMMA RecHW ==
    ASSUME RingInv, FileInv, BlocksInRange, BlocksInRange', TakenBehind, [Next]_vars, HWStep
    PROVE  [Rec!Next]_(Rec!recorder)
<1>1. ~WriterStep /\ stopSignal' = stopSignal /\ ~DrainPop
  BY DEF HWStep, HWNext, HWBegin, HWTop, Poll, PollAgain, AckOne, AckBoth, Ack, ResetDma, HWGoto,
         StartDma, DmaComplete, DmaFailed, PushBuffer, shared, DrainPop, MainGoto,
         WriterStep, hwVars
<1>2. UNCHANGED <<Owed, Recording>> /\ (ddr'[nextData] = ddr[nextData] => Copied' = Copied)
      /\ Copied' = IF Copying THEN ddr'[nextData] ELSE NULL
  BY <1>1, TakenStays
<1>3. CASE PushBuffer
  <2>1. PICK b \in 0 .. MaxBlocks : b = ddr[queueIndex]
    BY <1>3, BacklogPush
  <2>2. Len(Backlog) < DDR_Q_SIZE /\ Backlog' = Append(Backlog, b)
    BY <1>3, <2>1, BacklogPush
  <2>3. ddr' = ddr
    BY <1>3 DEF PushBuffer
  <2>4. Rec!Sample(b)
    BY <1>1, <1>2, <2>2, <2>3 DEF Rec!Sample
  <2> QED
    BY <2>4 DEF Rec!Next
<1>4. CASE ~PushBuffer
  <2>1. Backlog' = Backlog
    BY <1>1, <1>4, BacklogStays
  <2>2. CASE ddr'[nextData] = ddr[nextData] \/ ~Copying
    <3>1. Copied' = Copied
      BY <1>2, <2>2 DEF Copied
    <3> QED
      BY <1>1, <1>2, <2>1, <3>1 DEF Rec!recorder
  <2>3. CASE ddr'[nextData] # ddr[nextData] /\ Copying
    <3>1. StartDma \/ DmaComplete
      BY <1>4, <2>3 DEF HWStep, HWNext, HWBegin, HWTop, Poll, PollAgain, AckOne, AckBoth, Ack,
                        ResetDma, DmaFailed, shared
    <3>2. nextData \in Slots /\ nextData = queueIndex
      BY <2>3, <3>1 DEF StartDma, DmaComplete, RingInv, TypeOK, WriterTypeOK, WriterShape, Copying
    <3>3. PICK b \in 0 .. MaxBlocks : b = ddr'[nextData]
      BY <3>2 DEF BlocksInRange
    <3>4. Owed # {}
      BY <2>3, SomeOwed
    <3>5. stopSignal \/ Len(Backlog) + 1 = DDR_Q_SIZE
      <4>1. DataLen < DDR_Q_SIZE /\ DataLen \in Nat /\ Len(Backlog) = DataLen
        BY <3>1, TransferTarget, BacklogIs
      <4>2. queueIndex \in Slots /\ DDR_Q_SIZE \in Nat
        BY SizeAssumption DEF RingInv, TypeOK
      <4>3. ASSUME ~stopSignal, DataLen + 1 # DDR_Q_SIZE PROVE FALSE
        <5>1. DataLen + 1 \in 1 .. DDR_Q_SIZE - 1
          BY <4>1, <4>2, <4>3
        <5>2. nextData = Behind(queueIndex, DataLen + 1)
          BY <2>3, <4>1, <4>3 DEF TakenBehind
        <5> QED
          BY <3>2, <4>2, <5>1, <5>2, BehindOther
      <4> QED
        BY <4>1, <4>3
    <3>6. Rec!Spoil(b)
      BY <1>1, <1>2, <2>1, <2>3, <3>3, <3>4, <3>5 DEF Rec!Spoil
    <3> QED
      BY <3>6 DEF Rec!Next
  <2> QED
    BY <2>2, <2>3
<1> QED
  BY <1>3, <1>4

\* The steps of the other threads: Stop's pop_front is Discard, and its signal is Stop.
LEMMA RecOthers ==
    ASSUME RingInv, BlocksInRange, StopKnown, [Next]_vars, ~HWStep, ~WriterStep
    PROVE  [Rec!Next]_(Rec!recorder)
<1>1. ddr' = ddr
  BY DEF Next, MainNext, StartWriter, StartHW, Stop, DrainCheck, DrainPop, JoinHW, PushNull,
         JoinWriter, Fpga, FpgaFill, Mqtt, SetWrite, vars, shared
<1>2. UNCHANGED <<Copied, Owed, Recording>>
  BY <1>1, TakenStays
<1>3. CASE DrainPop
  <2>1. stopSignal' = stopSignal /\ stopSignal
    BY <1>3 DEF DrainPop, MainGoto, StopKnown
  <2>2. PopFront /\ Head(dataQueue) # NULL
    BY <1>3, DrainData
  <2>3. Backlog # <<>> /\ Backlog' = Tail(Backlog)
    BY <1>1, <2>2, BacklogPop
  <2>4. Rec!Discard
    BY <1>2, <2>1, <2>3 DEF Rec!Discard
  <2> QED
    BY <2>4 DEF Rec!Next
<1>4. CASE Stop
  <2>1. ~stopSignal /\ stopSignal' = TRUE
    BY <1>4 DEF Stop, MainGoto, StopKnown
  <2>2. Backlog' = Backlog
    BY <1>4, BacklogStays DEF Stop, DrainPop, MainGoto
  <2>3. Rec!Stop
    BY <1>2, <2>1, <2>2 DEF Rec!Stop
  <2> QED
    BY <2>3 DEF Rec!Next
<1>5. CASE ~DrainPop /\ ~Stop
  <2>1. Backlog' = Backlog
    BY <1>5, BacklogStays
  <2>2. stopSignal' = stopSignal
    BY <1>5 DEF Next, MainNext, StartWriter, StartHW, DrainCheck, JoinHW, PushNull, JoinWriter,
                Fpga, FpgaFill, Mqtt, SetWrite, vars, shared
  <2> QED
    BY <1>2, <2>1, <2>2 DEF Rec!recorder
<1> QED
  BY <1>3, <1>4, <1>5

LEMMA NothingTaken ==
    /\ ~Copying => Owed = {} /\ Copied = NULL
    /\ ~Copying' => Owed' = {} /\ Copied' = NULL
BY DEF Copying, Owed, Copied, Held

LEMMA RecLast ==
    ASSUME NEW c \in Recorded PROVE Recording[c] = files[c] /\ Rec!Last(c) = LastFile(c)
BY DEF Recording, LastFile, Rec!Last

\* Between two blocks the recorded channels stand at the same place of a file with room.
LEMMA Abreast ==
    ASSUME RingInv, FileInv, wPc = "pop"
    PROVE  /\ \A c \in Recorded : Recording[c] # <<>> /\ Len(Rec!Last(c)) < MaxFileBlocks
           /\ \A c, d \in Recorded : /\ Len(Recording[c]) = Len(Recording[d])
                                     /\ Len(Rec!Last(c)) = Len(Rec!Last(d))
<1>1. Opened /\ Recorded \subseteq Channels /\ bytesWritten < MaxFileBlocks
  BY WriterAssumption DEF Opened, Recorded, Channels, RingInv, WriterShape
<1>2. \A c \in Recorded : /\ Len(files[c]) = fileNo + 0 /\ files[c] # <<>>
                          /\ Len(LastFile(c)) = bytesWritten
  BY <1>1 DEF FileInv, FilesShape, Opening, InLast, RingInv, WriterShape
<1> QED
  BY <1>1, <1>2, RecLast

\* pop_front of a buffer is Take.
LEMMA RecTake ==
    ASSUME RingInv, FileInv, BlocksInRange, [Next]_vars, WriterStep, WriterPop,
           Head(dataQueue) # NULL
    PROVE  Rec!Take
<1>1. /\ PopFront /\ wPc = "pop" /\ wPc' = "popped" /\ nextData' = Head(dataQueue)
      /\ UNCHANGED <<ddr, files, stopSignal>>
  BY DEF WriterPop, WGoto
<1>2. Backlog # <<>> /\ Head(Backlog) = ddr[Head(dataQueue)] /\ Backlog' = Tail(Backlog)
  BY <1>1, BacklogPop
<1>3. Owed = {}
  BY <1>1, NothingTaken DEF Copying
<1>4. Owed' = Recorded /\ Copied' = Head(Backlog) /\ Recording' = Recording
  BY <1>1, <1>2 DEF Owed, Held, Copied, Copying, Recording, Recorded, Channels
<1> QED
  BY <1>1, <1>2, <1>3, <1>4, Abreast DEF Rec!Take

\* fwrite is Record.
LEMMA RecRecord ==
    ASSUME RingInv, FileInv, BlocksInRange, [Next]_vars, WriterStep, WriteWhole \/ WriteChannel
    PROVE  \E d \in Recorded : Rec!Record(d)
<1>1. /\ NumOutFiles \in Nat \ {0} /\ chan \in 0 .. NumOutFiles
      /\ files \in [Channels -> Seq(Seq(Nat))] /\ Recorded \subseteq Channels
      /\ Channels = 0 .. NumOutFiles - 1 /\ Recorded' = Recorded
  BY WriterAssumption DEF RingInv, TypeOK, WriterTypeOK, Recorded, Channels
<1>2. wPc = "write" /\ UNCHANGED <<dataQueue, nextData, ddr, stopSignal>>
  BY DEF WriteWhole, WriteChannel, WGoto, shared
<1>3. PICK d \in Recorded : d = chan /\ (~WriteSplit => d = 0)
  BY <1>1, <1>2 DEF Recorded, RingInv, WriterShape, FileInv, BreakShape
<1>4. files' = [files EXCEPT ![d] = [files[d] EXCEPT ![Len(files[d])] =
                                         Append(files[d][Len(files[d])], ddr[nextData])]]
  BY <1>3 DEF WriteWhole, WriteChannel, Fwrite
<1>5. Copied = ddr[nextData] /\ d \in Owed
  BY <1>1, <1>2, <1>3 DEF Copied, Copying, Owed, Held
<1>6. Recording' = [Recording EXCEPT ![d] = [@ EXCEPT ![Len(@)] = Append(Rec!Last(d), Copied)]]
  BY <1>1, <1>4, <1>5 DEF Recording, Rec!Last
<1>7. Owed' = Owed \ {d} /\ Copied' = IF Owed' = {} THEN NULL ELSE Copied
  <2>1. CASE wPc' = "count"
    <3>1. \A c \in Recorded : c # d => Held(c) = 0
      BY <1>1, <1>2, <1>3, <2>1 DEF WriteWhole, WriteChannel, WGoto, Held, Recorded
    <3>2. Owed' = {} /\ Copied' = NULL
      BY <2>1, NothingTaken DEF Copying
    <3> QED
      BY <3>1, <3>2 DEF Owed
  <2>2. CASE wPc' # "count"
    <3>1. /\ wPc' = "write" /\ chan' = chan + 1 /\ chan + 1 \in Recorded /\ Recorded = Channels
      BY <1>1, <1>3, <2>2 DEF WriteWhole, WriteChannel, WGoto, Recorded
    <3>2. \A c \in Recorded : Held(c)' = 1 <=> Held(c) = 1 /\ c # d
      BY <1>1, <1>2, <1>3, <3>1 DEF Held
    <3>3. Owed' = Owed \ {d}
      BY <1>1, <3>2 DEF Owed
    <3>4. chan + 1 \in Owed'
      BY <1>1, <3>1 DEF Owed, Held
    <3>5. Copied' = Copied
      BY <1>2, <3>1 DEF Copied, Copying
    <3> QED
      BY <3>3, <3>4, <3>5
  <2> QED
    BY <2>1, <2>2
<1>8. Backlog' = Backlog
  BY <1>2 DEF Backlog, DataLen
<1>9. Rec!Record(d)
  BY <1>2, <1>5, <1>6, <1>7, <1>8 DEF Rec!Record
<1> QED
  BY <1>9

\* One file more is Break, and shows only for a channel that is recorded.
LEMMA RecBreak ==
    ASSUME RingInv, FileInv, WriterStep, Reopen, UNCHANGED <<Backlog, ddr, stopSignal>>
    PROVE  (\E d \in Recorded : Rec!Break(d)) \/ UNCHANGED Rec!recorder
<1>1. /\ files \in [Channels -> Seq(Seq(Nat))] /\ Recorded \subseteq Channels
      /\ Recorded' = Recorded /\ wPc = "reopen" /\ chan \in Channels
      /\ files' = [files EXCEPT ![chan] = Append(files[chan], <<>>)]
  BY WriterAssumption
     DEF RingInv, TypeOK, WriterTypeOK, WriterShape, Recorded, Channels, Reopen, WGoto
<1>2. Owed = {} /\ Copied = NULL /\ Owed' = {} /\ Copied' = NULL
  BY NothingTaken DEF Reopen, WGoto, Copying
<1>3. CASE chan \in Recorded
  <2>1. PICK d \in Recorded : d = chan
    BY <1>3
  <2>2. Recording[d] # <<>> /\ Len(Rec!Last(d)) = MaxFileBlocks
    <3>1. files[d] # <<>>
      BY <1>1 DEF RingInv, WriterShape
    <3>2. Len(LastFile(d)) = InLast(d) /\ ~(d < chan)
      BY <1>1, <2>1 DEF FileInv, FilesShape, Opened, Channels
    <3>3. InLast(d) = MaxFileBlocks
      BY <1>1, <3>2 DEF InLast
    <3> QED
      BY <3>1, <3>2, <3>3, RecLast
  <2>3. Recording' = [Recording EXCEPT ![d] = Append(@, <<>>)]
    BY <1>1, <2>1 DEF Recording
  <2>4. Rec!Break(d)
    BY <1>2, <2>2, <2>3 DEF Rec!Break
  <2> QED
    BY <2>4
<1>4. CASE chan \notin Recorded
  <2>1. Recording' = Recording
    BY <1>1, <1>4 DEF Recording
  <2> QED
    BY <1>2, <2>1 DEF Rec!recorder
<1> QED
  BY <1>3, <1>4

LEMMA RecWriter ==
    ASSUME RingInv, FileInv, BlocksInRange, [Next]_vars, WriterStep
    PROVE  [Rec!Next]_(Rec!recorder)
<1>1. ddr' = ddr /\ stopSignal' = stopSignal
  BY DEF WriterStep, WriterNext, WriterBegin, OpenFiles, WriterTop, Reopen, ClearBreak, PushHistory,
         Rename, ResetBytes, WriterPop, WriterSync, WriteWhole, WriteChannel, CountBytes, CheckSize,
         shared
<1>2. CASE WriterPop
  <2>1. CASE Head(dataQueue) # NULL
    BY <1>2, <2>1, RecTake DEF Rec!Next
  <2>2. CASE Head(dataQueue) = NULL
    <3>1. /\ PopFront /\ wPc = "pop" /\ wPc' = "exited" /\ files' = files
      BY <1>2, <2>2 DEF WriterPop, WGoto
    <3>2. DataLen = 0 /\ DataLen' = 0
      BY <2>2, <3>1, NullPop
    <3>3. Backlog' = Backlog
      BY <3>2 DEF Backlog
    <3>4. Owed' = Owed /\ Copied' = Copied
      BY <3>1, NothingTaken DEF Copying
    <3>5. Recording' = Recording
      BY <3>1 DEF Recording, Recorded, Channels
    <3> QED
      BY <1>1, <3>3, <3>4, <3>5 DEF Rec!recorder
  <2> QED
    BY <2>1, <2>2
<1>3. CASE ~WriterPop
  <2>1. Backlog' = Backlog
    BY <1>1, <1>3, WriterKeeps DEF Backlog, DataLen
  <2>2. CASE OpenFiles
    <3>1. \A c \in Recorded : Recording[c] = <<>>
      BY <2>2, WriterAssumption
         DEF OpenFiles, WGoto, FileInv, NamesShape, Unopened, Recording, Recorded, Channels
    <3>2. Recording' = [c \in Recorded |-> << <<>> >>]
      BY <2>2, WriterAssumption DEF OpenFiles, Recording, Recorded, Channels
    <3>3. Owed' = Owed /\ Copied' = Copied
      BY <2>2, NothingTaken DEF OpenFiles, WGoto, Copying
    <3>4. Rec!Open
      BY <1>1, <2>1, <3>1, <3>2, <3>3 DEF Rec!Open
    <3> QED
      BY <3>4 DEF Rec!Next
  <2>3. CASE Reopen
    <3>1. (\E d \in Recorded : Rec!Break(d)) \/ UNCHANGED Rec!recorder
      BY <1>1, <2>1, <2>3, RecBreak
    <3> QED
      BY <3>1 DEF Rec!Next
  <2>4. CASE WriteWhole \/ WriteChannel
    BY <2>4, RecRecord DEF Rec!Next
  <2>5. CASE WriterSync
    <3>1. /\ UNCHANGED <<nextData, files>> /\ wPc = "popped" /\ Recording' = Recording
          /\ Owed = Recorded
      BY <2>5 DEF WriterSync, WGoto, Recording, Recorded, Channels, Owed, Held
    <3>2. CASE writeOn
      <4>1. wPc' = "write" /\ chan' = 0
        BY <2>5, <3>2 DEF WriterSync, WGoto
      <4>2. Owed' = Owed /\ Copied' = Copied
        <5>1. \A c \in Recorded : 0 <= c
          BY WriterAssumption DEF Recorded, Channels
        <5>2. Recorded' = Recorded
          BY DEF Recorded, Channels
        <5> QED
          BY <1>1, <3>1, <4>1, <5>1, <5>2 DEF Owed, Held, Copied, Copying
      <4> QED
        BY <1>1, <2>1, <3>1, <4>2 DEF Rec!recorder
    <3>3. CASE ~writeOn
      <4>1. Owed' = {} /\ Copied' = NULL
        BY <2>5, <3>3, NothingTaken DEF WriterSync, WGoto, Copying
      <4>2. Rec!Skip
        BY <1>1, <2>1, <3>1, <4>1 DEF Rec!Skip
      <4> QED
        BY <4>2 DEF Rec!Next
    <3> QED
      BY <3>2, <3>3
  <2>6. CASE ~OpenFiles /\ ~Reopen /\ ~WriteWhole /\ ~WriteChannel /\ ~WriterSync
    <3>1. files' = files /\ ~Copying /\ ~Copying'
      BY <1>3, <2>6 DEF WriterStep, WriterNext, WriterBegin, WriterTop, ClearBreak, PushHistory,
                        Rename, ResetBytes, CountBytes, CheckSize, WGoto, Copying
    <3>2. Recording' = Recording
      BY <3>1 DEF Recording, Recorded, Channels
    <3> QED
      BY <1>1, <2>1, <3>1, <3>2, NothingTaken DEF Rec!recorder
  <2> QED
    BY <2>2, <2>3, <2>4, <2>5, <2>6
<1> QED
  BY <1>2, <1>3

LEMMA RecInit ==
    ASSUME Init PROVE Rec!Init /\ StopKnown /\ TakenBehind /\ BlocksInRange
<1>1. /\ wPc = "unstarted" /\ dataQueue = <<>> /\ stopSignal = FALSE /\ mainPc = "start"
      /\ \A c \in Recorded : files[c] = <<>>
  BY WriterAssumption DEF Init, SharedInit, WriterInit, Recorded, Channels
<1>2. ~Copying
  BY <1>1 DEF Copying
<1>3. DataLen = 0
  BY <1>1 DEF DataLen
<1>4. Backlog = <<>>
  BY <1>3 DEF Backlog
<1>5. Rec!Init
  BY <1>1, <1>2, <1>4, NothingTaken DEF Rec!Init, Recording
<1>6. BlocksInRange
  BY ManagerAssumption DEF BlocksInRange, Init, SharedInit, HWInit, Mixed
<1> QED
  BY <1>1, <1>2, <1>5, <1>6 DEF StopKnown, TakenBehind

\* HWThread, WriterThread and Stop together keep the recorder's promise: each of their steps
\* is one of its steps, or shows nothing.
THEOREM RecorderRefinement == SafeSpec => ImplementsRecorder
<1>1. ASSUME RingInv, FileInv, BlocksInRange, BlocksInRange', StopKnown, TakenBehind, [Next]_vars
      PROVE  [Rec!Next]_(Rec!recorder)
  BY <1>1, RecHW, RecWriter, RecOthers
<1> QED
  BY <1>1, RecInit, RingInit, RingStep, FileInit, FileStep, StopKnownStep, TakenBehindStep,
     BlocksInRangeStep, PTL DEF SafeSpec, ImplementsRecorder, Rec!SafeSpec
=============================================================================
