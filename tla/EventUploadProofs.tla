-------------------------- MODULE EventUploadProofs --------------------------
(***************************************************************************)
(* For files, windows and recordings of any size: where the callback finds *)
(* itself in the recording, that the windows it uploads lie within a file, *)
(* are on file, and are the blocks that were asked for, and that its waits *)
(* do not miss their end.                                                  *)
(***************************************************************************)
EXTENDS EventUpload, WriterThreadProofs

\* Blocks that are queued or in the writer's hands.
Flight == Len(dataQueue) + (IF wPc \in {"popped", "write", "count"} THEN 1 ELSE 0)

\* The writer is done with one block before the next is queued.
QueueShape ==
    /\ wPc # "exited" /\ dataQueue \in Seq(Slots)
    /\ dataQueue # <<>> => wPc = "pop" /\ Len(dataQueue) = 1
    /\ Opened => Counted + Flight <= fed

MessageShape ==
    /\ mPc # "idle" => Opened /\ windows = <<>>
    /\ \A i \in DOMAIN windows :
           windows[i] \in [file : 0 .. MaxFed, offset : 0 .. MaxFileBlocks, size : 0 .. MaxFileBlocks]
    /\ mPc \in {"eventPos", "eventWait", "eventEdge", "eventPlan", "eventLast", "eventAsk"}
          => message = "event"
    /\ mPc \in {"updateName", "updateWait", "updateEdge", "updateAsk"} => message = "update"

\* The name and the position, as the writer goes on. Once it has broken the file named,
\* m_bytesWritten says nothing of that file any more.
NameShape ==
    ~torn =>
        /\ mPc = "eventPos" => name1 = currIFFilename /\ ~Renaming
        /\ mPc = "updateName" => /\ ~Renaming /\ pos <= bytesWritten
                                 /\ currIFFilename * MaxFileBlocks + pos = start
        /\ mPc \notin {"idle", "eventPos", "updateName"}
              => /\ name1 <= currIFFilename
                 /\ name1 = currIFFilename => ~Renaming /\ pos <= bytesWritten

\* An update that fits the file ends its wait before the file is broken: the writer gets
\* another block only after a turn of the loop that found too few.
LagShape ==
    /\ ~torn /\ pos + UpdateBlocks < MaxFileBlocks
    /\ mPc \in {"updateName", "updateWait", "updateEdge"}
    => /\ pos <= bytesWritten /\ bytesWritten + Flight <= pos + UpdateBlocks
       /\ mPc # "updateName" /\ seen => WriterDone /\ bytesWritten < pos + UpdateBlocks

\* Every recorded channel has the first k blocks of a file.
Filled(file, k) == \A c \in Recorded : file < Len(files[c]) /\ k <= Len(files[c][file + 1])

\* The windows being computed.
PlanShape ==
    /\ mPc = "eventLast" => /\ pos < PreBlocks /\ Len(fileHistory) >= 2
                            /\ plan = <<Window(name1, 0, pos + PostBlocks)>>
    /\ mPc = "eventAsk" =>
          \/ pos >= PreBlocks /\ plan = <<Window(name1, pos - PreBlocks, PreBlocks + PostBlocks)>>
          \/ pos < PreBlocks /\ plan = <<Window(name1, 0, pos + PreBlocks)>>
          \/ /\ pos < PreBlocks
             /\ \E file \in 0 .. MaxFed, offset \in 0 .. MaxFileBlocks, size \in 0 .. Modulus :
                    /\ plan = <<Window(name1, 0, pos + PostBlocks), Window(file, offset, size)>>
                    /\ Filled(file, MaxFileBlocks)
    /\ mPc \in {"updateWait", "updateEdge"} => plan = <<Window(name1, pos, UpdateBlocks)>>
    /\ mPc = "updateAsk" =>
          \E size \in 0 .. MaxFileBlocks :
              /\ plan = <<Window(name1, pos, size)>> /\ pos + size <= MaxFileBlocks
              /\ ~torn => /\ size <= UpdateBlocks
                          /\ size = UpdateBlocks \/ pos + size = MaxFileBlocks
                          /\ Filled(name1, pos + size)

\* What the wait for the data after an event was for.
ReadyShape ==
    ~torn /\ mPc \in {"eventPlan", "eventLast", "eventAsk"}
        => \A k \in 0 .. MaxFileBlocks : k <= pos + PostBlocks => Filled(name1, k)

\* The inductive invariant.
WriterInv == TypeOK /\ WriterShape /\ FileInv /\ QueueShape
CallbackInv == MessageShape /\ NameShape /\ PlaceKnown /\ LagShape /\ PlanShape /\ ReadyShape
EventInv == WriterInv /\ CallbackInv /\ WindowsFit /\ WindowsWritten /\ RightData

\* Blocks that are on file or on their way there.
Total == Counted + Flight

\* Not a wait for as much as a file holds, from the start of a file.
Small == pos > 0 \/ Wanted < MaxFileBlocks

\* What a turn of a wait loop knows that began when all there was was on file.
TurnShape ==
    seen => /\ WriterDone
            /\ mPc \in {"eventEdge", "updateEdge"} => bytesWritten < pos + Wanted
            /\ mPc \in {"eventWait", "updateWait"} =>
                   Total < start + Wanted /\ Total < (name1 + 1) * MaxFileBlocks

\* The invariant, inductive on top of EventInv, of the waits' end: no more blocks come than
\* are waited for, nor than the file holds.
InTime ==
    ~torn /\ Wanted > 0 =>
        /\ mPc = "updateName" =>
               Total <= start + Wanted /\ Total <= (currIFFilename + 1) * MaxFileBlocks
        /\ mPc \in {"eventWait", "eventEdge", "updateWait", "updateEdge"} /\ Small =>
               Total <= start + Wanted /\ Total <= (name1 + 1) * MaxFileBlocks /\ TurnShape

-----------------------------------------------------------------------------
(* Where the writer is in the recording.                                   *)

LEMMA FirstChannel == 0 \in Recorded /\ Recorded \subseteq Channels /\ Channels \subseteq Nat
  BY WriterAssumption DEF Recorded, Channels

\* The name and m_bytesWritten tell how many blocks are on file, but between the steps that
\* change the one and the other.
CountedRight ==
    Counted = currIFFilename * MaxFileBlocks + IF Renaming THEN 0 ELSE bytesWritten

LEMMA CountedIs ==
    WriterTypeOK /\ WriterShape /\ FileInv /\ Opened => CountedRight
<1> SUFFICES ASSUME WriterTypeOK, WriterShape, FileInv, Opened
             PROVE  Counted = currIFFilename * MaxFileBlocks + IF Renaming THEN 0 ELSE bytesWritten
  BY DEF CountedRight
<1> DEFINE n == Len(files[0])
           last == Len(LastFile(0))
<1>1. /\ currIFFilename \in Nat /\ bytesWritten \in Nat /\ MaxFileBlocks \in Nat \ {0}
      /\ chan \in Nat /\ fileNo \in Nat
  BY WriterAssumption DEF WriterTypeOK
<1>2. n = fileNo + Opening(0) /\ last = InLast(0)
  BY FirstChannel DEF FileInv, FilesShape
<1>3. fileNo = currIFFilename + (IF wPc \in {"history", "rename"} THEN 2 ELSE 1)
  BY DEF FileInv, NamesShape
<1>4. Counted = (n - 1) * MaxFileBlocks + last
                    - (IF wPc = "count" \/ (wPc = "write" /\ chan > 0) THEN 1 ELSE 0)
  BY DEF Counted
<1> HIDE DEF n, last
<1>5. CASE wPc \in {"reopened", "history", "rename"} \/ (wPc = "reopen" /\ chan > 0)
  <2>1. n - 1 = currIFFilename + 1 /\ last = 0 /\ bytesWritten = MaxFileBlocks
    BY <1>1, <1>2, <1>3, <1>5 DEF Opening, InLast, FileInv, BreakShape
  <2>2. (currIFFilename + 1) * MaxFileBlocks = currIFFilename * MaxFileBlocks + MaxFileBlocks
    BY <1>1
  <2>3. Counted = currIFFilename * MaxFileBlocks + MaxFileBlocks
    BY <1>4, <1>5, <2>1, <2>2, <1>1
  <2> QED
    BY <1>5, <2>1, <2>3 DEF Renaming
<1>6. CASE wPc = "resetBytes"
  <2>1. n - 1 = currIFFilename /\ last = 0
    BY <1>1, <1>2, <1>3, <1>6 DEF Opening, InLast
  <2>2. currIFFilename * MaxFileBlocks \in Nat
    BY <1>1
  <2> QED
    BY <1>4, <1>6, <2>1, <2>2 DEF Renaming
<1>7. CASE wPc \in {"top", "pop", "popped", "checkSize"} \/ (wPc \in {"reopen", "write"} /\ chan = 0)
  <2>1. n - 1 = currIFFilename /\ last = bytesWritten
    BY <1>1, <1>2, <1>3, <1>7 DEF Opening, InLast, FileInv, BreakShape
  <2>2. currIFFilename * MaxFileBlocks \in Nat
    BY <1>1
  <2> QED
    BY <1>1, <1>4, <1>7, <2>1, <2>2 DEF Renaming
<1>8. CASE wPc = "count" \/ (wPc = "write" /\ chan > 0)
  <2>1. n - 1 = currIFFilename /\ last = bytesWritten + 1
    BY <1>1, <1>2, <1>3, <1>8, WriterAssumption DEF Opening, InLast, FileInv, BreakShape
  <2>2. currIFFilename * MaxFileBlocks \in Nat
    BY <1>1
  <2> QED
    BY <1>1, <1>4, <1>8, <2>1, <2>2 DEF Renaming
<1> QED
  BY <1>1, <1>5, <1>6, <1>7, <1>8 DEF Opened

LEMMA CountedNext ==
    WriterTypeOK' /\ WriterShape' /\ FileInv' /\ Opened' => CountedRight'
  BY CountedIs, PTL

\* What others see of a step of the writer: it renames, resets, counts or none of these.
LEMMA WriterEffect ==
    ASSUME WriterTypeOK, WriterShape, FileInv, QueueShape, WriterNext(TRUE)
    PROVE  /\ Opened => Opened'
           /\ \/ /\ wPc = "rename" /\ Renaming' /\ currIFFilename' = currIFFilename + 1
                 /\ bytesWritten' = bytesWritten /\ bytesWritten = MaxFileBlocks
                 /\ Flight' = Flight
              \/ /\ wPc = "resetBytes" /\ ~Renaming' /\ currIFFilename' = currIFFilename
                 /\ bytesWritten = MaxFileBlocks /\ bytesWritten' = 0 /\ Flight' = Flight
              \/ /\ wPc = "count" /\ ~Renaming' /\ currIFFilename' = currIFFilename
                 /\ bytesWritten' = bytesWritten + 1 /\ Flight' = Flight - 1
              \/ /\ wPc \notin {"rename", "resetBytes", "count"} /\ ~Renaming'
                 /\ UNCHANGED <<currIFFilename, bytesWritten>> /\ Flight' <= Flight
           /\ Flight \in Nat /\ Flight' \in Nat
           /\ wPc' # "exited" /\ dataQueue' = <<>> /\ ~WriterDone
           /\ Len(fileHistory') >= Len(fileHistory)
<1> USE DEF WGoto
<1>0. Len(dataQueue) \in Nat /\ dataQueue \in Seq(Slots) /\ NULL \notin Slots
      /\ wPc # "exited" /\ (dataQueue # <<>> => wPc = "pop" /\ Len(dataQueue) = 1)
  BY NullAssumption DEF QueueShape
<1>3. Len(fileHistory') >= Len(fileHistory)
  <2>1. CASE PushHistory
    BY <2>1 DEF PushHistory, WriterTypeOK
  <2>2. CASE ~PushHistory
    <3>1. fileHistory' = fileHistory
      BY <2>2 DEF WriterNext, WriterBegin, OpenFiles, WriterTop, Reopen, ClearBreak, WriterPop,
                  Rename, ResetBytes, WriterSync, WriteWhole, WriteChannel, CountBytes, CheckSize,
                  wNames
    <3> QED
      BY <3>1 DEF WriterTypeOK
  <2> QED
    BY <2>1, <2>2
<1>1. CASE WriterPop
  <2>1. /\ wPc = "pop" /\ dataQueue # <<>> /\ dataQueue' = Tail(dataQueue)
        /\ wPc' = (IF Head(dataQueue) = NULL THEN "exited" ELSE "popped")
        /\ UNCHANGED <<currIFFilename, bytesWritten>>
    BY <1>1 DEF WriterPop, PopFront, wFlags, wNames
  <2>2. Head(dataQueue) \in Slots
    BY <1>0, <2>1
  <2>3. dataQueue' \in Seq(Slots) /\ Len(dataQueue') = 0
    BY <1>0, <2>1
  <2>4. wPc' = "popped" /\ dataQueue' = <<>>
    BY <1>0, <2>1, <2>2, <2>3
  <2> QED
    BY <1>0, <1>3, <2>1, <2>3, <2>4 DEF Opened, Renaming, Flight, WriterDone
<1>2. CASE ~WriterPop
  <2>1. dataQueue' = dataQueue
    BY <1>2 DEF WriterNext, WriterBegin, OpenFiles, WriterTop, Reopen, ClearBreak, PushHistory,
                Rename, ResetBytes, WriterSync, WriteWhole, WriteChannel, CountBytes, CheckSize,
                shared
  <2>2. wPc # "pop"
    BY <1>2 DEF WriterNext, WriterBegin, OpenFiles, WriterTop, Reopen, ClearBreak, PushHistory,
                Rename, ResetBytes, WriterSync, WriteWhole, WriteChannel, CountBytes, CheckSize
  <2>3. dataQueue = <<>> /\ Len(dataQueue) = 0
    BY <1>0, <2>2
  <2>4. CASE Rename
    BY <1>3, <2>1, <2>2, <2>3, <2>4
       DEF WriterDone, Rename, wFlags, FileInv, NamesShape, BreakShape, Opened, Renaming, Flight, WriterTypeOK
  <2>5. CASE ResetBytes
    BY <1>3, <2>1, <2>2, <2>3, <2>5
       DEF WriterDone, ResetBytes, wNames, FileInv, BreakShape, Opened, Renaming, Flight
  <2>6. CASE CountBytes
    BY <1>3, <2>1, <2>2, <2>3, <2>6 DEF WriterDone, CountBytes, wNames, Opened, Renaming, Flight
  <2>7. CASE ~Rename /\ ~ResetBytes /\ ~CountBytes
    <3>1. /\ wPc \notin {"rename", "resetBytes", "count"} /\ ~Renaming' /\ wPc' # "exited"
          /\ UNCHANGED <<currIFFilename, bytesWritten>>
          /\ Opened => Opened'
          /\ wPc' \in {"popped", "write", "count"} => wPc \in {"popped", "write", "count"}
      BY <1>2, <2>7
         DEF WriterNext, WriterBegin, OpenFiles, WriterTop, Reopen, ClearBreak, PushHistory,
             WriterSync, WriteWhole, WriteChannel, CheckSize, wFlags, wNames, Renaming, Opened,
             FileInv, NamesShape, Unopened
    <3> QED
      BY <1>0, <1>3, <2>1, <2>2, <2>3, <3>1 DEF Flight, WriterDone
  <2> QED
    BY <2>4, <2>5, <2>6, <2>7
<1> QED
  BY <1>1, <1>2

-----------------------------------------------------------------------------
(* What is on file.                                                        *)

\* All files but the one being written are full.
LEMMA FilledBefore ==
    ASSUME WriterTypeOK, FileInv, Opened, NEW file \in Nat, file < currIFFilename
    PROVE  Filled(file, MaxFileBlocks)
<1> SUFFICES ASSUME NEW c \in Recorded
             PROVE  file < Len(files[c]) /\ MaxFileBlocks <= Len(files[c][file + 1])
  BY DEF Filled
<1>1. Len(files[c]) = fileNo + Opening(c) /\ FullFiles(c)
  BY FirstChannel DEF FileInv, FilesShape
<1>2. Opening(c) \in {0, 1} /\ fileNo >= currIFFilename + 1 /\ currIFFilename \in Nat /\ fileNo \in Nat
  BY DEF Opening, FileInv, NamesShape, WriterTypeOK
<1>3. file + 1 \in 1 .. Len(files[c]) - 1
  BY <1>1, <1>2
<1> QED
  BY <1>3, <1>1, WriterAssumption DEF FullFiles

\* And that one holds what m_bytesWritten says.
LEMMA FilledNow ==
    ASSUME WriterTypeOK, FileInv, Opened, ~Renaming
    PROVE  Filled(currIFFilename, bytesWritten)
<1> SUFFICES ASSUME NEW c \in Recorded
             PROVE  /\ currIFFilename < Len(files[c])
                    /\ bytesWritten <= Len(files[c][currIFFilename + 1])
  BY DEF Filled
<1>1. Len(files[c]) = fileNo + Opening(c) /\ FullFiles(c) /\ Len(LastFile(c)) = InLast(c)
  BY FirstChannel DEF FileInv, FilesShape
<1>2. /\ fileNo = currIFFilename + (IF wPc \in {"history", "rename"} THEN 2 ELSE 1)
      /\ currIFFilename \in Nat /\ bytesWritten \in 0 .. MaxFileBlocks
      /\ chan \in Nat /\ c \in Nat /\ MaxFileBlocks \in Nat
  BY FirstChannel, WriterAssumption DEF FileInv, NamesShape, WriterTypeOK
<1>3. CASE wPc \in {"history", "rename", "reopened"} \/ (wPc = "reopen" /\ c < chan)
  <2>1. Len(files[c]) = currIFFilename + 2
    BY <1>1, <1>2, <1>3 DEF Opening
  <2>2. Len(files[c][currIFFilename + 1]) = MaxFileBlocks
    BY <1>1, <1>2, <2>1 DEF FullFiles
  <2> QED
    BY <1>2, <2>1, <2>2
<1>4. CASE ~(wPc \in {"history", "rename", "reopened"} \/ (wPc = "reopen" /\ c < chan))
  <2>1. Len(files[c]) = currIFFilename + 1
    BY <1>1, <1>2, <1>4 DEF Opening
  <2>2. Len(files[c][currIFFilename + 1]) = InLast(c)
    BY <1>1, <2>1 DEF LastFile
  <2>3. InLast(c) >= bytesWritten
    BY <1>2, <1>4 DEF InLast, Renaming
  <2> QED
    BY <1>2, <2>1, <2>2, <2>3
<1> QED
  BY <1>3, <1>4

\* What is on file stays there.
LEMMA FilledStays ==
    ASSUME WriterTypeOK, WriterShape, FileInv, WriterNext(TRUE), NEW file \in Nat, NEW k \in Nat,
           Filled(file, k)
    PROVE  Filled(file, k)'
<1> SUFFICES ASSUME NEW c \in Recorded
             PROVE  file < Len(files'[c]) /\ k <= Len(files'[c][file + 1])
  <2>1. Recorded' = Recorded
    BY DEF Recorded, Channels
  <2> QED
    BY <2>1 DEF Filled
<1> USE DEF WGoto
<1>0. files \in [Channels -> Seq(Seq(Nat))] /\ c \in Channels
  BY FirstChannel DEF WriterTypeOK
<1>1. /\ file < Len(files[c]) /\ k <= Len(files[c][file + 1]) /\ c \in Channels
      /\ Len(files[c]) \in Nat
  <2>1. files[c] \in Seq(Seq(Nat))
    BY <1>0
  <2> QED
    BY <1>0, <2>1 DEF Filled
<1>2. CASE OpenFiles
  <2>1. files[c] = <<>>
    BY <1>1, <1>2 DEF OpenFiles, FileInv, NamesShape, Unopened
  <2> QED
    BY <1>1, <2>1
<1>3. CASE Reopen
  <2>1. files' = [files EXCEPT ![chan] = Append(files[chan], <<>>)] /\ chan \in Channels
    BY <1>3, WriterAssumption DEF Reopen, WriterShape, WriterTypeOK, Channels
  <2>2. /\ Len(files'[chan]) = Len(files[chan]) + 1
        /\ \A i \in 1 .. Len(files[chan]) : files'[chan][i] = files[chan][i]
        /\ \A d \in Channels : d # chan => files'[d] = files[d]
    BY <1>0, <2>1, NewFile
  <2>3. CASE c = chan
    <3>1. files'[c][file + 1] = files[c][file + 1]
      BY <1>1, <2>2, <2>3
    <3> QED
      BY <1>1, <2>2, <2>3, <3>1
  <2>4. CASE c # chan
    BY <1>1, <2>2, <2>4
  <2> QED
    BY <2>3, <2>4
<1>4. ASSUME NEW d \in Channels, wPc = "write",
             files' = [files EXCEPT ![d] = [files[d] EXCEPT ![Len(files[d])] =
                                               Append(files[d][Len(files[d])], ddr[nextData])]]
      PROVE  file < Len(files'[c]) /\ k <= Len(files'[c][file + 1])
  <2>1. ddr[nextData] \in Nat /\ files[d] # <<>>
    BY <1>4 DEF WriterShape, WriterTypeOK
  <2>2. /\ Len(files'[d]) = Len(files[d]) /\ Len(files[d]) \in Nat \ {0}
        /\ Len(files[d][Len(files[d])]) \in Nat
        /\ Len(files'[d][Len(files[d])]) = Len(files[d][Len(files[d])]) + 1
        /\ \A i \in 1 .. Len(files[d]) - 1 : files'[d][i] = files[d][i]
        /\ \A e \in Channels : e # d => files'[e] = files[e]
    BY <1>0, <1>4, <2>1, NewBlock
  <2>3. CASE c # d
    BY <1>1, <2>2, <2>3
  <2>4. CASE c = d /\ file + 1 = Len(files[d])
    BY <1>1, <2>2, <2>4
  <2>5. CASE c = d /\ file + 1 # Len(files[d])
    <3>1. file + 1 \in 1 .. Len(files[d]) - 1
      BY <1>1, <2>2, <2>5
    <3> QED
      BY <1>1, <2>2, <2>5, <3>1
  <2> QED
    BY <2>3, <2>4, <2>5
<1>5. CASE WriteWhole
  <2>1. 0 \in Channels
    BY FirstChannel
  <2> QED
    BY <1>4, <1>5, <2>1 DEF WriteWhole, Fwrite
<1>6. CASE WriteChannel
  <2>1. PICK d \in Channels : d = chan
    BY <1>6, WriterAssumption DEF WriteChannel, WriterShape, WriterTypeOK, Channels
  <2>2. /\ wPc = "write"
        /\ files' = [files EXCEPT ![d] = [files[d] EXCEPT ![Len(files[d])] =
                                             Append(files[d][Len(files[d])], ddr[nextData])]]
    BY <1>6, <2>1 DEF WriteChannel, Fwrite
  <2> QED
    BY <1>4, <2>2
<1>7. CASE ~OpenFiles /\ ~Reopen /\ ~WriteWhole /\ ~WriteChannel
  <2>1. files' = files
    BY <1>7 DEF WriterNext, WriterBegin, WriterTop, ClearBreak, PushHistory, Rename, ResetBytes,
                WriterPop, WriterSync, CountBytes, CheckSize
  <2> QED
    BY <1>1, <2>1
<1> QED
  BY <1>2, <1>3, <1>5, <1>6, <1>7

-----------------------------------------------------------------------------
(* The writer's steps.                                                     *)

\* No step of the writer adds to the blocks counted, queued and in its hands.
LEMMA WriterTotal ==
    ASSUME EventInv, Writer, Opened
    PROVE  /\ Counted' + Flight' <= Counted + Flight
           /\ Counted \in Nat /\ Counted' \in Nat /\ Flight \in Nat /\ Flight' \in Nat
<1> USE DEF EventInv, WriterInv
<1>1. WriterTypeOK /\ WriterTypeOK' /\ WriterShape' /\ FileInv' /\ WriterNext(TRUE)
  BY WriterTypes, NamesStep, FilesStep DEF Writer, TypeOK, FileInv
<1>2. /\ Opened'
      /\ \/ /\ wPc = "rename" /\ Renaming' /\ currIFFilename' = currIFFilename + 1
            /\ bytesWritten = MaxFileBlocks /\ Flight' = Flight
         \/ /\ wPc = "resetBytes" /\ ~Renaming' /\ currIFFilename' = currIFFilename
            /\ bytesWritten' = 0 /\ Flight' = Flight
         \/ /\ wPc = "count" /\ ~Renaming' /\ currIFFilename' = currIFFilename
            /\ bytesWritten' = bytesWritten + 1 /\ Flight' = Flight - 1
         \/ /\ wPc \notin {"rename", "resetBytes", "count"} /\ ~Renaming'
            /\ UNCHANGED <<currIFFilename, bytesWritten>> /\ Flight' <= Flight
      /\ Flight \in Nat /\ Flight' \in Nat
  BY <1>1, WriterEffect
<1>3. /\ currIFFilename \in Nat /\ bytesWritten \in Nat /\ MaxFileBlocks \in Nat
      /\ bytesWritten' \in Nat /\ currIFFilename' \in Nat
  BY <1>1, WriterAssumption DEF WriterTypeOK
<1>4. Renaming <=> wPc = "resetBytes"
  BY DEF Renaming
<1> DEFINE P == currIFFilename * MaxFileBlocks
           Q == currIFFilename' * MaxFileBlocks
<1>5. Q = P + (IF wPc = "rename" THEN MaxFileBlocks ELSE 0) /\ P \in Nat
  <2>1. (currIFFilename + 1) * MaxFileBlocks = P + MaxFileBlocks /\ P \in Nat
    BY <1>3
  <2> QED
    BY <1>2, <2>1
<1>6. Counted = P + (IF Renaming THEN 0 ELSE bytesWritten)
  BY <1>1, CountedIs DEF CountedRight
<1>7. Counted' = Q + (IF Renaming' THEN 0 ELSE bytesWritten')
  BY <1>1, <1>2, CountedNext DEF CountedRight
<1> HIDE DEF P, Q
<1>8. Counted' + Flight' <= Counted + Flight
  <2>1. CASE wPc = "rename"
    BY <1>2, <1>3, <1>4, <1>5, <1>6, <1>7, <2>1
  <2>2. CASE wPc = "resetBytes"
    BY <1>2, <1>3, <1>4, <1>5, <1>6, <1>7, <2>2
  <2>3. CASE wPc = "count"
    BY <1>2, <1>3, <1>4, <1>5, <1>6, <1>7, <2>3
  <2>4. CASE wPc \notin {"rename", "resetBytes", "count"}
    <3>1. ~Renaming /\ ~Renaming' /\ bytesWritten' = bytesWritten /\ Flight' <= Flight
      BY <1>2, <1>4, <2>4
    <3>2. Counted \in Nat /\ Counted' = Counted
      BY <1>3, <1>5, <1>6, <1>7, <2>4, <3>1
    <3> QED
      <4>1. \A x, c, d \in Nat : c <= d => x + c <= x + d
        OBVIOUS
      <4> QED
        BY <1>2, <3>1, <3>2, <4>1
  <2> QED
    BY <2>1, <2>2, <2>3, <2>4
<1>9. Counted \in Nat /\ Counted' \in Nat
  <2>1. /\ (IF Renaming THEN 0 ELSE bytesWritten) \in Nat
        /\ (IF Renaming' THEN 0 ELSE bytesWritten') \in Nat
    BY <1>3
  <2>2. P \in Nat /\ Q \in Nat
    BY <1>3, <1>5
  <2> QED
    BY <1>6, <1>7, <2>1, <2>2
<1> QED
  BY <1>2, <1>8, <1>9

LEMMA WriterKeepsWriter ==
    ASSUME EventInv, Writer PROVE WriterInv'
<1> USE DEF EventInv, WriterInv
<1>1. WriterTypeOK /\ WriterTypeOK' /\ WriterShape' /\ FileInv' /\ WriterNext(TRUE)
  BY WriterTypes, NamesStep, FilesStep DEF Writer, TypeOK, FileInv
<1>2. UNCHANGED <<callback, fed, start, seen>> /\ torn' \in BOOLEAN
  BY DEF Writer, TypeOK
<1>3. TypeOK'
  BY <1>1, <1>2 DEF TypeOK, callback
<1>4. /\ Opened => Opened'
      /\ \/ /\ wPc = "rename" /\ Renaming' /\ currIFFilename' = currIFFilename + 1
            /\ bytesWritten = MaxFileBlocks /\ Flight' = Flight
         \/ /\ wPc = "resetBytes" /\ ~Renaming' /\ currIFFilename' = currIFFilename
            /\ bytesWritten' = 0 /\ Flight' = Flight
         \/ /\ wPc = "count" /\ ~Renaming' /\ currIFFilename' = currIFFilename
            /\ bytesWritten' = bytesWritten + 1 /\ Flight' = Flight - 1
         \/ /\ wPc \notin {"rename", "resetBytes", "count"} /\ ~Renaming'
            /\ UNCHANGED <<currIFFilename, bytesWritten>> /\ Flight' <= Flight
      /\ Flight \in Nat /\ Flight' \in Nat /\ wPc' # "exited" /\ dataQueue' = <<>>
  BY <1>1, WriterEffect
<1>5. /\ currIFFilename \in Nat /\ bytesWritten \in Nat /\ MaxFileBlocks \in Nat /\ fed \in Nat
      /\ bytesWritten' \in Nat /\ currIFFilename' \in Nat
  BY <1>1, WriterAssumption DEF WriterTypeOK, TypeOK
<1>6. ASSUME Opened' PROVE Counted' + Flight' <= fed'
  <2>1. Counted' = currIFFilename' * MaxFileBlocks + IF Renaming' THEN 0 ELSE bytesWritten'
    BY <1>1, <1>6, CountedNext DEF CountedRight
  <2>2. CASE Opened
    <3>1. Counted + Flight <= fed /\ fed' = fed
      BY <1>2, <2>2 DEF QueueShape
    <3>2. /\ Counted' + Flight' <= Counted + Flight
          /\ Counted \in Nat /\ Counted' \in Nat /\ Flight \in Nat /\ Flight' \in Nat
      BY <2>2, WriterTotal
    <3>3. \A x, y, c, d, e \in Nat : x + y <= c + d /\ c + d <= e => x + y <= e
      OBVIOUS
    <3> QED
      BY <1>5, <3>1, <3>2, <3>3
  <2>3. CASE ~Opened
    <3>1. wPc = "open" /\ currIFFilename = 0 /\ bytesWritten = 0 /\ dataQueue = <<>>
      <4>1. OpenFiles
        BY <1>1, <1>6, <2>3
           DEF WriterNext, WriterBegin, WriterTop, Reopen, ClearBreak, PushHistory, Rename,
               ResetBytes, WriterPop, WriterSync, WriteWhole, WriteChannel, CountBytes, CheckSize,
               WGoto, Opened
      <4> QED
        BY <4>1 DEF OpenFiles, WGoto, FileInv, NamesShape, Unopened, WriterShape, QueueShape
    <3>2. Flight = 0
      BY <3>1 DEF Flight
    <3>3. currIFFilename' = 0 /\ bytesWritten' = 0 /\ Flight' = 0
      BY <1>4, <1>5, <3>1, <3>2
    <3> QED
      BY <1>2, <1>4, <1>5, <2>1, <3>1, <3>3
  <2> QED
    BY <2>2, <2>3
<1>7. QueueShape'
  BY <1>4, <1>6 DEF QueueShape
<1> QED
  BY <1>1, <1>3, <1>7

LEMMA WriterKeepsCallback ==
    ASSUME EventInv, Writer PROVE CallbackInv' /\ WindowsFit' /\ WindowsWritten' /\ RightData'
<1> USE DEF EventInv, WriterInv, CallbackInv
<1>1. WriterTypeOK /\ WriterNext(TRUE)
  BY DEF Writer, TypeOK
<1>2. /\ UNCHANGED <<callback, fed, start, seen>>
      /\ torn' = (torn \/ (wPc \in {"rename", "resetBytes"} /\ mPc \in {"eventPos", "updateName"}))
  BY DEF Writer
<1>3. UNCHANGED <<mPc, message, name1, name2, pos, plan, windows>>
  BY <1>2 DEF callback
<1>4. /\ Opened => Opened'
      /\ \/ /\ wPc = "rename" /\ Renaming' /\ currIFFilename' = currIFFilename + 1
            /\ bytesWritten' = bytesWritten /\ bytesWritten = MaxFileBlocks
            /\ Flight' = Flight
         \/ /\ wPc = "resetBytes" /\ ~Renaming' /\ currIFFilename' = currIFFilename
            /\ bytesWritten = MaxFileBlocks /\ bytesWritten' = 0 /\ Flight' = Flight
         \/ /\ wPc = "count" /\ ~Renaming' /\ currIFFilename' = currIFFilename
            /\ bytesWritten' = bytesWritten + 1 /\ Flight' = Flight - 1
         \/ /\ wPc \notin {"rename", "resetBytes", "count"} /\ ~Renaming'
            /\ UNCHANGED <<currIFFilename, bytesWritten>> /\ Flight' <= Flight
      /\ Flight \in Nat /\ Flight' \in Nat /\ ~WriterDone
      /\ Len(fileHistory') >= Len(fileHistory)
  BY <1>1, WriterEffect
<1>5. /\ currIFFilename \in Nat /\ bytesWritten \in Nat /\ MaxFileBlocks \in Nat /\ pos \in Nat
      /\ name1 \in Nat /\ start \in Nat /\ (Renaming <=> wPc = "resetBytes") /\ torn \in BOOLEAN
      /\ UpdateBlocks \in Nat
  BY WriterAssumption, UploadAssumption DEF WriterTypeOK, TypeOK, Renaming
<1>6. MessageShape'
  BY <1>3, <1>4 DEF MessageShape
<1>7. NameShape'
  <2> SUFFICES ASSUME ~torn' PROVE NameShape'
    BY DEF NameShape
  <2>1. /\ ~torn /\ ~(wPc \in {"rename", "resetBytes"} /\ mPc \in {"eventPos", "updateName"})
    BY <1>2
  <2>2. mPc = "eventPos" => name1 = currIFFilename' /\ ~Renaming'
    BY <1>4, <1>5, <2>1 DEF NameShape
  <2>3. mPc = "updateName" => /\ ~Renaming' /\ pos <= bytesWritten'
                              /\ currIFFilename' * MaxFileBlocks + pos = start
    BY <1>4, <1>5, <2>1 DEF NameShape
  <2>4. ASSUME mPc \notin {"idle", "eventPos", "updateName"}
        PROVE  /\ name1 <= currIFFilename'
               /\ name1 = currIFFilename' => ~Renaming' /\ pos <= bytesWritten'
    BY <1>4, <1>5, <2>1, <2>4 DEF NameShape
  <2> QED
    BY <1>2, <1>3, <2>2, <2>3, <2>4 DEF NameShape
<1>8. PlaceKnown'
  BY <1>2, <1>3 DEF PlaceKnown
<1>9. LagShape'
  BY <1>2, <1>3, <1>4, <1>5 DEF LagShape
<1>10. \A file \in Nat, k \in Nat : Filled(file, k) => Filled(file, k)'
  BY <1>1, FilledStays
<1>11. PlanShape'
  <2>1. ASSUME mPc = "eventLast"
        PROVE  /\ pos < PreBlocks /\ Len(fileHistory') >= 2
               /\ plan = <<Window(name1, 0, pos + PostBlocks)>>
    <3>1. Len(fileHistory) \in Nat /\ Len(fileHistory') \in Nat
      BY <1>1, WriterTypes DEF WriterTypeOK
    <3> QED
      BY <1>4, <2>1, <3>1 DEF PlanShape
  <2>2. ASSUME NEW file \in 0 .. MaxFed, Filled(file, MaxFileBlocks) PROVE Filled(file, MaxFileBlocks)'
    BY <1>5, <1>10, <2>2, UploadAssumption
  <2>3. ASSUME NEW size \in 0 .. MaxFileBlocks, Filled(name1, pos + size)
        PROVE  Filled(name1, pos + size)'
    BY <1>3, <1>5, <1>10, <2>3
  <2>4. (mPc = "eventAsk" => \/ pos >= PreBlocks /\ plan = <<Window(name1, pos - PreBlocks, PreBlocks + PostBlocks)>>
                             \/ pos < PreBlocks /\ plan = <<Window(name1, 0, pos + PreBlocks)>>
                             \/ /\ pos < PreBlocks
                                /\ \E file \in 0 .. MaxFed, offset \in 0 .. MaxFileBlocks, size \in 0 .. Modulus :
                                       /\ plan = <<Window(name1, 0, pos + PostBlocks), Window(file, offset, size)>>
                                       /\ Filled(file, MaxFileBlocks)')
    BY <2>2 DEF PlanShape
  <2>5. (mPc = "updateAsk" =>
            \E size \in 0 .. MaxFileBlocks :
                /\ plan = <<Window(name1, pos, size)>> /\ pos + size <= MaxFileBlocks
                /\ ~torn' => /\ size <= UpdateBlocks
                             /\ size = UpdateBlocks \/ pos + size = MaxFileBlocks
                             /\ Filled(name1, pos + size)')
    BY <1>2, <2>3 DEF PlanShape
  <2>6. mPc \in {"updateWait", "updateEdge"} => plan = <<Window(name1, pos, UpdateBlocks)>>
    BY DEF PlanShape
  <2> QED
    BY <1>3, <2>1, <2>4, <2>5, <2>6 DEF PlanShape
<1>12. ReadyShape'
  BY <1>2, <1>3, <1>5, <1>10 DEF ReadyShape
<1>13. WindowsFit'
  BY <1>3 DEF WindowsFit
<1>14. WindowsWritten'
  <2>1. ASSUME NEW i \in DOMAIN windows, OnFile(windows[i]) PROVE OnFile(windows[i])'
    <3>1. /\ windows[i].file \in Nat /\ windows[i].offset \in Nat /\ windows[i].size \in Nat
          /\ windows[i].offset + windows[i].size \in Nat
      BY <1>5 DEF MessageShape
    <3>2. Filled(windows[i].file, windows[i].offset + windows[i].size)
      BY <2>1 DEF OnFile, Filled
    <3>3. Filled(windows[i].file, windows[i].offset + windows[i].size)'
      BY <1>3, <1>10, <3>1, <3>2
    <3> QED
      BY <3>3 DEF OnFile, Filled
  <2> QED
    BY <1>2, <1>3, <2>1 DEF WindowsWritten, Scenario3Asked
<1>15. RightData'
  BY <1>2, <1>3 DEF RightData, Covered, Asked, FirstBlock
<1> QED
  BY <1>6, <1>7, <1>8, <1>9, <1>11, <1>12, <1>13, <1>14, <1>15

-----------------------------------------------------------------------------
(* HWThread's, main's and the MQTT client's steps.                         *)

\* Nothing is said of writeOn, and little of the queue.
LEMMA WriterSame ==
    ASSUME WriterShape, FileInv,
           UNCHANGED <<wPc, nextData, chan, bytesWritten, breakFileSignal, wNames, files>>
    PROVE  WriterShape' /\ FileInv' /\ Counted' = Counted
<1>1. WriterShape'
  BY DEF WriterShape
<1>2. FileInv'
  BY FilesFrame
<1>3. Counted' = Counted
  BY DEF Counted, LastFile
<1> QED
  BY <1>1, <1>2, <1>3

LEMMA FeedKeeps ==
    ASSUME EventInv, Feed PROVE EventInv'
<1> USE DEF EventInv, WriterInv
<1>1. /\ fed < MaxFed /\ wPc = "pop" /\ dataQueue = <<>> /\ dataQueue' = Append(<<>>, 0)
      /\ mPc = "idle" \/ (mPc \in {"eventWait", "updateWait"} /\ seen)
      /\ ddr' = [ddr EXCEPT ![0] = fed + 1] /\ fed' = fed + 1 /\ seen' = FALSE
      /\ UNCHANGED <<stopSignal, wVars, callback, start, torn>>
  BY DEF Feed, Push, WriterDone
<1>2. /\ UNCHANGED <<wPc, nextData, chan, bytesWritten, breakFileSignal, wNames, files, writeOn, dropped>>
      /\ UNCHANGED <<mPc, message, name1, name2, pos, plan, windows, start, torn>>
  BY <1>1 DEF wVars, wFlags, callback
<1>3. WriterShape' /\ FileInv' /\ Counted' = Counted
  BY <1>2, WriterSame
<1>4. 0 \in Slots
  BY SizeAssumption DEF Slots
<1>5. fed \in Nat /\ fed' \in Nat /\ fed' \in 0 .. MaxFed
  BY <1>1, UploadAssumption DEF TypeOK
<1>6. TypeOK'
  <2>1. WriterTypeOK'
    BY <1>1, <1>2, <1>4, <1>5 DEF TypeOK, WriterTypeOK, wNames
  <2> QED
    BY <1>1, <1>2, <1>5, <2>1 DEF TypeOK
<1>7. Len(dataQueue') = 1 /\ dataQueue' \in Seq(Slots) /\ Flight = 0 /\ Flight' = 1
  BY <1>1, <1>2, <1>4 DEF Flight
<1>8. QueueShape'
  <2>1. Opened /\ Counted + 0 <= fed
    <3>1. Opened
      BY <1>1 DEF Opened
    <3>2. Counted + Flight <= fed
      BY <3>1 DEF QueueShape
    <3> QED
      BY <1>7, <3>1, <3>2
  <2>2. Counted \in Nat
    <3>1. Counted = currIFFilename * MaxFileBlocks + (IF Renaming THEN 0 ELSE bytesWritten)
      BY <2>1, CountedIs DEF CountedRight, TypeOK
    <3>2. currIFFilename * MaxFileBlocks \in Nat /\ (IF Renaming THEN 0 ELSE bytesWritten) \in Nat
      BY WriterAssumption DEF TypeOK, WriterTypeOK
    <3> QED
      BY <3>1, <3>2
  <2>3. Counted' + Flight' <= fed'
    BY <1>1, <1>3, <1>5, <1>7, <2>1, <2>2
  <2> QED
    BY <1>1, <1>2, <1>7, <2>3 DEF QueueShape
<1>9. LagShape'
  <2> SUFFICES ASSUME ~torn, pos + UpdateBlocks < MaxFileBlocks, mPc = "updateWait"
               PROVE  pos <= bytesWritten /\ bytesWritten + 1 <= pos + UpdateBlocks
    BY <1>1, <1>2, <1>7 DEF LagShape
  <2>1. pos <= bytesWritten /\ bytesWritten < pos + UpdateBlocks
    BY <1>1 DEF CallbackInv, LagShape
  <2> QED
    BY <2>1, UploadAssumption, WriterAssumption DEF TypeOK, WriterTypeOK
<1>10. /\ MessageShape' /\ NameShape' /\ PlaceKnown' /\ PlanShape' /\ ReadyShape'
       /\ WindowsFit' /\ WindowsWritten' /\ RightData'
  <2> USE DEF CallbackInv
  <2>1. \A file, k : Filled(file, k)' = Filled(file, k)
    BY <1>2 DEF Filled
  <2>2. MessageShape' /\ NameShape' /\ PlaceKnown'
    BY <1>2 DEF MessageShape, NameShape, PlaceKnown, Opened, Renaming, wNames
  <2>3. PlanShape' /\ ReadyShape'
    BY <1>1, <1>2, <2>1 DEF PlanShape, ReadyShape, wNames
  <2>4. WindowsFit' /\ WindowsWritten' /\ RightData'
    BY <1>2 DEF WindowsFit, WindowsWritten, RightData, OnFile, Scenario3Asked, Covered, Asked, FirstBlock
  <2> QED
    BY <2>2, <2>3, <2>4
<1> QED
  BY <1>3, <1>6, <1>8, <1>9, <1>10 DEF CallbackInv

\* Between messages the invariant speaks of the writer and of the last windows only.
LEMMA IdleKeeps ==
    ASSUME EventInv, mPc = "idle", UNCHANGED <<callback, watch, seen>>, UNCHANGED <<files>>,
           WriterInv'
    PROVE  EventInv'
<1> USE DEF EventInv, CallbackInv, callback, watch
<1>1. CallbackInv'
  BY DEF MessageShape, NameShape, PlaceKnown, LagShape, PlanShape, ReadyShape
<1>2. WindowsFit' /\ WindowsWritten' /\ RightData'
  BY DEF WindowsFit, WindowsWritten, RightData, OnFile, Scenario3Asked, Covered, Asked, FirstBlock
<1> QED
  BY <1>1, <1>2

LEMMA OthersKeep ==
    ASSUME EventInv, StartWriter \/ Mqtt PROVE EventInv'
<1> USE DEF EventInv, WriterInv
<1>1. CASE StartWriter
  <2>1. /\ wPc = "unstarted" /\ wPc' = "start"
        /\ UNCHANGED <<nextData, chan, wFlags, wNames, files, dropped, shared, callback, watch, seen>>
    BY <1>1 DEF StartWriter, WGoto
  <2>2. mPc = "idle" /\ dataQueue = <<>>
    BY <2>1 DEF CallbackInv, MessageShape, QueueShape, Opened
  <2>3. TypeOK'
    BY <2>1 DEF TypeOK, WriterTypeOK, WLabels, wFlags, wNames, shared, callback, watch
  <2>4. WriterShape' /\ FileInv'
    BY <2>1 DEF WriterShape, FileInv, NamesShape, FilesShape, BreakShape, Unopened, Opened, wFlags, wNames
  <2>5. QueueShape'
    BY <2>1, <2>2 DEF QueueShape, Opened, shared
  <2> QED
    BY <2>1, <2>2, <2>3, <2>4, <2>5, IdleKeeps
<1>2. CASE Mqtt
  <2>1. PICK value \in BOOLEAN : mPc = "idle" /\ SetWrite(value) /\ UNCHANGED <<callback, watch, seen>>
    BY <1>2 DEF Mqtt
  <2>2. /\ writeOn' \in BOOLEAN
        /\ UNCHANGED <<wPc, nextData, chan, breakFileSignal, bytesWritten, wNames, files, dropped, shared>>
    BY <2>1 DEF SetWrite
  <2>3. TypeOK'
    BY <2>1, <2>2 DEF TypeOK, WriterTypeOK, wNames, shared, callback, watch
  <2>4. WriterShape' /\ FileInv' /\ Counted' = Counted
    BY <2>2, WriterSame
  <2>5. QueueShape'
    BY <2>1, <2>2, <2>4 DEF QueueShape, Opened, Flight, shared, watch
  <2> QED
    BY <2>1, <2>2, <2>3, <2>4, <2>5, IdleKeeps
<1> QED
  BY <1>1, <1>2

-----------------------------------------------------------------------------
(* The callback's steps.                                                   *)

\* They leave the writer alone.
LEMMA CallbackKeepsWriter ==
    ASSUME EventInv, UNCHANGED <<wVars, shared, fed>>,
           mPc' \in {"idle", "eventPos", "eventWait", "eventEdge", "eventPlan", "eventLast",
                     "eventAsk", "updateName", "updateWait", "updateEdge", "updateAsk"},
           name1' \in 0 .. MaxFed, name2' \in 0 .. MaxFed, pos' \in 0 .. MaxFileBlocks,
           start' \in 0 .. MaxFed, seen' \in BOOLEAN, torn' \in BOOLEAN
    PROVE  WriterInv'
<1> USE DEF EventInv, WriterInv, wVars, wFlags
<1>1. TypeOK'
  BY DEF TypeOK, WriterTypeOK, wNames, shared
<1>2. WriterShape' /\ FileInv' /\ Counted' = Counted
  BY WriterSame
<1>3. QueueShape'
  BY <1>2 DEF QueueShape, Opened, Flight, shared
<1> QED
  BY <1>1, <1>2, <1>3

\* Where a message finds the recording.
LEMMA Place ==
    ASSUME EventInv, Opened
    PROVE  /\ currIFFilename \in 0 .. MaxFed /\ bytesWritten \in 0 .. MaxFileBlocks
           /\ Counted \in 0 .. MaxFed
           /\ ~Renaming => currIFFilename * MaxFileBlocks + bytesWritten = Counted
           /\ Flight \in Nat /\ Flight <= 1
<1> USE DEF EventInv, WriterInv
<1>1. /\ currIFFilename \in Nat /\ bytesWritten \in 0 .. MaxFileBlocks /\ MaxFileBlocks \in Nat \ {0}
      /\ fed \in 0 .. MaxFed /\ MaxFed \in Nat
  BY WriterAssumption, UploadAssumption DEF TypeOK, WriterTypeOK
<1> DEFINE P == currIFFilename * MaxFileBlocks
           b == IF Renaming THEN 0 ELSE bytesWritten
<1>2. Counted = P + b
  BY CountedIs DEF CountedRight, TypeOK
<1>3. P \in Nat /\ b \in Nat
  BY <1>1
<1>4. Counted + Flight <= fed
  BY DEF QueueShape
<1>5. Flight \in Nat /\ Flight <= 1
  <2>1. CASE dataQueue = <<>>
    BY <2>1 DEF Flight
  <2>2. CASE dataQueue # <<>>
    <3>1. wPc = "pop" /\ Len(dataQueue) = 1
      BY <2>2 DEF QueueShape
    <3> QED
      BY <3>1 DEF Flight
  <2> QED
    BY <2>1, <2>2
<1>6. P <= fed
  <2> HIDE DEF P, b
  <2>1. \A p, c, f, x \in Nat : p + c + f <= x => p <= x
    OBVIOUS
  <2>2. P + b + Flight <= fed /\ fed \in Nat
    BY <1>1, <1>2, <1>4
  <2> QED
    BY <1>3, <1>5, <2>1, <2>2
<1>7. currIFFilename <= fed
  BY <1>1, <1>6
<1>8. Counted \in 0 .. MaxFed
  <2> HIDE DEF P, b
  <2>1. \A c, f, x, y \in Nat : c + f <= x /\ x <= y => c \in 0 .. y
    OBVIOUS
  <2>2. Counted \in Nat
    BY <1>2, <1>3
  <2>3. fed \in Nat /\ fed <= MaxFed
    BY <1>1
  <2> QED
    BY <1>1, <1>4, <1>5, <2>1, <2>2, <2>3
<1> QED
  BY <1>1, <1>2, <1>5, <1>7, <1>8

\* Unsigned differences that do not wrap.
LEMMA Unsigned ==
    ASSUME NEW n \in 0 .. MaxFileBlocks PROVE n % Modulus = n
<1>1. n \in 0 .. Modulus - 1 /\ Modulus \in Nat \ {0}
  BY WriterAssumption, UploadAssumption
<1> QED
  BY <1>1

LEMMA Types ==
    ASSUME EventInv
    PROVE  /\ name1 \in 0 .. MaxFed /\ pos \in 0 .. MaxFileBlocks /\ start \in 0 .. MaxFed
           /\ MaxFileBlocks \in Nat \ {0} /\ PreBlocks \in 0 .. MaxFileBlocks /\ PostBlocks \in Nat
           /\ UpdateBlocks \in 1 .. MaxFileBlocks /\ bytesWritten \in 0 .. MaxFileBlocks
           /\ currIFFilename \in Nat /\ MaxFed \in Nat /\ Modulus \in Nat \ {0}
           /\ name2 \in 0 .. MaxFed /\ seen \in BOOLEAN /\ torn \in BOOLEAN
  BY WriterAssumption, UploadAssumption DEF EventInv, WriterInv, TypeOK, WriterTypeOK

\* A callback that has asked for nothing yet.
LEMMA NoWindows ==
    ASSUME windows' = <<>> PROVE WindowsFit' /\ WindowsWritten' /\ RightData'
  BY DEF WindowsFit, WindowsWritten, RightData

LEMMA FilledLess ==
    ASSUME WriterTypeOK, NEW file \in Nat, NEW k \in Nat, NEW j \in 0 .. k, Filled(file, k)
    PROVE  Filled(file, j)
<1> SUFFICES ASSUME NEW c \in Recorded PROVE j <= Len(files[c][file + 1])
  BY DEF Filled
<1>1. file < Len(files[c]) /\ k <= Len(files[c][file + 1])
  BY DEF Filled
<1>2. files[c] \in Seq(Seq(Nat))
  BY FirstChannel DEF WriterTypeOK
<1>3. Len(files[c][file + 1]) \in Nat
  BY <1>1, <1>2
<1> QED
  BY <1>1, <1>3

\* A wait that saw m_bytesWritten reach its mark, or fall, ends with the data on file.
LEMMA WaitEnds ==
    ASSUME EventInv, ~torn, mPc \notin {"idle", "eventPos", "updateName"}, NEW mark \in Nat,
           bytesWritten >= mark \/ bytesWritten < pos,
           NEW k \in 0 .. MaxFileBlocks, k <= mark
    PROVE  Filled(name1, k)
<1>1. /\ name1 <= currIFFilename
      /\ name1 = currIFFilename => ~Renaming /\ pos <= bytesWritten
  BY DEF EventInv, CallbackInv, NameShape
<1>2. WriterTypeOK /\ FileInv /\ Opened
  BY DEF EventInv, WriterInv, TypeOK, CallbackInv, MessageShape
<1>3. CASE name1 = currIFFilename
  <2>1. Filled(name1, bytesWritten)
    BY <1>1, <1>2, <1>3, FilledNow
  <2>2. k \in 0 .. bytesWritten
    BY <1>1, <1>3, Types
  <2> QED
    BY <1>2, <2>1, <2>2, FilledLess, Types
<1>4. CASE name1 # currIFFilename
  <2>1. Filled(name1, MaxFileBlocks)
    BY <1>1, <1>2, <1>4, FilledBefore, Types
  <2> QED
    BY <1>2, <2>1, FilledLess, Types
<1> QED
  BY <1>3, <1>4

LEMMA EventBegins ==
    ASSUME EventInv, Event \/ EventPos PROVE EventInv'
<1> USE DEF EventInv, CallbackInv, MGoto
<1>1. CASE Event
  <2>1. /\ mPc = "idle" /\ mPc' = "eventPos" /\ files[0] # <<>> /\ name1' = currIFFilename
        /\ torn' = Renaming /\ windows' = <<>> /\ message' = "event"
        /\ UNCHANGED <<name2, pos, plan, fed, seen, start, wVars, shared>>
    BY <1>1 DEF Event
  <2>2. Opened
    BY <2>1, FirstChannel
       DEF WriterInv, TypeOK, WriterTypeOK, WLabels, QueueShape, FileInv, NamesShape, Unopened, Opened
  <2>3. WriterInv'
    <3>1. name1' \in 0 .. MaxFed
      BY <2>1, <2>2, Place
    <3> QED
      BY <2>1, <3>1, CallbackKeepsWriter, Types DEF Renaming
  <2>4. MessageShape' /\ NameShape'
    <3>1. wPc' = wPc /\ currIFFilename' = currIFFilename /\ Opened' /\ DOMAIN windows' = {}
      BY <2>1, <2>2 DEF Opened, wVars, wNames
    <3>2. MessageShape'
      BY <2>1, <3>1 DEF MessageShape
    <3>3. NameShape'
      BY <2>1, <3>1 DEF NameShape, Renaming
    <3> QED
      BY <3>2, <3>3
  <2>5. PlaceKnown' /\ LagShape' /\ PlanShape' /\ ReadyShape'
    BY <2>1 DEF PlaceKnown, LagShape, PlanShape, ReadyShape
  <2> QED
    BY <2>1, <2>3, <2>4, <2>5, NoWindows
<1>2. CASE EventPos
  <2>1. /\ mPc = "eventPos" /\ mPc' = "eventWait" /\ pos' = bytesWritten /\ start' = Counted
        /\ seen' = FALSE
        /\ UNCHANGED <<message, name1, name2, plan, windows, fed, torn, wVars, shared>>
    BY <1>2 DEF EventPos
  <2>2. Opened /\ windows = <<>> /\ message = "event"
    BY <2>1 DEF MessageShape
  <2>3. WriterInv'
    BY <2>1, <2>2, Place, CallbackKeepsWriter, Types
  <2>4. MessageShape' /\ NameShape'
    BY <2>1, <2>2, Types DEF MessageShape, NameShape, Opened, Renaming, wVars, wNames, wFlags
  <2>5. PlaceKnown'
    BY <2>1, <2>2, Place DEF PlaceKnown, NameShape
  <2>6. LagShape' /\ PlanShape' /\ ReadyShape'
    BY <2>1 DEF LagShape, PlanShape, ReadyShape
  <2> QED
    BY <2>1, <2>2, <2>3, <2>4, <2>5, <2>6, NoWindows
<1> QED
  BY <1>1, <1>2

\* A step of the callback between the position and the upload: what it changes is its
\* control point, the plan, name2 and seen.
LEMMA Between ==
    ASSUME EventInv, mPc \notin {"idle", "eventPos", "updateName"},
           mPc' \notin {"idle", "eventPos", "updateName"},
           mPc' \in {"eventWait", "eventEdge", "eventPlan", "eventLast", "eventAsk",
                     "updateWait", "updateEdge", "updateAsk"},
           mPc' \in {"eventWait", "eventEdge", "eventPlan", "eventLast", "eventAsk"}
              <=> mPc \in {"eventWait", "eventEdge", "eventPlan", "eventLast", "eventAsk"},
           UNCHANGED <<message, name1, pos, windows, watch, wVars, shared>>,
           name2' \in 0 .. MaxFed, seen' \in BOOLEAN,
           LagShape', PlanShape', ReadyShape'
    PROVE  EventInv'
<1> USE DEF EventInv, CallbackInv
<1>1. WriterInv'
  BY CallbackKeepsWriter, Types DEF watch
<1>2. MessageShape'
  BY DEF MessageShape, Opened, wVars, WriterInv, TypeOK
<1>3. NameShape' /\ PlaceKnown'
  BY DEF NameShape, PlaceKnown, Renaming, wVars, wNames, wFlags, watch
<1>4. windows' = <<>>
  BY DEF MessageShape
<1> QED
  BY <1>1, <1>2, <1>3, <1>4, NoWindows

LEMMA EventWaits ==
    ASSUME EventInv, EventWait \/ EventEdge PROVE EventInv'
<1> USE DEF EventInv, CallbackInv, MGoto
<1>1. /\ mPc \in {"eventWait", "eventEdge"} /\ mPc' \in {"eventWait", "eventEdge", "eventPlan"}
      /\ UNCHANGED <<message, name1, name2, pos, plan, windows, watch, wVars, shared>>
      /\ seen' \in BOOLEAN
      /\ mPc' = "eventPlan" => bytesWritten >= pos + PostBlocks \/ bytesWritten < pos
  <2>1. CASE EventWait
    <3>1. /\ mPc = "eventWait"
          /\ mPc' = IF bytesWritten < pos + PostBlocks THEN "eventEdge" ELSE "eventPlan"
          /\ seen' = WriterDone
          /\ UNCHANGED <<message, name1, name2, pos, plan, windows, watch, wVars, shared>>
      BY <2>1 DEF EventWait
    <3>2. seen' \in BOOLEAN
      BY <3>1 DEF WriterDone
    <3>3. ~(bytesWritten < pos + PostBlocks) => bytesWritten >= pos + PostBlocks
      BY Types
    <3> QED
      BY <3>1, <3>2, <3>3
  <2>2. CASE EventEdge
    BY <2>2, Types DEF EventEdge
  <2> QED
    BY <2>1, <2>2
<1>2. LagShape' /\ PlanShape'
  BY <1>1 DEF LagShape, PlanShape
<1>3. ReadyShape'
  <2> SUFFICES ASSUME ~torn', mPc' = "eventPlan", NEW k \in 0 .. MaxFileBlocks,
                      k <= pos + PostBlocks
               PROVE  Filled(name1, k)'
    BY <1>1 DEF ReadyShape
  <2>1. Filled(name1, k)
    BY <1>1, WaitEnds, Types DEF watch
  <2> QED
    BY <1>1, <2>1 DEF Filled, wVars
<1> QED
  BY <1>1, <1>2, <1>3, Between, Types

LEMMA EventPlans ==
    ASSUME EventInv, Scenario1 \/ Scenario2 \/ Scenario3 PROVE EventInv'
<1> USE DEF EventInv, CallbackInv, MGoto
<1>1. /\ mPc = "eventPlan" /\ mPc' \in {"eventLast", "eventAsk"}
      /\ UNCHANGED <<message, name1, name2, pos, windows, watch, seen, wVars, shared>>
      /\ \/ /\ mPc' = "eventAsk" /\ pos >= PreBlocks
            /\ plan' = <<Window(name1, pos - PreBlocks, PreBlocks + PostBlocks)>>
         \/ /\ mPc' = "eventLast" /\ pos < PreBlocks /\ Len(fileHistory) >= 2
            /\ plan' = <<Window(name1, 0, pos + PostBlocks)>>
         \/ /\ mPc' = "eventAsk" /\ pos < PreBlocks
            /\ plan' = <<Window(name1, 0, pos + PreBlocks)>>
  BY DEF Scenario1, Scenario2, Scenario3
<1>2. LagShape'
  BY <1>1 DEF LagShape
<1>3. PlanShape'
  BY <1>1 DEF PlanShape, wVars, wNames
<1>4. ReadyShape'
  BY <1>1 DEF ReadyShape, Filled, watch, wVars
<1> QED
  BY <1>1, <1>2, <1>3, <1>4, Between, Types

LEMMA EventNamesLast ==
    ASSUME EventInv, Scenario2Last PROVE EventInv'
<1> USE DEF EventInv, CallbackInv, MGoto
<1> DEFINE offset == (MaxFileBlocks - PreBlocks + pos) % Modulus
           size == (PreBlocks - plan[1].size) % Modulus
<1>1. /\ mPc = "eventLast" /\ mPc' = "eventAsk" /\ name2' = LastIFFilename
      /\ plan' = <<plan[1], Window(LastIFFilename, offset, size)>>
      /\ UNCHANGED <<message, name1, pos, windows, watch, seen, wVars, shared>>
  BY DEF Scenario2Last
<1>2. /\ pos < PreBlocks /\ Len(fileHistory) >= 2
      /\ plan = <<Window(name1, 0, pos + PostBlocks)>>
  BY <1>1 DEF PlanShape
<1>3. LastIFFilename \in 0 .. MaxFed /\ Filled(LastIFFilename, MaxFileBlocks)
  <2>1. Opened /\ FileInv /\ WriterTypeOK
    BY <1>1 DEF MessageShape, WriterInv, TypeOK
  <2>2. fileHistory = [i \in 1 .. (IF wPc = "rename" THEN currIFFilename + 1
                                                    ELSE currIFFilename) |-> i - 1]
    BY <2>1 DEF FileInv, NamesShape
  <2>3. PICK n \in Nat : n = (IF wPc = "rename" THEN currIFFilename + 1 ELSE currIFFilename)
    BY Types
  <2>4. fileHistory = [i \in 1 .. n |-> i - 1]
    BY <2>2, <2>3
  <2>5. Len(fileHistory) = n
    BY <2>4
  <2>6. fileHistory[n - 1] = n - 2
    BY <1>2, <2>3, <2>4, <2>5
  <2>7. LastIFFilename = n - 2 /\ n >= 2 /\ n <= currIFFilename + 1
    <3>1. n >= 2
      BY <1>2, <2>5
    <3>2. n <= currIFFilename + 1
      BY <2>3, Types
    <3>3. LastIFFilename = fileHistory[n - 1]
      BY <2>5, <3>1 DEF LastIFFilename
    <3> QED
      BY <2>6, <3>1, <3>2, <3>3
  <2>8. n - 2 \in Nat /\ n - 2 < currIFFilename /\ currIFFilename \in 0 .. MaxFed
    BY <2>1, <2>3, <2>7, Types, Place
  <2>9. Filled(n - 2, MaxFileBlocks)
    BY <2>1, <2>8, FilledBefore
  <2>10. n - 2 \in 0 .. MaxFed
    <3>1. \A i \in Nat, j \in 0 .. MaxFed : i < j => i \in 0 .. MaxFed
      BY Types
    <3> QED
      BY <2>8, <3>1
  <2> HIDE DEF EventInv, CallbackInv, MGoto
  <2> QED
    BY <2>7, <2>9, <2>10, Zenon
<1>4. offset \in 0 .. MaxFileBlocks
  <2>1. MaxFileBlocks - PreBlocks + pos \in 0 .. MaxFileBlocks
    <3>1. \A m, p, q \in Nat : p <= m /\ q < p => m - p + q \in 0 .. m
      OBVIOUS
    <3>2. /\ MaxFileBlocks \in Nat /\ PreBlocks \in Nat /\ pos \in Nat /\ PreBlocks <= MaxFileBlocks
          /\ pos < PreBlocks
      BY <1>2, Types
    <3> QED
      BY <3>1, <3>2
  <2> QED
    BY <2>1, Unsigned
<1>5. size \in 0 .. Modulus
  <2>1. plan[1].size = pos + PostBlocks
    BY <1>2 DEF Window
  <2>2. (PreBlocks - (pos + PostBlocks)) % Modulus \in 0 .. Modulus
    BY Types
  <2> QED
    BY <2>1, <2>2
<1> HIDE DEF offset, size
<1>6. plan' = <<Window(name1, 0, pos + PostBlocks), Window(LastIFFilename, offset, size)>>
  BY <1>1, <1>2
<1>7. Filled(LastIFFilename, MaxFileBlocks)'
  <2>1. PICK file \in 0 .. MaxFed : file = LastIFFilename
    BY <1>3
  <2>2. LastIFFilename' = LastIFFilename
    BY <1>1 DEF LastIFFilename, wVars, wNames
  <2> QED
    BY <1>1, <1>3, <2>2 DEF Filled, wVars
<1>8. LagShape'
  BY <1>1 DEF LagShape
<1>9. PlanShape'
  <2>1. \E file \in 0 .. MaxFed, o \in 0 .. MaxFileBlocks, z \in 0 .. Modulus :
            /\ plan' = <<Window(name1', 0, pos' + PostBlocks), Window(file, o, z)>>
            /\ Filled(file, MaxFileBlocks)'
    <3>1. files' = files /\ name1' = name1 /\ pos' = pos
      BY <1>1 DEF wVars
    <3>2. \A file : Filled(file, MaxFileBlocks)' = Filled(file, MaxFileBlocks)
      BY <3>1 DEF Filled
    <3> QED
      BY <1>3, <1>4, <1>5, <1>6, <3>1, <3>2
  <2> QED
    BY <1>1, <1>2, <2>1 DEF PlanShape
<1>10. ReadyShape'
  BY <1>1 DEF ReadyShape, Filled, watch, wVars
<1> QED
  BY <1>1, <1>3, <1>8, <1>9, <1>10, Between, Types

\* "Sanity check.", for a window that begins in a file.
LEMMA CutIs ==
    ASSUME NEW file, NEW offset \in 0 .. MaxFileBlocks, NEW size \in Nat
    PROVE  \E z \in 0 .. MaxFileBlocks :
               /\ Cut(Window(file, offset, size)) = Window(file, offset, z)
               /\ offset + z <= MaxFileBlocks /\ z <= size
               /\ z = size \/ offset + z = MaxFileBlocks
<1>1. MaxFileBlocks \in Nat
  BY WriterAssumption
<1>2. (MaxFileBlocks - offset) % Modulus = MaxFileBlocks - offset
  BY <1>1, Unsigned
<1> DEFINE w == Window(file, offset, size)
<1>3. Cut(w) = IF size > MaxFileBlocks - offset
               THEN Window(file, offset, MaxFileBlocks - offset) ELSE w
  BY <1>2 DEF Cut, Window
<1>4. CASE size > MaxFileBlocks - offset
  BY <1>1, <1>3, <1>4
<1>5. CASE ~(size > MaxFileBlocks - offset)
  BY <1>1, <1>3, <1>5
<1> QED
  BY <1>4, <1>5

LEMMA OneWindow ==
    ASSUME NEW file, NEW offset, NEW size, windows' = <<Window(file, offset, size)>>
    PROVE  Covered' = file * MaxFileBlocks + offset + 1 .. file * MaxFileBlocks + offset + 1 + size - 1
<1>1. DOMAIN windows' = {1} /\ windows'[1] = Window(file, offset, size)
  OBVIOUS
<1> DEFINE I(w) == FirstBlock(w) .. FirstBlock(w) + w.size - 1
<1>2. Covered' = UNION {I(windows'[i]) : i \in DOMAIN windows'}
  BY DEF Covered, FirstBlock
<1>3. I(Window(file, offset, size))
         = file * MaxFileBlocks + offset + 1 .. file * MaxFileBlocks + offset + 1 + size - 1
  BY DEF FirstBlock, Window
<1> HIDE DEF I
<1>4. Covered' = I(windows'[1])
  BY <1>1, <1>2
<1> QED
  BY <1>1, <1>3, <1>4

\* A window of the recording from pre blocks before a place, cut at the end of its file.
LEMMA SameBlocks ==
    ASSUME NEW s \in Nat, NEW p \in Nat, NEW pre \in Nat, NEW post \in Nat, NEW m \in Nat,
           NEW z \in Nat, NEW from \in Nat, from = s + p, p >= pre, (p - pre) + z <= m, z <= pre + post,
           z = pre + post \/ (p - pre) + z = m
    PROVE  s + (p - pre) + 1 .. s + (p - pre) + 1 + z - 1
               = {b \in from - pre + 1 .. from + post : b <= s + m}
<1>1. CASE z = pre + post
  BY <1>1
<1>2. CASE (p - pre) + z = m
  BY <1>2
<1> QED
  BY <1>1, <1>2

\* The step that hands windows to upload: what remains to be shown is about these.
LEMMA Uploads ==
    ASSUME EventInv, mPc \in {"eventAsk", "updateAsk"}, mPc' = "idle",
           UNCHANGED <<message, name1, name2, pos, watch, seen, wVars, shared>>,
           \A i \in DOMAIN windows' :
               \E file \in 0 .. MaxFed, offset \in 0 .. MaxFileBlocks, size \in 0 .. MaxFileBlocks :
                   windows'[i] = Window(file, offset, size) /\ offset + size <= MaxFileBlocks,
           WindowsWritten', RightData'
    PROVE  EventInv'
<1>1. WriterInv'
  BY CallbackKeepsWriter, Types DEF watch
<1>2. \A i \in DOMAIN windows' :
          /\ windows'[i] \in [file : 0 .. MaxFed, offset : 0 .. MaxFileBlocks, size : 0 .. MaxFileBlocks]
          /\ windows'[i].offset + windows'[i].size <= MaxFileBlocks
  BY DEF Window
<1>3. MessageShape'
  BY <1>2 DEF MessageShape
<1>4. NameShape' /\ PlaceKnown' /\ LagShape' /\ PlanShape' /\ ReadyShape'
  BY DEF NameShape, PlaceKnown, LagShape, PlanShape, ReadyShape
<1>5. WindowsFit'
  BY <1>2 DEF WindowsFit
<1> QED
  BY <1>1, <1>3, <1>4, <1>5 DEF EventInv, CallbackInv

\* OnFile and Filled say the same.
LEMMA OnFileIs ==
    ASSUME UNCHANGED wVars, NEW file, NEW offset, NEW size, Filled(file, offset + size)
    PROVE  OnFile(Window(file, offset, size))'
  BY DEF OnFile, Filled, Window, wVars

LEMMA EventAsks ==
    ASSUME EventInv, EventAsk PROVE EventInv'
<1> USE DEF EventInv, CallbackInv, MGoto
<1>1. /\ mPc = "eventAsk" /\ mPc' = "idle" /\ windows' = [i \in DOMAIN plan |-> Cut(plan[i])]
      /\ UNCHANGED <<message, name1, name2, pos, watch, seen, wVars, shared>>
  BY DEF EventAsk
<1>2. message = "event" /\ UNCHANGED <<message, pos, name1, start, torn>>
  BY <1>1 DEF MessageShape, watch
<1>3. ~torn => \A k \in 0 .. MaxFileBlocks : k <= pos + PostBlocks => Filled(name1, k)
  BY <1>1 DEF ReadyShape
<1>4. CASE pos >= PreBlocks /\ plan = <<Window(name1, pos - PreBlocks, PreBlocks + PostBlocks)>>
  <2>1. pos - PreBlocks \in 0 .. MaxFileBlocks /\ PreBlocks + PostBlocks \in Nat
    BY <1>4, Types
  <2>2. PICK z \in 0 .. MaxFileBlocks :
            /\ Cut(plan[1]) = Window(name1, pos - PreBlocks, z)
            /\ (pos - PreBlocks) + z <= MaxFileBlocks /\ z <= PreBlocks + PostBlocks
            /\ z = PreBlocks + PostBlocks \/ (pos - PreBlocks) + z = MaxFileBlocks
    BY <1>4, <2>1, CutIs
  <2>3. windows' = <<Window(name1, pos - PreBlocks, z)>>
    BY <1>1, <1>4, <2>2
  <2>4. \A i \in DOMAIN windows' : windows'[i] = Window(name1, pos - PreBlocks, z)
    BY <2>3
  <2>5. WindowsWritten'
    <3> SUFFICES ASSUME ~torn PROVE OnFile(Window(name1, pos - PreBlocks, z))'
      BY <1>1, <1>2, <2>4 DEF WindowsWritten
    <3>1. (pos - PreBlocks) + z \in 0 .. MaxFileBlocks /\ (pos - PreBlocks) + z <= pos + PostBlocks
      BY <2>1, <2>2, Types
    <3>2. Filled(name1, (pos - PreBlocks) + z)
      BY <1>3, <3>1
    <3> QED
      BY <1>1, <3>2, OnFileIs
  <2>6. RightData'
    <3> SUFFICES ASSUME ~torn PROVE Covered' = Asked'
      BY <1>1, <1>2 DEF RightData
    <3> DEFINE S == name1 * MaxFileBlocks
    <3>1. S \in Nat /\ (name1 + 1) * MaxFileBlocks = S + MaxFileBlocks
      BY Types
    <3>2. start = S + pos
      BY <1>1 DEF PlaceKnown
    <3>3. Asked' = {b \in start - PreBlocks + 1 .. start + PostBlocks : b <= S + MaxFileBlocks}
      BY <1>2, <3>1 DEF Asked
    <3>4. Covered' = S + (pos - PreBlocks) + 1 .. S + (pos - PreBlocks) + 1 + z - 1
      BY <2>3, OneWindow
    <3> HIDE DEF S
    <3>5. S + (pos - PreBlocks) + 1 .. S + (pos - PreBlocks) + 1 + z - 1
              = {b \in start - PreBlocks + 1 .. start + PostBlocks : b <= S + MaxFileBlocks}
      <4>1. /\ start \in Nat /\ pos \in Nat /\ PreBlocks \in Nat /\ PostBlocks \in Nat /\ MaxFileBlocks \in Nat
            /\ z \in Nat
        BY Types
      <4> QED
        BY <1>4, <2>2, <3>1, <3>2, <4>1, SameBlocks
    <3> QED
      BY <3>3, <3>4, <3>5
  <2> QED
    BY <1>1, <2>1, <2>2, <2>4, <2>5, <2>6, Uploads, Types
<1>5. CASE pos < PreBlocks /\ plan = <<Window(name1, 0, pos + PreBlocks)>>
  <2>1. 0 \in 0 .. MaxFileBlocks /\ pos + PreBlocks \in Nat
    BY <1>5, Types
  <2>2. PICK z \in 0 .. MaxFileBlocks :
            Cut(plan[1]) = Window(name1, 0, z) /\ 0 + z <= MaxFileBlocks
    BY <1>5, <2>1, CutIs
  <2>3. windows' = <<Window(name1, 0, z)>>
    BY <1>1, <1>5, <2>2
  <2>4. \A i \in DOMAIN windows' : windows'[i] = Window(name1, 0, z)
    BY <2>3
  <2>5. WindowsWritten'
    BY <1>2, <1>5, <2>3 DEF WindowsWritten, Scenario3Asked
  <2>6. RightData'
    <3>1. ~(pos >= PreBlocks)
      BY <1>5, Types
    <3> QED
      BY <1>2, <3>1 DEF RightData
  <2> QED
    BY <1>1, <2>1, <2>2, <2>4, <2>5, <2>6, Uploads, Types
<1>6. ASSUME pos < PreBlocks,
             NEW file \in 0 .. MaxFed, NEW offset \in 0 .. MaxFileBlocks, NEW size \in 0 .. Modulus,
             plan = <<Window(name1, 0, pos + PostBlocks), Window(file, offset, size)>>,
             Filled(file, MaxFileBlocks)
      PROVE  EventInv'
  <2>1. 0 \in 0 .. MaxFileBlocks /\ pos + PostBlocks \in Nat /\ size \in Nat
    BY Types
  <2>2. PICK z \in 0 .. MaxFileBlocks :
            /\ Cut(plan[1]) = Window(name1, 0, z)
            /\ 0 + z <= MaxFileBlocks /\ z <= pos + PostBlocks
    BY <1>6, <2>1, CutIs
  <2>3. PICK y \in 0 .. MaxFileBlocks :
            Cut(plan[2]) = Window(file, offset, y) /\ offset + y <= MaxFileBlocks
    BY <1>6, <2>1, CutIs
  <2>4. DOMAIN windows' = {1, 2} /\ windows'[1] = Window(name1, 0, z)
        /\ windows'[2] = Window(file, offset, y)
    BY <1>1, <1>6, <2>2, <2>3
  <2>5. \A i \in DOMAIN windows' :
            \E f \in 0 .. MaxFed, o \in 0 .. MaxFileBlocks, k \in 0 .. MaxFileBlocks :
                windows'[i] = Window(f, o, k) /\ o + k <= MaxFileBlocks
    BY <2>1, <2>2, <2>3, <2>4, Types
  <2>6. WindowsWritten'
    <3> SUFFICES ASSUME ~torn
                 PROVE  OnFile(Window(name1, 0, z))' /\ OnFile(Window(file, offset, y))'
      BY <1>1, <1>2, <2>4 DEF WindowsWritten
    <3>1. Filled(name1, 0 + z)
      BY <1>3, <2>2
    <3>2. offset + y \in 0 .. MaxFileBlocks /\ file \in Nat /\ MaxFileBlocks \in Nat
      BY <2>3, Types
    <3>3. Filled(file, offset + y)
      BY <1>6, <3>2, FilledLess DEF WriterInv, TypeOK
    <3> QED
      BY <1>1, <3>1, <3>3, OnFileIs
  <2>7. RightData'
    <3>1. ~(pos >= PreBlocks)
      BY <1>6, Types
    <3> QED
      BY <1>2, <3>1 DEF RightData
  <2> QED
    BY <1>1, <2>5, <2>6, <2>7, Uploads
<1> QED
  BY <1>1, <1>4, <1>5, <1>6 DEF PlanShape

LEMMA UpdateBegins ==
    ASSUME EventInv, Update \/ UpdateName PROVE EventInv'
<1> USE DEF EventInv, CallbackInv, MGoto
<1>1. CASE Update
  <2>1. /\ mPc = "idle" /\ mPc' = "updateName" /\ files[0] # <<>> /\ pos' = bytesWritten
        /\ start' = Counted /\ torn' = Renaming /\ windows' = <<>> /\ message' = "update"
        /\ UNCHANGED <<name1, name2, plan, fed, seen, wVars, shared>>
    BY <1>1 DEF Update
  <2>2. Opened
    BY <2>1, FirstChannel
       DEF WriterInv, TypeOK, WriterTypeOK, WLabels, QueueShape, FileInv, NamesShape, Unopened, Opened
  <2>3. WriterInv'
    BY <2>1, <2>2, Place, CallbackKeepsWriter, Types DEF Renaming
  <2>4. /\ UNCHANGED <<wPc, currIFFilename, bytesWritten, dataQueue, files>> /\ Opened'
        /\ DOMAIN windows' = {}
    BY <2>1, <2>2 DEF Opened, wVars, wNames, wFlags, shared
  <2>5. MessageShape'
    BY <2>1, <2>4 DEF MessageShape
  <2>6. NameShape'
    <3> SUFFICES ASSUME ~Renaming
                 PROVE  bytesWritten <= bytesWritten
                        /\ currIFFilename * MaxFileBlocks + bytesWritten = Counted
      BY <2>1, <2>4 DEF NameShape, Renaming
    <3> QED
      BY <2>2, Place, Types
  <2>7. LagShape'
    <3>1. bytesWritten <= bytesWritten /\ bytesWritten + Flight <= bytesWritten + UpdateBlocks
      BY <2>2, Place, Types
    <3> QED
      BY <2>1, <2>4, <3>1 DEF LagShape, Flight
  <2>8. PlaceKnown' /\ PlanShape' /\ ReadyShape'
    BY <2>1 DEF PlaceKnown, PlanShape, ReadyShape
  <2> QED
    BY <2>1, <2>3, <2>5, <2>6, <2>7, <2>8, NoWindows
<1>2. CASE UpdateName
  <2>1. /\ mPc = "updateName" /\ mPc' = "updateWait" /\ name1' = currIFFilename
        /\ plan' = <<Window(currIFFilename, pos, UpdateBlocks)>> /\ seen' = FALSE
        /\ UNCHANGED <<message, name2, pos, windows, fed, start, torn, wVars, shared>>
    BY <1>2 DEF UpdateName
  <2>2. Opened /\ windows = <<>> /\ message = "update"
    BY <2>1 DEF MessageShape
  <2>3. WriterInv'
    BY <2>1, <2>2, Place, CallbackKeepsWriter, Types
  <2>4. UNCHANGED <<wPc, currIFFilename, bytesWritten, dataQueue>> /\ Opened'
    BY <2>1, <2>2 DEF Opened, wVars, wNames, wFlags, shared
  <2>5. MessageShape'
    BY <2>1, <2>2, <2>4 DEF MessageShape
  <2>6. NameShape' /\ PlaceKnown'
    BY <2>1, <2>4, Types DEF NameShape, PlaceKnown, Renaming
  <2>7. LagShape'
    BY <2>1, <2>4 DEF LagShape, Flight
  <2>8. PlanShape' /\ ReadyShape'
    BY <2>1 DEF PlanShape, ReadyShape
  <2> QED
    BY <2>1, <2>2, <2>3, <2>5, <2>6, <2>7, <2>8, NoWindows
<1> QED
  BY <1>1, <1>2

LEMMA UpdateWaits ==
    ASSUME EventInv, UpdateWait \/ UpdateEdge PROVE EventInv'
<1> USE DEF EventInv, CallbackInv, MGoto
<1>1. CASE UpdateWait
  <2>1. /\ mPc = "updateWait" /\ seen' = WriterDone
        /\ mPc' = IF bytesWritten < pos + UpdateBlocks THEN "updateEdge" ELSE "updateAsk"
        /\ UNCHANGED <<message, name1, name2, pos, plan, windows, watch, wVars, shared>>
    BY <1>1 DEF UpdateWait
  <2>2. UNCHANGED <<wPc, bytesWritten, dataQueue, files, torn>>
    BY <2>1 DEF wVars, wFlags, shared, watch
  <2>3. seen' \in BOOLEAN
    BY <2>1 DEF WriterDone
  <2>4. plan = <<Window(name1, pos, UpdateBlocks)>>
    BY <2>1 DEF PlanShape
  <2>5. LagShape'
    BY <2>1, <2>2 DEF LagShape, Flight, WriterDone
  <2>6. PlanShape'
    <3>1. ASSUME mPc' = "updateAsk"
          PROVE  /\ UpdateBlocks \in 0 .. MaxFileBlocks /\ pos + UpdateBlocks \in 0 .. MaxFileBlocks
                 /\ ~torn => Filled(name1, pos + UpdateBlocks)
      <4>1. bytesWritten >= pos + UpdateBlocks
        BY <2>1, <3>1, Types
      <4>2. UpdateBlocks \in 0 .. MaxFileBlocks /\ pos + UpdateBlocks \in 0 .. MaxFileBlocks
        BY <4>1, Types
      <4>3. ~torn => Filled(name1, pos + UpdateBlocks)
        BY <2>1, <4>1, <4>2, WaitEnds
      <4> QED
        BY <4>2, <4>3
    <3>2. \A file, k : Filled(file, k)' = Filled(file, k)
      BY <2>2 DEF Filled
    <3>3. mPc' = "updateAsk" =>
              /\ plan = <<Window(name1, pos, UpdateBlocks)>> /\ pos + UpdateBlocks <= MaxFileBlocks
              /\ ~torn => Filled(name1, pos + UpdateBlocks)'
      BY <2>1, <2>4, <3>1, <3>2
    <3>4. mPc' = "updateAsk" =>
              \E size \in 0 .. MaxFileBlocks :
                  /\ plan = <<Window(name1, pos, size)>> /\ pos + size <= MaxFileBlocks
                  /\ ~torn => /\ size <= UpdateBlocks
                              /\ size = UpdateBlocks \/ pos + size = MaxFileBlocks
                              /\ Filled(name1, pos + size)'
      BY <3>1, <3>3, Types
    <3> QED
      BY <2>1, <2>2, <2>4, <3>4 DEF PlanShape
  <2>7. ReadyShape'
    BY <2>1 DEF ReadyShape
  <2> QED
    BY <2>1, <2>3, <2>5, <2>6, <2>7, Between, Types
<1>2. CASE UpdateEdge
  <2>1. /\ mPc = "updateEdge"
        /\ mPc' = IF bytesWritten < pos THEN "updateAsk" ELSE "updateWait"
        /\ plan' = IF bytesWritten < pos THEN <<Window(name1, pos, MaxFileBlocks - pos)>> ELSE plan
        /\ UNCHANGED <<message, name1, name2, pos, windows, watch, seen, wVars, shared>>
    BY <1>2 DEF UpdateEdge
  <2>2. UNCHANGED <<wPc, bytesWritten, dataQueue, files, torn>>
    BY <2>1 DEF wVars, wFlags, shared, watch
  <2>3. LagShape'
    BY <2>1, <2>2 DEF LagShape, Flight, WriterDone
  <2>4. PlanShape'
    <3>1. \A file, k : Filled(file, k)' = Filled(file, k)
      BY <2>2 DEF Filled
    <3>2. CASE bytesWritten < pos
      <4>1. MaxFileBlocks - pos \in 0 .. MaxFileBlocks /\ pos + (MaxFileBlocks - pos) = MaxFileBlocks
        BY Types
      <4>2. ~torn => MaxFileBlocks - pos <= UpdateBlocks
        <5>1. ~torn => ~(pos + UpdateBlocks < MaxFileBlocks)
          BY <2>1, <3>2, Types DEF LagShape
        <5> QED
          BY <5>1, Types
      <4>3. ~torn => Filled(name1, MaxFileBlocks)
        <5>1. MaxFileBlocks \in 0 .. MaxFileBlocks /\ MaxFileBlocks \in Nat /\ MaxFileBlocks <= MaxFileBlocks
          BY Types
        <5> QED
          BY <2>1, <3>2, <5>1, WaitEnds
      <4>4. \E size \in 0 .. MaxFileBlocks :
                /\ plan' = <<Window(name1, pos, size)>> /\ pos + size <= MaxFileBlocks
                /\ ~torn => /\ size <= UpdateBlocks
                            /\ size = UpdateBlocks \/ pos + size = MaxFileBlocks
                            /\ Filled(name1, pos + size)'
        <5>1. ~torn => Filled(name1, pos + (MaxFileBlocks - pos))'
          BY <2>1, <3>1, <4>1, <4>3
        <5> QED
          BY <2>1, <3>2, <4>1, <4>2, <5>1, Types
      <4> QED
        BY <2>1, <2>2, <3>2, <4>4 DEF PlanShape
    <3>3. CASE ~(bytesWritten < pos)
      BY <2>1, <2>2, <3>3 DEF PlanShape
    <3> QED
      BY <3>2, <3>3
  <2>5. ReadyShape'
    BY <2>1 DEF ReadyShape
  <2> QED
    BY <2>1, <2>3, <2>4, <2>5, Between, Types
<1> QED
  BY <1>1, <1>2

LEMMA UpdateAsks ==
    ASSUME EventInv, UpdateAsk PROVE EventInv'
<1> USE DEF EventInv, CallbackInv, MGoto
<1>1. /\ mPc = "updateAsk" /\ mPc' = "idle" /\ windows' = plan
      /\ UNCHANGED <<message, name1, name2, pos, watch, seen, wVars, shared>>
  BY DEF UpdateAsk
<1>2. message = "update" /\ UNCHANGED <<message, pos, name1, start, torn>>
  BY <1>1 DEF MessageShape, watch
<1>3. PICK z \in 0 .. MaxFileBlocks :
          /\ plan = <<Window(name1, pos, z)>> /\ pos + z <= MaxFileBlocks
          /\ ~torn => /\ z <= UpdateBlocks
                      /\ z = UpdateBlocks \/ pos + z = MaxFileBlocks
                      /\ Filled(name1, pos + z)
  BY <1>1 DEF PlanShape
<1>4. windows' = <<Window(name1, pos, z)>>
  BY <1>1, <1>3
<1>5. \A i \in DOMAIN windows' : windows'[i] = Window(name1, pos, z)
  BY <1>4
<1>6. WindowsWritten'
  <2> SUFFICES ASSUME ~torn PROVE OnFile(Window(name1, pos, z))'
    BY <1>1, <1>2, <1>5 DEF WindowsWritten
  <2> QED
    BY <1>1, <1>3, OnFileIs
<1>7. RightData'
  <2> SUFFICES ASSUME ~torn PROVE Covered' = Asked'
    BY <1>1, <1>2 DEF RightData
  <2> DEFINE S == name1 * MaxFileBlocks
  <2>1. S \in Nat /\ (name1 + 1) * MaxFileBlocks = S + MaxFileBlocks
    BY Types
  <2>2. start = S + pos
    BY <1>1 DEF PlaceKnown
  <2>3. Asked' = {b \in start + 1 .. start + UpdateBlocks : b <= S + MaxFileBlocks}
    BY <1>2, <2>1 DEF Asked
  <2>4. Covered' = S + pos + 1 .. S + pos + 1 + z - 1
    BY <1>4, OneWindow
  <2> HIDE DEF S
  <2>5. /\ pos \in Nat /\ 0 \in Nat /\ UpdateBlocks \in Nat /\ MaxFileBlocks \in Nat /\ z \in Nat
        /\ pos - 0 = pos /\ start \in Nat /\ start - 0 = start /\ 0 + UpdateBlocks = UpdateBlocks
    BY <2>1, <2>2, Types
  <2>6. pos >= 0 /\ pos + z <= MaxFileBlocks /\ z <= UpdateBlocks
        /\ (z = UpdateBlocks \/ pos + z = MaxFileBlocks)
    BY <1>3, <2>5
  <2>7. S + (pos - 0) + 1 .. S + (pos - 0) + 1 + z - 1
            = {b \in start - 0 + 1 .. start + UpdateBlocks : b <= S + MaxFileBlocks}
    <3>1. (pos - 0) + z <= MaxFileBlocks /\ z <= 0 + UpdateBlocks
          /\ (z = 0 + UpdateBlocks \/ (pos - 0) + z = MaxFileBlocks)
      BY <2>5, <2>6
    <3> QED
      BY <2>1, <2>2, <2>5, <2>6, <3>1, SameBlocks
  <2> QED
    BY <2>2, <2>3, <2>4, <2>5, <2>7
<1> QED
  BY <1>1, <1>3, <1>5, <1>6, <1>7, Uploads, Types

-----------------------------------------------------------------------------
LEMMA EventInit == Init => EventInv
<1> SUFFICES ASSUME Init PROVE EventInv
  OBVIOUS
<1> USE DEF Init
<1>1. WriterTypeOK /\ WriterShape /\ FileInv
  BY WriterStarts
<1>2. TypeOK
  <2>1. 0 \in 0 .. MaxFed /\ 0 \in 0 .. MaxFileBlocks
    BY UploadAssumption, WriterAssumption
  <2> QED
    BY <1>1, <2>1 DEF TypeOK
<1>3. QueueShape
  BY DEF QueueShape, Opened, SharedInit, WriterInit
<1>4. CallbackInv
  BY DEF CallbackInv, MessageShape, NameShape, PlaceKnown, LagShape, PlanShape, ReadyShape
<1>5. WindowsFit /\ WindowsWritten /\ RightData
  BY DEF WindowsFit, WindowsWritten, RightData
<1> QED
  BY <1>1, <1>2, <1>3, <1>4, <1>5 DEF EventInv, WriterInv

LEMMA EventStep == EventInv /\ [Next]_vars => EventInv'
<1> SUFFICES ASSUME EventInv, [Next]_vars PROVE EventInv'
  OBVIOUS
<1>1. CASE Feed
  BY <1>1, FeedKeeps
<1>2. CASE StartWriter \/ Mqtt
  BY <1>2, OthersKeep
<1>3. CASE Writer
  BY <1>3, WriterKeepsWriter, WriterKeepsCallback DEF EventInv
<1>4. CASE Event \/ EventPos
  BY <1>4, EventBegins
<1>5. CASE EventWait \/ EventEdge
  BY <1>5, EventWaits
<1>6. CASE Scenario1 \/ Scenario2 \/ Scenario3
  BY <1>6, EventPlans
<1>7. CASE Scenario2Last
  BY <1>7, EventNamesLast
<1>8. CASE EventAsk
  BY <1>8, EventAsks
<1>9. CASE Update \/ UpdateName
  BY <1>9, UpdateBegins
<1>10. CASE UpdateWait \/ UpdateEdge
  BY <1>10, UpdateWaits
<1>11. CASE UpdateAsk
  BY <1>11, UpdateAsks
<1>12. CASE UNCHANGED vars
  <2>1. UNCHANGED <<shared, wVars, callback, watch, seen>>
    BY <1>12 DEF vars
  <2>2. WriterInv'
    BY <2>1, CallbackKeepsWriter, Types
       DEF callback, watch, EventInv, WriterInv, TypeOK
  <2>3. MessageShape' /\ NameShape' /\ PlaceKnown' /\ LagShape'
    BY <2>1 DEF EventInv, CallbackInv, MessageShape, NameShape, PlaceKnown, LagShape, Opened,
                Renaming, Flight, WriterDone, callback, watch, wVars, wNames, wFlags, shared
  <2>4. \A file, k : Filled(file, k)' = Filled(file, k)
    BY <2>1 DEF Filled, wVars
  <2>5. PlanShape' /\ ReadyShape'
    BY <2>1, <2>4 DEF EventInv, CallbackInv, PlanShape, ReadyShape, callback, watch, wVars, wNames
  <2>6. WindowsFit' /\ WindowsWritten' /\ RightData'
    BY <2>1 DEF EventInv, WindowsFit, WindowsWritten, RightData, OnFile, Scenario3Asked, Covered,
                Asked, FirstBlock, callback, watch, wVars
  <2> QED
    BY <2>2, <2>3, <2>5, <2>6 DEF EventInv, CallbackInv
<1> QED
  BY <1>1, <1>2, <1>3, <1>4, <1>5, <1>6, <1>7, <1>8, <1>9, <1>10, <1>11, <1>12 DEF Next, Callback

-----------------------------------------------------------------------------
(* The waits end in time.                                                  *)

LEMMA TotalSame ==
    ASSUME UNCHANGED <<wVars, shared>>
    PROVE  Total' = Total /\ WriterDone' = WriterDone /\ UNCHANGED <<bytesWritten, currIFFilename>>
  BY DEF Total, Counted, LastFile, Flight, WriterDone, wVars, wFlags, wNames, shared

\* A position that is read of the file named lies at the end of what is counted, and at
\* most one more block is on its way to that file.
LEMMA TotalRead ==
    ASSUME EventInv, Opened, ~Renaming
    PROVE  /\ Counted \in Nat /\ Total \in Nat /\ Total <= Counted + 1
           /\ Total <= (currIFFilename + 1) * MaxFileBlocks
<1> DEFINE P == currIFFilename * MaxFileBlocks
<1>1. /\ Counted \in Nat /\ Flight \in Nat /\ Flight <= 1 /\ P + bytesWritten = Counted
      /\ currIFFilename \in Nat /\ bytesWritten \in 0 .. MaxFileBlocks /\ MaxFileBlocks \in Nat
  BY Place, Types
<1>2. (currIFFilename + 1) * MaxFileBlocks = P + MaxFileBlocks /\ P \in Nat
  BY <1>1
<1>3. Flight = 0 \/ bytesWritten < MaxFileBlocks
  <2>1. CASE dataQueue # <<>>
    BY <2>1 DEF EventInv, WriterInv, QueueShape, WriterShape
  <2>2. CASE wPc \in {"popped", "write", "count"}
    BY <2>2 DEF EventInv, WriterInv, WriterShape
  <2>3. CASE dataQueue = <<>> /\ wPc \notin {"popped", "write", "count"}
    BY <2>3 DEF Flight
  <2> QED
    BY <2>1, <2>2, <2>3
<1> HIDE DEF P
<1> QED
  BY <1>1, <1>2, <1>3 DEF Total

LEMMA ReadsInTime ==
    ASSUME EventInv, InTime, EventPos \/ Update \/ UpdateName PROVE InTime'
<1> USE DEF MGoto
<1>1. CASE EventPos
  <2>1. /\ mPc = "eventPos" /\ mPc' = "eventWait" /\ start' = Counted /\ seen' = FALSE
        /\ UNCHANGED <<message, name1, torn, wVars, shared>>
    BY <1>1 DEF EventPos
  <2> SUFFICES ASSUME ~torn, Wanted' > 0
               PROVE  Total <= Counted + Wanted' /\ Total <= (name1 + 1) * MaxFileBlocks
    BY <2>1, TotalSame DEF InTime, TurnShape
  <2>2. Opened /\ message = "event" /\ name1 = currIFFilename /\ ~Renaming
    BY <2>1 DEF EventInv, CallbackInv, MessageShape, NameShape
  <2>3. Wanted' \in Nat
    BY <2>1, <2>2, Types DEF Wanted
  <2> QED
    BY <2>2, <2>3, TotalRead
<1>2. CASE Update
  <2>1. /\ mPc = "idle" /\ mPc' = "updateName" /\ start' = Counted /\ torn' = Renaming
        /\ message' = "update" /\ files[0] # <<>> /\ UNCHANGED <<wVars, shared>>
    BY <1>2 DEF Update
  <2> SUFFICES ASSUME ~Renaming
               PROVE  Total <= Counted + Wanted' /\ Total <= (currIFFilename + 1) * MaxFileBlocks
    BY <2>1, TotalSame DEF InTime
  <2>2. Opened
    BY <2>1, FirstChannel
       DEF EventInv, WriterInv, FileInv, NamesShape, QueueShape, Unopened, Opened, TypeOK,
           WriterTypeOK, WLabels
  <2>3. Wanted' \in Nat \ {0}
    BY <2>1, Types DEF Wanted
  <2> QED
    BY <2>2, <2>3, TotalRead
<1>3. CASE UpdateName
  <2>1. /\ mPc = "updateName" /\ mPc' = "updateWait" /\ name1' = currIFFilename /\ seen' = FALSE
        /\ UNCHANGED <<message, start, torn, wVars, shared>>
    BY <1>3 DEF UpdateName
  <2>2. Wanted' = Wanted
    BY <2>1 DEF Wanted
  <2> QED
    BY <2>1, <2>2, TotalSame DEF InTime, TurnShape
<1> QED
  BY <1>1, <1>2, <1>3

\* A turn that saw all there is on file and ends where it began has found fewer blocks than
\* it waits for, and the file unfinished.
LEMMA TurnsInTime ==
    ASSUME EventInv, InTime, EventWait \/ EventEdge \/ UpdateWait \/ UpdateEdge PROVE InTime'
<1> USE DEF MGoto
<1>1. /\ UNCHANGED <<message, name1, pos, start, torn, wVars, shared>>
      /\ mPc \in {"eventWait", "eventEdge", "updateWait", "updateEdge"}
      /\ mPc' # "updateName"
  BY DEF EventWait, EventEdge, UpdateWait, UpdateEdge, watch
<1>2. Wanted' = Wanted /\ Small' = Small
  BY <1>1 DEF Wanted, Small
<1> SUFFICES ASSUME ~torn, Wanted > 0, Small,
                    mPc' \in {"eventWait", "eventEdge", "updateWait", "updateEdge"}
             PROVE  TurnShape'
  BY <1>1, <1>2, TotalSame DEF InTime
<1>3. Total <= start + Wanted /\ Total <= (name1 + 1) * MaxFileBlocks /\ TurnShape
  BY <1>1 DEF InTime
<1>4. /\ mPc \in {"eventWait", "eventEdge"} => message = "event" /\ Wanted = PostBlocks
      /\ mPc \in {"updateWait", "updateEdge"} => message = "update" /\ Wanted = UpdateBlocks
  BY DEF EventInv, CallbackInv, MessageShape, Wanted
<1>5. CASE EventWait \/ UpdateWait
  <2>1. /\ seen' = WriterDone /\ mPc' \in {"eventEdge", "updateEdge"}
        /\ bytesWritten < pos + Wanted
    BY <1>4, <1>5 DEF EventWait, UpdateWait
  <2> QED
    BY <1>1, <1>2, <2>1, TotalSame DEF TurnShape
<1>6. CASE EventEdge \/ UpdateEdge
  <2>1. /\ mPc' \in {"eventWait", "updateWait"} /\ seen' = seen /\ ~(bytesWritten < pos)
        /\ mPc \in {"eventEdge", "updateEdge"}
    BY <1>6 DEF EventEdge, UpdateEdge
  <2> SUFFICES ASSUME seen
               PROVE  Total < start + Wanted /\ Total < (name1 + 1) * MaxFileBlocks
    BY <1>1, <1>2, <1>3, <2>1, TotalSame DEF TurnShape
  <2>2. WriterDone /\ bytesWritten < pos + Wanted
    BY <1>3, <2>1 DEF TurnShape
  <2>3. Opened /\ ~Renaming /\ Flight = 0
    BY <2>2 DEF WriterDone, Opened, Renaming, Flight
  <2>4. bytesWritten < MaxFileBlocks
    BY <2>2 DEF WriterDone, EventInv, WriterInv, WriterShape
  <2>5. name1 <= currIFFilename /\ name1 * MaxFileBlocks + pos = start
    BY <1>1 DEF EventInv, CallbackInv, NameShape, PlaceKnown
  <2>6. /\ name1 \in Nat /\ currIFFilename \in Nat /\ bytesWritten \in Nat /\ pos \in Nat
        /\ MaxFileBlocks \in Nat \ {0} /\ start \in Nat /\ Wanted \in Nat
    BY Types DEF Wanted
  <2>7. currIFFilename * MaxFileBlocks + bytesWritten = Total
    <3>1. Counted \in Nat /\ currIFFilename * MaxFileBlocks + bytesWritten = Counted
      BY <2>3, Place
    <3> QED
      BY <2>3, <3>1 DEF Total
  <2> DEFINE N == name1 * MaxFileBlocks
             P == currIFFilename * MaxFileBlocks
  <2>8. (name1 + 1) * MaxFileBlocks = N + MaxFileBlocks /\ N \in Nat /\ P \in Nat
    BY <2>6
  <2>9. CASE name1 = currIFFilename
    <3>1. N = P
      BY <2>9
    <3> HIDE DEF N, P
    <3> QED
      BY <2>2, <2>4, <2>5, <2>6, <2>7, <2>8, <3>1 DEF N, P
  <2>10. CASE name1 # currIFFilename
    <3>1. P >= N + MaxFileBlocks
      <4>1. PICK d \in Nat : currIFFilename = name1 + 1 + d
        <5>1. currIFFilename - name1 - 1 \in Nat
          BY <2>5, <2>6, <2>10
        <5> QED
          BY <2>6, <5>1
      <4>2. P = N + MaxFileBlocks + d * MaxFileBlocks /\ d * MaxFileBlocks \in Nat
        BY <2>6, <4>1
      <4> QED
        BY <2>8, <4>2, <2>6
    <3>2. P + bytesWritten = Total /\ N + pos = start
      BY <2>5, <2>7
    <3> HIDE DEF N, P
    <3>3. bytesWritten = 0 /\ Total = N + MaxFileBlocks
      BY <1>3, <2>6, <2>8, <3>1, <3>2
    <3>4. pos = 0 /\ Wanted < MaxFileBlocks
      BY <2>1, <2>6, <3>3 DEF Small
    <3> QED
      BY <1>3, <2>6, <2>8, <3>2, <3>3, <3>4
  <2> QED
    BY <2>9, <2>10
<1> QED
  BY <1>5, <1>6

\* HWThread queues a block only after such a turn, and the writer only moves it on.
LEMMA BlocksInTime ==
    ASSUME EventInv, InTime, Feed \/ Writer PROVE InTime'
<1>1. CASE Feed
  <2>1. /\ wPc = "pop" /\ dataQueue = <<>> /\ dataQueue' = Append(<<>>, 0) /\ seen' = FALSE
        /\ mPc = "idle" \/ (mPc \in {"eventWait", "updateWait"} /\ seen)
        /\ UNCHANGED <<wVars, mPc, message, name1, pos, start, torn>>
    BY <1>1 DEF Feed, Push, WriterDone, callback
  <2>2. Counted' = Counted /\ Flight = 0 /\ Flight' = 1
    <3>1. Counted' = Counted
      BY <2>1 DEF Counted, LastFile, wVars
    <3>2. Len(dataQueue) = 0 /\ Len(dataQueue') = 1 /\ wPc' = wPc
      BY <2>1 DEF wVars
    <3> QED
      BY <2>1, <3>1, <3>2 DEF Flight
  <2>3. Counted \in Nat
    <3>1. Opened
      BY <2>1 DEF Opened
    <3> QED
      BY <3>1, Place
  <2>4. Total \in Nat /\ Total' = Total + 1
    BY <2>2, <2>3 DEF Total
  <2>5. Wanted' = Wanted /\ Small' = Small
    BY <2>1 DEF Wanted, Small
  <2> SUFFICES ASSUME ~torn, Wanted > 0, Small, mPc \in {"eventWait", "updateWait"}, seen
               PROVE  Total + 1 <= start + Wanted /\ Total + 1 <= (name1 + 1) * MaxFileBlocks
    BY <2>1, <2>4, <2>5 DEF InTime, TurnShape
  <2>6. Total < start + Wanted /\ Total < (name1 + 1) * MaxFileBlocks
    BY DEF InTime, TurnShape
  <2>7. start + Wanted \in Nat /\ (name1 + 1) * MaxFileBlocks \in Nat
    BY Types DEF Wanted
  <2> QED
    BY <2>4, <2>6, <2>7
<1>2. CASE Writer
  <2>1. UNCHANGED <<mPc, message, name1, pos, start, seen>>
    BY <1>2 DEF Writer, callback
  <2>2. ~torn' => ~torn /\ (mPc = "updateName" => wPc # "rename")
    BY <1>2 DEF Writer, TypeOK, EventInv, WriterInv
  <2>3. ~WriterDone /\ (wPc # "rename" => currIFFilename' = currIFFilename)
    BY <1>2, WriterEffect DEF Writer, EventInv, WriterInv, TypeOK
  <2>4. Wanted' = Wanted /\ Small' = Small
    BY <2>1 DEF Wanted, Small
  <2>5. ASSUME mPc # "idle" PROVE Total' <= Total /\ Total \in Nat /\ Total' \in Nat
    <3>1. Opened
      BY <2>5 DEF EventInv, CallbackInv, MessageShape
    <3>2. /\ Counted' + Flight' <= Counted + Flight
          /\ Counted \in Nat /\ Counted' \in Nat /\ Flight \in Nat /\ Flight' \in Nat
      BY <1>2, <3>1, WriterTotal
    <3>3. Total = Counted + Flight /\ Total' = Counted' + Flight'
      BY DEF Total
    <3>4. \A c, f, d, g \in Nat : c + f \in Nat /\ d + g \in Nat
      OBVIOUS
    <3> QED
      BY <3>2, <3>3, <3>4
  <2>6. /\ start + Wanted \in Nat /\ (name1 + 1) * MaxFileBlocks \in Nat
        /\ (currIFFilename + 1) * MaxFileBlocks \in Nat
    BY Types DEF Wanted
  <2>7. ASSUME ~torn', Wanted > 0, mPc = "updateName"
        PROVE  Total' <= start + Wanted /\ Total' <= (currIFFilename' + 1) * MaxFileBlocks
    <3>1. Total <= start + Wanted /\ Total <= (currIFFilename + 1) * MaxFileBlocks
      BY <2>2, <2>7 DEF InTime
    <3>2. currIFFilename' = currIFFilename
      BY <2>2, <2>3, <2>7
    <3> QED
      BY <2>5, <2>6, <2>7, <3>1, <3>2
  <2>8. ASSUME ~torn', Wanted > 0, Small,
               mPc \in {"eventWait", "eventEdge", "updateWait", "updateEdge"}
        PROVE  Total' <= start + Wanted /\ Total' <= (name1 + 1) * MaxFileBlocks /\ ~seen
    <3>1. Total <= start + Wanted /\ Total <= (name1 + 1) * MaxFileBlocks /\ TurnShape
      BY <2>2, <2>8 DEF InTime
    <3>2. ~seen
      BY <2>3, <3>1 DEF TurnShape
    <3> QED
      BY <2>5, <2>6, <2>8, <3>1, <3>2
  <2> QED
    BY <2>1, <2>4, <2>7, <2>8 DEF InTime, TurnShape
<1> QED
  BY <1>1, <1>2

LEMMA InTimeInit == Init => InTime
  BY DEF Init, InTime

LEMMA InTimeStep == EventInv /\ InTime /\ [Next]_vars => InTime'
<1> SUFFICES ASSUME EventInv, InTime, [Next]_vars PROVE InTime'
  OBVIOUS
<1>1. CASE EventPos \/ Update \/ UpdateName
  BY <1>1, ReadsInTime
<1>2. CASE EventWait \/ EventEdge \/ UpdateWait \/ UpdateEdge
  BY <1>2, TurnsInTime
<1>3. CASE Feed \/ Writer
  BY <1>3, BlocksInTime
<1>4. CASE \/ StartWriter \/ Mqtt \/ Event \/ Scenario1 \/ Scenario2 \/ Scenario2Last \/ Scenario3
           \/ EventAsk \/ UpdateAsk
  <2>1. mPc' \notin {"updateName", "eventWait", "eventEdge", "updateWait", "updateEdge"}
    <3>1. CASE StartWriter
      BY <3>1 DEF StartWriter, WGoto, callback, EventInv, CallbackInv, MessageShape, Opened
    <3>2. CASE Mqtt
      BY <3>2 DEF Mqtt, callback
    <3> QED
      BY <1>4, <3>1, <3>2
         DEF Event, Scenario1, Scenario2, Scenario2Last, Scenario3, EventAsk, UpdateAsk, MGoto
  <2> QED
    BY <2>1 DEF InTime
<1>5. CASE UNCHANGED vars
  <2>1. UNCHANGED <<wVars, shared, mPc, message, name1, pos, start, seen, torn>>
    BY <1>5 DEF vars, callback, watch
  <2>2. Wanted' = Wanted /\ Small' = Small
    BY <2>1 DEF Wanted, Small
  <2> QED
    BY <2>1, <2>2, TotalSame DEF InTime, TurnShape
<1> QED
  BY <1>1, <1>2, <1>3, <1>4, <1>5 DEF Next, Callback

\* The callback's variables keep their types whatever the sizes: above all, a position is
\* never beyond the length of a file.
THEOREM EventTypes == SafeSpec => []TypeOK
<1>1. EventInv => TypeOK
  BY DEF EventInv, WriterInv
<1> QED
  BY <1>1, EventInit, EventStep, PTL DEF SafeSpec

\* The name and the position MQTT_Callback reads one after the other denote the place in
\* the recording where the message found it, unless a file break came between the reads.
THEOREM PlaceIsKnown == SafeSpec => []PlaceKnown
<1>1. EventInv => PlaceKnown
  BY DEF EventInv, CallbackInv
<1> QED
  BY <1>1, EventInit, EventStep, PTL DEF SafeSpec

\* No upload is asked for that reaches past the end of a file, in any scenario and
\* whatever the unsigned differences of sizes came to.
THEOREM WindowsWithinFiles == SafeSpec => []WindowsFit
<1>1. EventInv => WindowsFit
  BY DEF EventInv
<1> QED
  BY <1>1, EventInit, EventStep, PTL DEF SafeSpec

\* The callback's busy waits end late enough: all blocks of a window are on file, in every
\* recorded channel, when upload is called, but in Scenario 3.
THEOREM WindowsOnFile == SafeSpec => []WindowsWritten
<1>1. EventInv => WindowsWritten
  BY DEF EventInv
<1> QED
  BY <1>1, EventInit, EventStep, PTL DEF SafeSpec

\* What is uploaded is what was asked for, wherever in the wait WriterThread breaks the
\* file: the data around the event, or after the update, up to the end of its file.
THEOREM UploadsAreRight == SafeSpec => []RightData
<1>1. EventInv => RightData
  BY DEF EventInv
<1> QED
  BY <1>1, EventInit, EventStep, PTL DEF SafeSpec

\* No wait misses its end: when the data waited for, or the last block of the file, is on
\* file, the callback is through its loop before another block comes, though WriterThread
\* may break the file between any two turns. But for a wait for a whole file from its start.
THEOREM WaitsEndInTime == SafeSpec => []WaitsInTime
<1>1. EventInv /\ InTime => WaitsInTime
  <2> SUFFICES ASSUME EventInv, InTime, ~torn, Wanted > 0, pos > 0 \/ Wanted < MaxFileBlocks,
                      mPc \in {"eventWait", "eventEdge", "updateWait", "updateEdge"}
               PROVE  Counted <= start + Wanted /\ Counted <= (name1 + 1) * MaxFileBlocks
    BY DEF WaitsInTime
  <2>1. Counted + Flight <= start + Wanted /\ Counted + Flight <= (name1 + 1) * MaxFileBlocks
    BY DEF InTime, Small, Total
  <2>2. Counted \in Nat /\ Flight \in Nat
    <3>1. Opened
      BY DEF EventInv, CallbackInv, MessageShape
    <3> QED
      BY <3>1, Place
  <2>3. start + Wanted \in Nat /\ (name1 + 1) * MaxFileBlocks \in Nat
    BY Types DEF Wanted
  <2> QED
    BY <2>1, <2>2, <2>3
<1> QED
  BY <1>1, EventInit, EventStep, InTimeInit, InTimeStep, PTL DEF SafeSpec
=============================================================================
