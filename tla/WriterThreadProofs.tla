------------------------- MODULE WriterThreadProofs -------------------------
(***************************************************************************)
(* What WriterThread's steps preserve, whoever runs beside it: the types   *)
(* of its variables, the names it gives the files, and how many blocks     *)
(* each file holds while a file break is under way. For any number of      *)
(* channels and files of any size.                                         *)
(***************************************************************************)
EXTENDS WriterThread, TLAPS

\* Starting a file, and writing to the last one, leave every channel with a file.
LEMMA OneMoreFile ==
    ASSUME NEW f \in [Channels -> Seq(Seq(Nat))], NEW c \in Channels,
           \A d \in Channels : f[d] # <<>>
    PROVE  LET g == [f EXCEPT ![c] = Append(f[c], <<>>)]
           IN g \in [Channels -> Seq(Seq(Nat))] /\ \A d \in Channels : g[d] # <<>>
<1>1. Append(f[c], <<>>) \in Seq(Seq(Nat)) /\ Append(f[c], <<>>) # <<>>
  OBVIOUS
<1> QED
  BY <1>1

\* fwrite to the last file of a channel keeps the type of the files, none empty of files.
LEMMA OneMoreBlock ==
    ASSUME NEW f \in [Channels -> Seq(Seq(Nat))], NEW c \in Channels, NEW b \in Nat,
           \A d \in Channels : f[d] # <<>>
    PROVE  LET last == Len(f[c])
               g == [f EXCEPT ![c] = [f[c] EXCEPT ![last] = Append(f[c][last], b)]]
           IN g \in [Channels -> Seq(Seq(Nat))] /\ \A d \in Channels : g[d] # <<>>
<1> DEFINE last == Len(f[c])
           h == [f[c] EXCEPT ![last] = Append(f[c][last], b)]
<1>1. f[c] \in Seq(Seq(Nat)) /\ f[c] # <<>>
  OBVIOUS
<1>2. last \in 1 .. Len(f[c]) /\ f[c][last] \in Seq(Nat)
  BY <1>1
<1>3. Append(f[c][last], b) \in Seq(Nat)
  BY <1>2
<1>4. h \in Seq(Seq(Nat)) /\ Len(h) = Len(f[c])
  BY <1>1, <1>2, <1>3
<1>5. h # <<>>
  BY <1>1, <1>4
<1> HIDE DEF h
<1> QED
  BY <1>4, <1>5 DEF h

\* WriterThread keeps them, and what its control point says of its variables.
LEMMA WriterTypes ==
    ASSUME WriterTypeOK, WriterShape, NEW allowed, WriterNext(allowed)
    PROVE  WriterTypeOK' /\ WriterShape'
<1> USE NullAssumption, WriterAssumption
    DEF WriterTypeOK, WriterShape, WLabels, WGoto, shared, wFlags, wNames
<1>2. CASE WriterBegin(allowed)
  BY <1>2 DEF WriterBegin
<1>3. CASE OpenFiles
  BY <1>3 DEF OpenFiles
<1>4. CASE WriterTop
  BY <1>4 DEF WriterTop
<1>5. CASE Reopen
  <2>1. chan \in Channels /\ chan + 1 \in 0 .. NumOutFiles
    BY <1>5 DEF Reopen, Channels
  <2>2. files' = [files EXCEPT ![chan] = Append(files[chan], <<>>)]
    BY <1>5 DEF Reopen
  <2>3. files' \in [Channels -> Seq(Seq(Nat))] /\ \A c \in Channels : files'[c] # <<>>
    <3>1. files \in [Channels -> Seq(Seq(Nat))] /\ \A c \in Channels : files[c] # <<>>
      BY <1>5 DEF Reopen
    <3> QED
      BY <2>1, <2>2, <3>1, OneMoreFile
  <2>4. WriterTypeOK'
    BY <1>5, <2>1, <2>3 DEF Reopen
  <2>5. wPc' = "reopen" => chan' < NumOutFiles
    BY <1>5 DEF Reopen
  <2>6. WriterShape'
    BY <1>5, <2>3, <2>5 DEF Reopen
  <2> QED
    BY <2>4, <2>6
<1>6. CASE ClearBreak
  <2>1. fileNo' \in Nat \ {0}
    BY <1>6 DEF ClearBreak
  <2>2. WriterTypeOK'
    BY <1>6, <2>1 DEF ClearBreak
  <2>3. WriterShape'
    BY <1>6 DEF ClearBreak
  <2> QED
    BY <2>2, <2>3
<1>7. CASE PushHistory
  <2>1. fileHistory' \in Seq(Nat)
    BY <1>7 DEF PushHistory
  <2>2. WriterTypeOK'
    BY <1>7, <2>1 DEF PushHistory
  <2>3. WriterShape'
    BY <1>7 DEF PushHistory
  <2> QED
    BY <2>2, <2>3
<1>8. CASE Rename
  BY <1>8 DEF Rename
<1>9. CASE ResetBytes
  BY <1>9 DEF ResetBytes
<1>10. CASE WriterPop
  <2>0. dataQueue' \in Seq(Slots \cup {NULL}) /\ nextData' \in Slots \cup {NULL}
    BY <1>10 DEF WriterPop, PopFront
  <2>1. WriterTypeOK'
    BY <1>10, <2>0 DEF WriterPop
  <2>2. WriterShape'
    BY <1>10 DEF WriterPop, PopFront
  <2> QED
    BY <2>1, <2>2
<1>11. CASE WriterSync
  BY <1>11 DEF WriterSync
<1>12. CASE WriteWhole
  <2>1. 0 \in Channels /\ ddr[nextData] \in Nat
    BY <1>12 DEF WriteWhole, Channels
  <2>2. files' = [files EXCEPT ![0] = [files[0] EXCEPT ![Len(files[0])] =
                                          Append(files[0][Len(files[0])], ddr[nextData])]]
    BY <1>12 DEF WriteWhole, Fwrite
  <2>3. files' \in [Channels -> Seq(Seq(Nat))] /\ \A c \in Channels : files'[c] # <<>>
    BY <1>12, <2>1, <2>2, OneMoreBlock DEF WriteWhole
  <2>4. WriterTypeOK'
    BY <1>12, <2>1, <2>3 DEF WriteWhole
  <2>5. WriterShape'
    BY <1>12, <2>1, <2>3 DEF WriteWhole
  <2> QED
    BY <2>4, <2>5
<1>13. CASE WriteChannel
  <2>1. chan \in Channels /\ chan + 1 \in 0 .. NumOutFiles /\ ddr[nextData] \in Nat
    BY <1>13 DEF WriteChannel, Channels
  <2>2. files' = [files EXCEPT ![chan] = [files[chan] EXCEPT ![Len(files[chan])] =
                                          Append(files[chan][Len(files[chan])], ddr[nextData])]]
    BY <1>13 DEF WriteChannel, Fwrite
  <2>3. files' \in [Channels -> Seq(Seq(Nat))] /\ \A c \in Channels : files'[c] # <<>>
    BY <1>13, <2>1, <2>2, OneMoreBlock DEF WriteChannel
  <2>4. WriterTypeOK'
    BY <1>13, <2>1, <2>3 DEF WriteChannel
  <2>5. WriterShape'
    BY <1>13, <2>1, <2>3 DEF WriteChannel
  <2> QED
    BY <2>4, <2>5
<1>14. CASE CountBytes
  BY <1>14 DEF CountBytes
<1>15. CASE CheckSize
  <2>1. WriterTypeOK'
    BY <1>15 DEF CheckSize
  <2>2. ~breakFileSignal' => bytesWritten < MaxFileBlocks
    <3>1. breakFileSignal' = (breakFileSignal \/ bytesWritten >= MaxFileBlocks)
      BY <1>15 DEF CheckSize
    <3>2. ~breakFileSignal' => ~(bytesWritten >= MaxFileBlocks)
      BY <3>1, Zenon
    <3>3. bytesWritten \in Nat /\ MaxFileBlocks \in Nat
      OBVIOUS
    <3> QED
      BY <3>2, <3>3
  <2>3. wPc' = "top" /\ UNCHANGED <<files, nextData, chan, bytesWritten>>
    BY <1>15 DEF CheckSize
  <2>4. WriterShape'
    BY <1>15, <2>2, <2>3 DEF CheckSize
  <2> QED
    BY <2>1, <2>4
<1> QED
  BY <1>2, <1>3, <1>4, <1>5, <1>6, <1>7, <1>8, <1>9, <1>10, <1>11, <1>12, <1>13,
     <1>14, <1>15 DEF WriterNext

-----------------------------------------------------------------------------
Unopened == wPc \in {"unstarted", "start", "open"}
Opened == wPc \in {"top", "reopen", "reopened", "history", "rename", "resetBytes", "pop",
                   "popped", "write", "count", "checkSize"}

\* The counter, the name and the history between the steps that advance each of them.
NamesShape ==
    /\ Unopened => /\ fileNo = 1 /\ currIFFilename = 0 /\ fileHistory = <<>>
                   /\ files = [c \in Channels |-> <<>>]
    /\ Opened =>
          /\ fileNo = currIFFilename + (IF wPc \in {"history", "rename"} THEN 2 ELSE 1)
          /\ fileHistory = [i \in 1 .. (IF wPc = "rename" THEN currIFFilename + 1
                                                          ELSE currIFFilename) |-> i - 1]

\* How many files a channel has.
Opening(c) == IF wPc = "reopened" \/ (wPc = "reopen" /\ c < chan) THEN 1 ELSE 0

\* How many blocks its last file has.
InLast(c) ==
    CASE wPc \in {"reopened", "history", "rename", "resetBytes"} -> 0
      [] wPc = "reopen" -> IF c < chan THEN 0 ELSE MaxFileBlocks
      [] wPc = "count" \/ (wPc = "write" /\ WriteSplit /\ c < chan) -> bytesWritten + 1
      [] OTHER -> bytesWritten

FullFiles(c) == \A i \in 1 .. Len(files[c]) - 1 : Len(files[c][i]) = MaxFileBlocks

FilesShape ==
    Opened => /\ \A c \in Channels : Len(files[c]) = fileNo + Opening(c)
              /\ \A c \in Recorded : FullFiles(c) /\ Len(LastFile(c)) = InLast(c)

\* A file is broken when it is exactly full.
BreakShape ==
    /\ \/ wPc \in {"reopen", "reopened", "history", "rename", "resetBytes"}
       \/ wPc = "top" /\ breakFileSignal
       => bytesWritten = MaxFileBlocks
    /\ wPc = "write" /\ ~WriteSplit => chan = 0

FileInv == NamesShape /\ FilesShape /\ BreakShape

-----------------------------------------------------------------------------
(* What Reopen and Fwrite do to the files of one channel.                  *)

LEMMA NewFile ==
    ASSUME NEW f \in [Channels -> Seq(Seq(Nat))], NEW c \in Channels
    PROVE  LET g == [f EXCEPT ![c] = Append(f[c], <<>>)]
           IN /\ Len(g[c]) = Len(f[c]) + 1 /\ Len(f[c]) \in Nat /\ g[c][Len(f[c]) + 1] = <<>>
              /\ \A i \in 1 .. Len(f[c]) : g[c][i] = f[c][i]
              /\ \A d \in Channels : d # c => g[d] = f[d]
<1>1. f[c] \in Seq(Seq(Nat)) /\ <<>> \in Seq(Nat)
  OBVIOUS
<1> QED
  BY <1>1

LEMMA NewBlock ==
    ASSUME NEW f \in [Channels -> Seq(Seq(Nat))], NEW c \in Channels, NEW b \in Nat, f[c] # <<>>
    PROVE  LET last == Len(f[c])
               g == [f EXCEPT ![c] = [f[c] EXCEPT ![last] = Append(f[c][last], b)]]
           IN /\ Len(g[c]) = last /\ last \in Nat \ {0} /\ Len(f[c][last]) \in Nat
              /\ Len(g[c][last]) = Len(f[c][last]) + 1
              /\ \A i \in 1 .. last - 1 : g[c][i] = f[c][i]
              /\ \A d \in Channels : d # c => g[d] = f[d]
<1> DEFINE last == Len(f[c])
           h == [f[c] EXCEPT ![last] = Append(f[c][last], b)]
<1>1. f[c] \in Seq(Seq(Nat)) /\ last \in 1 .. Len(f[c]) /\ f[c][last] \in Seq(Nat)
  OBVIOUS
<1>2. h[last] = Append(f[c][last], b) /\ Len(h) = last /\ \A i \in 1 .. last - 1 : h[i] = f[c][i]
  BY <1>1
<1>3. Len(Append(f[c][last], b)) = Len(f[c][last]) + 1 /\ Len(f[c][last]) \in Nat
  BY <1>1
<1> HIDE DEF h
<1> QED
  BY <1>1, <1>2, <1>3 DEF h

-----------------------------------------------------------------------------
(* Names and files.                                                        *)

\* Steps that do not move the writer on.
LEMMA FilesFrame ==
    ASSUME FileInv, UNCHANGED <<wPc, files, chan, bytesWritten, breakFileSignal, wNames>>
    PROVE  FileInv'
<1> USE DEF wNames
<1>1. NamesShape'
  BY DEF FileInv, NamesShape, Unopened, Opened
<1>2. BreakShape'
  BY DEF FileInv, BreakShape
<1>3. \A c \in Channels : Opening(c)' = Opening(c) /\ InLast(c)' = InLast(c)
  BY DEF Opening, InLast
<1>4. FilesShape'
  BY <1>3, WriterAssumption
     DEF FileInv, FilesShape, Opened, FullFiles, LastFile, Recorded, Channels
<1> QED
  BY <1>1, <1>2, <1>4 DEF FileInv

\* Steps of the writer that leave the files alone.
LEMMA FilesStay ==
    ASSUME FilesShape, files' = files, Opened,
           \A c \in Channels : fileNo' + Opening(c)' = fileNo + Opening(c),
           \A c \in Recorded : InLast(c)' = InLast(c)
    PROVE  FilesShape'
  BY DEF FilesShape, FullFiles, LastFile

LEMMA NamesStep ==
    ASSUME WriterTypeOK, WriterShape, FileInv, NEW allowed, WriterNext(allowed)
    PROVE  NamesShape' /\ BreakShape'
<1> USE DEF FileInv, WGoto, wFlags, wNames
<1>0. /\ fileNo \in Nat /\ currIFFilename \in Nat /\ bytesWritten \in 0 .. MaxFileBlocks
      /\ MaxFileBlocks \in Nat \ {0} /\ breakFileSignal \in BOOLEAN
  BY WriterAssumption DEF WriterTypeOK
<1>1. CASE WriterBegin(allowed)
  BY <1>1 DEF WriterBegin, NamesShape, BreakShape, Unopened, Opened
<1>2. CASE OpenFiles
  BY <1>2 DEF OpenFiles, NamesShape, BreakShape, Unopened, Opened, WriterShape
<1>3. CASE WriterTop
  BY <1>3 DEF WriterTop, NamesShape, BreakShape, Unopened, Opened
<1>4. CASE Reopen
  BY <1>4 DEF Reopen, NamesShape, BreakShape, Unopened, Opened
<1>5. CASE ClearBreak
  BY <1>0, <1>5 DEF ClearBreak, NamesShape, BreakShape, Unopened, Opened
<1>6. CASE PushHistory
  <2>1. /\ wPc = "history" /\ wPc' = "rename" /\ fileHistory' = Append(fileHistory, currIFFilename)
        /\ UNCHANGED <<fileNo, currIFFilename, bytesWritten>>
    BY <1>6 DEF PushHistory
  <2>2. fileHistory = [i \in 1 .. currIFFilename |-> i - 1] /\ fileNo = currIFFilename + 2
    BY <2>1 DEF NamesShape, Opened
  <2>3. fileHistory' = [i \in 1 .. currIFFilename + 1 |-> i - 1]
    BY <1>0, <2>1, <2>2
  <2>4. NamesShape'
    BY <2>1, <2>2, <2>3 DEF NamesShape, Unopened, Opened
  <2>5. BreakShape'
    BY <2>1 DEF BreakShape
  <2> QED
    BY <2>4, <2>5
<1>7. CASE Rename
  BY <1>0, <1>7 DEF Rename, NamesShape, BreakShape, Unopened, Opened
<1>8. CASE ResetBytes
  BY <1>8 DEF ResetBytes, NamesShape, BreakShape, Unopened, Opened
<1>9. CASE WriterPop
  BY <1>9 DEF WriterPop, NamesShape, BreakShape, Unopened, Opened
<1>10. CASE WriterSync
  BY <1>10 DEF WriterSync, NamesShape, BreakShape, Unopened, Opened
<1>11. CASE WriteWhole
  BY <1>11 DEF WriteWhole, NamesShape, BreakShape, Unopened, Opened
<1>12. CASE WriteChannel
  BY <1>12 DEF WriteChannel, NamesShape, BreakShape, Unopened, Opened
<1>13. CASE CountBytes
  BY <1>13 DEF CountBytes, NamesShape, BreakShape, Unopened, Opened
<1>14. CASE CheckSize
  <2>1. NamesShape'
    BY <1>14 DEF CheckSize, NamesShape, Unopened, Opened
  <2>2. wPc = "checkSize" /\ wPc' = "top" /\ ~breakFileSignal /\ bytesWritten' = bytesWritten
    BY <1>14 DEF CheckSize, WriterShape
  <2>3. breakFileSignal' => bytesWritten >= MaxFileBlocks
    BY <1>14, <2>2 DEF CheckSize
  <2>4. breakFileSignal' => bytesWritten = MaxFileBlocks
    BY <1>0, <2>3
  <2> QED
    BY <2>1, <2>2, <2>4 DEF BreakShape
<1> QED
  BY <1>1, <1>2, <1>3, <1>4, <1>5, <1>6, <1>7, <1>8, <1>9, <1>10, <1>11, <1>12, <1>13, <1>14
     DEF WriterNext

LEMMA FilesStep ==
    ASSUME WriterTypeOK, WriterShape, FileInv, NEW allowed, WriterNext(allowed)
    PROVE  FilesShape'
<1> USE DEF FileInv, WGoto, wFlags, wNames
<1>0. /\ fileNo \in Nat /\ bytesWritten \in 0 .. MaxFileBlocks /\ chan \in 0 .. NumOutFiles
      /\ NumOutFiles \in Nat \ {0} /\ Recorded \subseteq Channels /\ Channels \subseteq Nat
      /\ files \in [Channels -> Seq(Seq(Nat))] /\ MaxFileBlocks \in Nat \ {0}
  BY WriterAssumption DEF WriterTypeOK, Recorded, Channels
<1>1. CASE WriterBegin(allowed)
  BY <1>1 DEF WriterBegin, FilesShape, Opened
<1>2. CASE OpenFiles
  <2>1. /\ files' = [c \in Channels |-> << <<>> >>] /\ wPc = "open" /\ wPc' = "top" /\ fileNo' = 1
        /\ bytesWritten' = 0
    BY <1>2 DEF OpenFiles, NamesShape, Unopened, WriterShape
  <2>2. \A c \in Channels : files'[c] = << <<>> >> /\ Opening(c)' = 0 /\ InLast(c)' = 0
    BY <2>1 DEF Opening, InLast
  <2> QED
    BY <1>0, <2>1, <2>2 DEF FilesShape, FullFiles, LastFile
<1>3. CASE WriterTop
  <2>1. /\ wPc = "top" /\ wPc' = IF breakFileSignal THEN "reopen" ELSE "pop"
        /\ chan' = 0 /\ UNCHANGED <<files, fileNo, bytesWritten>>
        /\ (breakFileSignal => bytesWritten = MaxFileBlocks)
    BY <1>3 DEF WriterTop, BreakShape
  <2>2. \A c \in Channels : Opening(c) = 0 /\ Opening(c)' = 0 /\ InLast(c)' = InLast(c)
    BY <1>0, <2>1 DEF Opening, InLast
  <2> QED
    BY <1>0, <2>1, <2>2, FilesStay DEF Opened
<1>4. CASE Reopen
  <2>1. /\ wPc = "reopen" /\ wPc' = IF chan + 1 = NumOutFiles THEN "reopened" ELSE "reopen"
        /\ files' = [files EXCEPT ![chan] = Append(files[chan], <<>>)] /\ chan' = chan + 1
        /\ UNCHANGED <<fileNo, bytesWritten>> /\ chan \in Channels
    BY <1>0, <1>4 DEF Reopen, WriterShape, Channels
  <2>2. /\ Len(files'[chan]) = Len(files[chan]) + 1 /\ Len(files[chan]) \in Nat
        /\ files'[chan][Len(files[chan]) + 1] = <<>>
        /\ \A i \in 1 .. Len(files[chan]) : files'[chan][i] = files[chan][i]
        /\ \A d \in Channels : d # chan => files'[d] = files[d]
    BY <1>0, <2>1, NewFile
  <2>3. /\ \A c \in Channels : Opening(c)' = IF c = chan THEN 1 ELSE Opening(c)
        /\ \A c \in Channels : InLast(c)' = IF c = chan THEN 0 ELSE InLast(c)
        /\ InLast(chan) = MaxFileBlocks /\ Opening(chan) = 0
    BY <1>0, <2>1 DEF Opening, InLast, Channels
  <2>4. ASSUME NEW c \in Channels PROVE Len(files'[c]) = fileNo' + Opening(c)'
    <3>1. Len(files[c]) = fileNo + Opening(c)
      BY <2>1 DEF FilesShape, Opened
    <3>2. Opening(c) \in {0, 1}
      BY DEF Opening
    <3>3. CASE c = chan
      BY <1>0, <2>1, <2>2, <2>3, <3>1, <3>3
    <3>4. CASE c # chan
      BY <2>1, <2>2, <2>3, <3>1, <3>4
    <3> QED
      BY <3>3, <3>4
  <2>5. ASSUME NEW c \in Recorded PROVE FullFiles(c)' /\ Len(LastFile(c)') = InLast(c)'
    <3>1. FullFiles(c) /\ Len(LastFile(c)) = InLast(c)
      BY <2>1 DEF FilesShape, Opened
    <3>2. CASE c # chan
      BY <1>0, <2>2, <2>3, <3>1, <3>2 DEF FullFiles, LastFile
    <3>3. CASE c = chan
      <4>1. Len(files[chan][Len(files[chan])]) = MaxFileBlocks
        BY <2>3, <3>1, <3>3 DEF LastFile
      <4>2. \A i \in 1 .. Len(files[chan]) : Len(files'[chan][i]) = MaxFileBlocks
        <5>1. \A i \in 1 .. Len(files[chan]) : i = Len(files[chan]) \/ i \in 1 .. Len(files[chan]) - 1
          BY <2>2
        <5>2. \A i \in 1 .. Len(files[chan]) : Len(files[chan][i]) = MaxFileBlocks
          BY <3>1, <3>3, <4>1, <5>1 DEF FullFiles
        <5> QED
          BY <2>2, <5>2
      <4>3. FullFiles(c)'
        BY <2>2, <3>3, <4>2 DEF FullFiles
      <4>4. Len(LastFile(c)') = 0
        BY <2>2, <3>3 DEF LastFile
      <4> QED
        BY <2>1, <2>3, <3>3, <4>3, <4>4
    <3> QED
      BY <3>2, <3>3
  <2> QED
    BY <2>4, <2>5 DEF FilesShape
<1>5. CASE ClearBreak
  <2>1. wPc = "reopened" /\ wPc' = "history" /\ fileNo' = fileNo + 1 /\ files' = files
    BY <1>5 DEF ClearBreak
  <2>2. \A c \in Channels : Opening(c) = 1 /\ Opening(c)' = 0 /\ InLast(c)' = InLast(c)
    BY <2>1 DEF Opening, InLast
  <2> QED
    BY <1>0, <2>1, <2>2, FilesStay DEF Opened
<1>6. CASE PushHistory \/ Rename \/ ResetBytes
  <2>1. /\ UNCHANGED <<files, fileNo>>
        /\ \/ wPc = "history" /\ wPc' = "rename"
           \/ wPc = "rename" /\ wPc' = "resetBytes"
           \/ wPc = "resetBytes" /\ wPc' = "pop" /\ bytesWritten' = 0
    <3>1. CASE PushHistory
      BY <3>1 DEF PushHistory
    <3>2. CASE Rename
      BY <3>2 DEF Rename
    <3>3. CASE ResetBytes
      BY <3>3 DEF ResetBytes
    <3> QED
      BY <1>6, <3>1, <3>2, <3>3
  <2>2. \A c \in Channels : Opening(c) = 0 /\ Opening(c)' = 0 /\ InLast(c)' = InLast(c)
    BY <2>1 DEF Opening, InLast
  <2> QED
    BY <1>0, <2>1, <2>2, FilesStay DEF Opened
<1>7. CASE WriterPop \/ WriterSync \/ CountBytes \/ CheckSize
  <2>1. /\ UNCHANGED <<files, fileNo>>
        /\ \/ wPc = "pop" /\ wPc' \in {"exited", "popped"} /\ bytesWritten' = bytesWritten
           \/ wPc = "popped" /\ wPc' \in {"write", "checkSize"} /\ chan' = 0 /\ bytesWritten' = bytesWritten
           \/ wPc = "count" /\ wPc' = "checkSize" /\ bytesWritten' = bytesWritten + 1
           \/ wPc = "checkSize" /\ wPc' = "top" /\ bytesWritten' = bytesWritten
    BY <1>7 DEF WriterPop, WriterSync, CountBytes, CheckSize
  <2>2. \A c \in Channels : Opening(c) = 0 /\ Opening(c)' = 0 /\ InLast(c)' = InLast(c)
    BY <1>0, <2>1 DEF Opening, InLast
  <2> QED
    BY <1>0, <2>1, <2>2, FilesStay DEF Opened
<1>8. ASSUME NEW d \in Channels, wPc = "write",
             files' = [files EXCEPT ![d] = [files[d] EXCEPT ![Len(files[d])] =
                                               Append(files[d][Len(files[d])], ddr[nextData])]],
             UNCHANGED fileNo, wPc' \in {"write", "count"},
             \A c \in Recorded : InLast(c)' = IF c = d THEN InLast(c) + 1 ELSE InLast(c)
      PROVE  FilesShape'
  <2>1. ddr[nextData] \in Nat /\ files[d] # <<>>
    BY <1>8 DEF WriterShape, WriterTypeOK
  <2>2. /\ Len(files'[d]) = Len(files[d]) /\ Len(files[d]) \in Nat \ {0}
        /\ Len(files[d][Len(files[d])]) \in Nat
        /\ Len(files'[d][Len(files[d])]) = Len(files[d][Len(files[d])]) + 1
        /\ \A i \in 1 .. Len(files[d]) - 1 : files'[d][i] = files[d][i]
        /\ \A e \in Channels : e # d => files'[e] = files[e]
    BY <1>0, <1>8, <2>1, NewBlock
  <2>3. \A c \in Channels : Opening(c) = 0 /\ Opening(c)' = 0
    BY <1>8 DEF Opening
  <2>4. \A c \in Channels : Len(files'[c]) = fileNo' + Opening(c)'
    BY <1>8, <2>2, <2>3 DEF FilesShape, Opened
  <2>5. ASSUME NEW c \in Recorded PROVE FullFiles(c)' /\ Len(LastFile(c)') = InLast(c)'
    <3>1. FullFiles(c) /\ Len(LastFile(c)) = InLast(c)
      BY <1>8 DEF FilesShape, Opened
    <3>2. CASE c # d
      BY <1>0, <1>8, <2>2, <3>1, <3>2 DEF FullFiles, LastFile
    <3>3. CASE c = d
      BY <1>0, <1>8, <2>2, <3>1, <3>3 DEF FullFiles, LastFile
    <3> QED
      BY <3>2, <3>3
  <2> QED
    BY <2>4, <2>5 DEF FilesShape
<1>9. CASE WriteWhole
  <2>1. /\ wPc = "write" /\ wPc' = "count" /\ ~WriteSplit /\ UNCHANGED <<fileNo, bytesWritten>>
        /\ files' = [files EXCEPT ![0] = [files[0] EXCEPT ![Len(files[0])] =
                                              Append(files[0][Len(files[0])], ddr[nextData])]]
    BY <1>9 DEF WriteWhole, Fwrite
  <2>2. 0 \in Channels /\ Recorded = {0}
    BY <1>0, <2>1 DEF Channels, Recorded
  <2>3. \A c \in Recorded : InLast(c)' = InLast(c) + 1 /\ c = 0
    BY <1>0, <2>1, <2>2 DEF InLast
  <2> QED
    BY <1>8, <2>1, <2>2, <2>3
<1>10. CASE WriteChannel
  <2>1. /\ wPc = "write" /\ wPc' = (IF chan + 1 = NumOutFiles THEN "count" ELSE "write") /\ WriteSplit
        /\ UNCHANGED <<fileNo, bytesWritten>> /\ chan' = chan + 1
        /\ files' = [files EXCEPT ![chan] = [files[chan] EXCEPT ![Len(files[chan])] =
                                              Append(files[chan][Len(files[chan])], ddr[nextData])]]
    BY <1>10 DEF WriteChannel, Fwrite
  <2>2. chan \in Channels /\ chan < NumOutFiles
    BY <1>0, <2>1 DEF Channels, WriterShape
  <2>3. ASSUME NEW c \in Channels PROVE InLast(c)' = IF c = chan THEN InLast(c) + 1 ELSE InLast(c)
    <3>1. c \in Nat /\ chan \in Nat /\ c < NumOutFiles
      BY <1>0 DEF Channels
    <3>2. InLast(c) = IF c < chan THEN bytesWritten + 1 ELSE bytesWritten
      BY <2>1 DEF InLast
    <3>3. chan + 1 = NumOutFiles => c < chan + 1
      BY <3>1
    <3>4. InLast(c)' = IF c < chan + 1 THEN bytesWritten + 1 ELSE bytesWritten
      BY <2>1, <3>3 DEF InLast
    <3> QED
      BY <1>0, <3>1, <3>2, <3>4
  <2>4. PICK d \in Channels : d = chan
    BY <2>2
  <2>5. \A c \in Recorded : InLast(c)' = IF c = d THEN InLast(c) + 1 ELSE InLast(c)
    BY <1>0, <2>3, <2>4
  <2> QED
    BY <1>8, <2>1, <2>4, <2>5
<1> QED
  BY <1>1, <1>2, <1>3, <1>4, <1>5, <1>6, <1>7, <1>9, <1>10 DEF WriterNext

\* At the start there is nothing.
LEMMA WriterStarts ==
    ASSUME SharedInit, WriterInit PROVE WriterTypeOK /\ WriterShape /\ FileInv
<1>1. WriterTypeOK
  BY SizeAssumption, WriterAssumption
     DEF SharedInit, WriterInit, WriterTypeOK, WLabels, Mixed, Slots
<1>2. WriterShape /\ FileInv
  BY DEF WriterInit, WriterShape, FileInv, NamesShape, FilesShape, BreakShape, Unopened, Opened
<1> QED
  BY <1>1, <1>2
=============================================================================
