---------------------------- MODULE WriterThread ----------------------------
(***************************************************************************)
(* HardwareManager::WriterThread: it takes buffers off the queue, appends  *)
(* them to the IF files and starts new files when these are full. Sizes    *)
(* are in blocks (BUFFER_BYTESIZE). writeOn is set by the MQTT thread.     *)
(***************************************************************************)
EXTENDS HardwareState

CONSTANTS NumOutFiles,      \* m_numOutFiles, 4
          MaxFileBlocks,    \* m_maxFileSize, 19382 blocks
          WriteSplit        \* m_writeSplit: one file per channel, or all in the first

ASSUME WriterAssumption ==
    /\ NumOutFiles \in Nat \ {0}
    /\ MaxFileBlocks \in Nat \ {0}
    /\ WriteSplit \in BOOLEAN

Channels == 0 .. NumOutFiles - 1

VARIABLES wPc,
          nextData,         \* the buffer the writer has taken
          chan,             \* i, in the loops over the files
          breakFileSignal,  \* m_breakFileSignal
          writeOn,          \* m_writeOn
          bytesWritten,     \* m_bytesWritten
          fileNo,           \* names the next files: base.1, base.2, ...
          currIFFilename,   \* m_currIFFilename, 0 for the base name
          fileHistory,      \* m_fileHistory
          files,            \* per channel, the blocks in each file opened so far
          dropped           \* history: buffers taken off the queue and not written

wFlags == <<breakFileSignal, writeOn, bytesWritten>>
wNames == <<fileNo, currIFFilename, fileHistory>>
wVars == <<wPc, nextData, chan, wFlags, wNames, files, dropped>>

WriterInit ==
    /\ wPc = "unstarted" /\ nextData = NULL /\ chan = 0
    /\ breakFileSignal = FALSE /\ writeOn = TRUE /\ bytesWritten = 0
    /\ fileNo = 1 /\ currIFFilename = 0 /\ fileHistory = <<>>
    /\ files = [c \in Channels |-> <<>>]
    /\ dropped = 0

WGoto(from, to) == wPc = from /\ wPc' = to

\* "pause" and "resume", on the MQTT thread.
SetWrite(value) ==
    /\ writeOn' = value
    /\ UNCHANGED <<wPc, nextData, chan, breakFileSignal, bytesWritten, wNames, files,
                   dropped, shared>>

-----------------------------------------------------------------------------
WriterBegin(rtAllowed) ==
    /\ WGoto("start", IF rtAllowed THEN "open" ELSE "exited")
    /\ UNCHANGED <<nextData, chan, wFlags, wNames, files, dropped, shared>>

OpenFiles ==
    /\ WGoto("open", "top")
    /\ files' = [c \in Channels |-> << <<>> >>]
    /\ currIFFilename' = 0
    /\ UNCHANGED <<nextData, chan, wFlags, fileNo, fileHistory, dropped, shared>>

\* Mutant: the loop over the files starts at 1, as the one at the thread's end does.
WriterTopFromOne ==
    /\ WGoto("top", IF breakFileSignal THEN "reopen" ELSE "pop")
    /\ chan' = 1
    /\ UNCHANGED <<nextData, wFlags, wNames, files, dropped, shared>>

WriterTop ==
    /\ WGoto("top", IF breakFileSignal THEN "reopen" ELSE "pop")
    /\ chan' = 0
    /\ UNCHANGED <<nextData, wFlags, wNames, files, dropped, shared>>

\* fclose of one file and fopen of its successor.
Reopen ==
    /\ WGoto("reopen", IF chan + 1 = NumOutFiles THEN "reopened" ELSE "reopen")
    /\ files' = [files EXCEPT ![chan] = Append(@, <<>>)]
    /\ chan' = chan + 1
    /\ UNCHANGED <<nextData, wFlags, wNames, dropped, shared>>

ClearBreak ==
    /\ WGoto("reopened", "history")
    /\ fileNo' = fileNo + 1
    /\ breakFileSignal' = FALSE
    /\ UNCHANGED <<nextData, chan, writeOn, bytesWritten, currIFFilename, fileHistory,
                   files, dropped, shared>>

PushHistory ==
    /\ WGoto("history", "rename")
    /\ fileHistory' = Append(fileHistory, currIFFilename)
    /\ UNCHANGED <<nextData, chan, wFlags, fileNo, currIFFilename, files, dropped, shared>>

\* Mutant: the name is taken from the counter after it was advanced.
RenameAhead ==
    /\ WGoto("rename", "resetBytes")
    /\ currIFFilename' = fileNo
    /\ UNCHANGED <<nextData, chan, wFlags, fileNo, fileHistory, files, dropped, shared>>

Rename ==
    /\ WGoto("rename", "resetBytes")
    /\ currIFFilename' = fileNo - 1
    /\ UNCHANGED <<nextData, chan, wFlags, fileNo, fileHistory, files, dropped, shared>>

ResetBytes ==
    /\ WGoto("resetBytes", "pop")
    /\ bytesWritten' = 0
    /\ UNCHANGED <<nextData, chan, breakFileSignal, writeOn, wNames, files, dropped, shared>>

WriterPop ==
    /\ PopFront
    /\ nextData' = Head(dataQueue)
    /\ WGoto("pop", IF Head(dataQueue) = NULL THEN "exited" ELSE "popped")
    /\ UNCHANGED <<chan, wFlags, wNames, files, dropped, ddr, stopSignal>>

\* The cache is synced; if (m_writeOn).
WriterSync ==
    /\ WGoto("popped", IF writeOn THEN "write" ELSE "checkSize")
    /\ chan' = 0
    /\ dropped' = IF writeOn THEN dropped ELSE dropped + 1
    /\ UNCHANGED <<nextData, wFlags, wNames, files, shared>>

\* Adds what is in the DDR buffer now to the last file of channel c.
Fwrite(c) == files' = [files EXCEPT ![c][Len(files[c])] = Append(@, ddr[nextData])]

\* Mutant: the block is written once per file of m_numOutFiles.
WriteWholeToAll ==
    /\ ~WriteSplit
    /\ WGoto("write", IF chan + 1 = NumOutFiles THEN "count" ELSE "write")
    /\ Fwrite(0)
    /\ chan' = chan + 1
    /\ UNCHANGED <<nextData, wFlags, wNames, dropped, shared>>

WriteWhole ==
    /\ ~WriteSplit
    /\ WGoto("write", "count")
    /\ Fwrite(0)
    /\ UNCHANGED <<nextData, chan, wFlags, wNames, dropped, shared>>

\* Mutant: the last channel is left out.
WriteChannelButLast ==
    /\ WriteSplit
    /\ WGoto("write", IF chan + 2 = NumOutFiles THEN "count" ELSE "write")
    /\ Fwrite(chan)
    /\ chan' = chan + 1
    /\ UNCHANGED <<nextData, wFlags, wNames, dropped, shared>>

\* Mutant: a pause that comes while a block is written ends the loop over the files.
WriteChannelUntilPause ==
    /\ WriteSplit
    /\ WGoto("write", IF chan + 1 = NumOutFiles \/ ~writeOn THEN "count" ELSE "write")
    /\ Fwrite(chan)
    /\ chan' = chan + 1
    /\ UNCHANGED <<nextData, wFlags, wNames, dropped, shared>>

WriteChannel ==
    /\ WriteSplit
    /\ WGoto("write", IF chan + 1 = NumOutFiles THEN "count" ELSE "write")
    /\ Fwrite(chan)
    /\ chan' = chan + 1
    /\ UNCHANGED <<nextData, wFlags, wNames, dropped, shared>>

CountBytes ==
    /\ WGoto("count", "checkSize")
    /\ bytesWritten' = bytesWritten + 1
    /\ UNCHANGED <<nextData, chan, breakFileSignal, writeOn, wNames, files, dropped, shared>>

\* Mutant: the file breaks one block late.
CheckSizeLate ==
    /\ WGoto("checkSize", "top")
    /\ breakFileSignal' = (breakFileSignal \/ bytesWritten > MaxFileBlocks)
    /\ UNCHANGED <<nextData, chan, writeOn, bytesWritten, wNames, files, dropped, shared>>

CheckSize ==
    /\ WGoto("checkSize", "top")
    /\ breakFileSignal' = (breakFileSignal \/ bytesWritten >= MaxFileBlocks)
    /\ UNCHANGED <<nextData, chan, writeOn, bytesWritten, wNames, files, dropped, shared>>

WriterNext(rtAllowed) ==
    \/ WriterBegin(rtAllowed) \/ OpenFiles \/ WriterTop \/ Reopen \/ ClearBreak
    \/ PushHistory \/ Rename \/ ResetBytes \/ WriterPop \/ WriterSync
    \/ WriteWhole \/ WriteChannel \/ CountBytes \/ CheckSize

-----------------------------------------------------------------------------
WLabels == {"unstarted", "start", "open", "top", "reopen", "reopened", "history", "rename",
            "resetBytes", "pop", "popped", "write", "count", "checkSize", "exited"}

\* The types of what the writer reads and writes.
WriterTypeOK ==
    /\ dataQueue \in Seq(Slots \cup {NULL}) /\ ddr \in [Slots -> Nat]
    /\ wPc \in WLabels
    /\ nextData \in Slots \cup {NULL}
    /\ chan \in 0 .. NumOutFiles
    /\ breakFileSignal \in BOOLEAN /\ writeOn \in BOOLEAN
    /\ bytesWritten \in 0 .. MaxFileBlocks
    /\ fileNo \in Nat \ {0} /\ currIFFilename \in Nat /\ fileHistory \in Seq(Nat)
    /\ files \in [Channels -> Seq(Seq(Nat))]
    /\ dropped \in Nat

\* What the writer's control point says of its variables.
WriterShape ==
    /\ wPc \in {"popped", "write"} => nextData \in Slots
    /\ wPc \in {"reopen", "write"} => chan < NumOutFiles
    /\ wPc \in {"unstarted", "start", "open"} => bytesWritten = 0 /\ ~breakFileSignal
    /\ wPc \in {"pop", "popped", "write", "count"} =>
           bytesWritten < MaxFileBlocks /\ ~breakFileSignal
    /\ wPc = "top" /\ ~breakFileSignal => bytesWritten < MaxFileBlocks
    /\ wPc \in {"history", "rename", "resetBytes", "checkSize"} => ~breakFileSignal
    /\ wPc \notin {"unstarted", "start", "open", "exited"} =>
           \A c \in Channels : files[c] # <<>>

Recorded == IF WriteSplit THEN Channels ELSE {0}

LastFile(c) == files[c][Len(files[c])]

\* Between two buffers every recorded channel is at the same place: all files but the
\* last hold exactly MaxFileBlocks blocks, the last as many as m_bytesWritten says, and
\* the names are those of the files. This is what uploads compute their offsets from.
FilesAligned ==
    wPc \in {"top", "pop", "popped", "checkSize"} =>
        /\ \A c \in Recorded :
              /\ \A i \in 1 .. Len(files[c]) - 1 : Len(files[c][i]) = MaxFileBlocks
              /\ Len(LastFile(c)) = bytesWritten
        /\ \A c \in Channels : Len(files[c]) = currIFFilename + 1
        /\ fileNo = currIFFilename + 1
        /\ fileHistory = [i \in 1 .. currIFFilename |-> i - 1]
=============================================================================
