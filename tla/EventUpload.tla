----------------------------- MODULE EventUpload -----------------------------
(***************************************************************************)
(* The "event" and "update" messages of LoggerController::MQTT_Callback: a *)
(* part of the recording is chosen while WriterThread appends to it, and   *)
(* handed to HTTPClient::upload. Positions are in blocks: m_bytesWritten/4 *)
(* in units of CHANNEL_BUF_SIZE, what each channel's file gets of a block  *)
(* when the channels are split (option -S). When they are not, the one     *)
(* file gets all four channels of it, m_bytesWritten/4 is no position in   *)
(* that file, and this module says nothing of the program.                 *)
(* The callback runs on one thread, which reads the writer's members       *)
(* without a lock. Each member is read in one access here.                 *)
(***************************************************************************)
EXTENDS WriterThread

CONSTANTS PreBlocks,        \* m_numPreBytes
          PostBlocks,       \* m_numPostBytes
          UpdateBlocks,     \* m_numUpdateBytes, or m_ephSize
          Modulus,          \* of unsigned long: 2^32 bytes
          MaxFed            \* bound: how many blocks are recorded

ASSUME UploadAssumption ==
    /\ WriteSplit
    /\ PreBlocks \in 0 .. MaxFileBlocks
    /\ PostBlocks \in Nat /\ UpdateBlocks \in 1 .. MaxFileBlocks
    /\ MaxFed \in Nat
    /\ Modulus \in Nat /\ Modulus > 2 * MaxFileBlocks + PreBlocks + PostBlocks

VARIABLES mPc,
          message,          \* "event" or "update": payloadTokens[0]
          name1, name2,     \* localIF1 and localIF2, by the number of the file
          pos,              \* currFilePos, currentPos
          plan,             \* the windows being computed
          windows,          \* the windows last handed to upload
          fed,              \* how many blocks HWThread has queued
          seen,             \* the wait loop began a turn with the last block on file
          start,            \* history: how many blocks were counted when pos was read
          torn              \* history: name and position were not read of the same file

callback == <<mPc, message, name1, name2, pos, plan, windows>>
watch == <<fed, start, torn>>
vars == <<shared, wVars, callback, watch, seen>>

Window(file, offset, size) == [file |-> file, offset |-> offset, size |-> size]

Init ==
    /\ SharedInit /\ WriterInit
    /\ mPc = "idle" /\ message = "event" /\ name1 = 0 /\ name2 = 0 /\ pos = 0
    /\ plan = <<>> /\ windows = <<>>
    /\ fed = 0 /\ seen = FALSE /\ start = 0 /\ torn = FALSE

-----------------------------------------------------------------------------
WriterDone == wPc = "pop" /\ dataQueue = <<>>

(***************************************************************************)
(* A block takes 16 ms. The writer is done with one before the next, and   *)
(* the callback's straight code, and a turn of its wait loops, take less.  *)
(***************************************************************************)
Feed ==
    /\ fed < MaxFed
    /\ WriterDone
    /\ mPc = "idle" \/ (mPc \in {"eventWait", "updateWait"} /\ seen)
    /\ Push(0)
    /\ ddr' = [ddr EXCEPT ![0] = fed + 1]
    /\ fed' = fed + 1
    /\ seen' = FALSE
    /\ UNCHANGED <<stopSignal, wVars, callback, start, torn>>

StartWriter ==
    /\ WGoto("unstarted", "start")
    /\ UNCHANGED <<nextData, chan, wFlags, wNames, files, dropped, shared, callback, watch, seen>>

Writer ==
    /\ WriterNext(TRUE)
    /\ torn' = (torn \/ (wPc \in {"rename", "resetBytes"} /\ mPc \in {"eventPos", "updateName"}))
    /\ UNCHANGED <<callback, fed, start, seen>>

\* "pause" and "resume" come on the callback's thread, between two other messages.
Mqtt == /\ mPc = "idle"
        /\ \E value \in BOOLEAN : SetWrite(value)
        /\ UNCHANGED <<callback, watch, seen>>

-----------------------------------------------------------------------------
MGoto(from, to) == mPc = from /\ mPc' = to

\* Blocks of one channel that are on file and counted in m_bytesWritten, since the start.
\* It is the first that gets a block first.
Counted == (Len(files[0]) - 1) * MaxFileBlocks + Len(LastFile(0))
             - (IF wPc = "count" \/ (wPc = "write" /\ chan > 0) THEN 1 ELSE 0)

\* Between Rename and ResetBytes the name is the new file's, the position the old one's.
Renaming == wPc = "resetBytes"

\* The channel's file is named first, then the position is read.
Event ==
    /\ MGoto("idle", "eventPos")
    /\ files[0] # <<>>
    /\ name1' = currIFFilename
    /\ torn' = Renaming
    /\ windows' = <<>>
    /\ message' = "event"
    /\ UNCHANGED <<name2, pos, plan, fed, seen, start, wVars, shared>>

EventPos ==
    /\ MGoto("eventPos", "eventWait")
    /\ pos' = bytesWritten
    /\ start' = Counted
    /\ seen' = FALSE
    /\ UNCHANGED <<message, name1, name2, plan, windows, fed, torn, wVars, shared>>

\* Busy wait for the data after the event.
EventWait ==
    /\ MGoto("eventWait", IF bytesWritten < pos + PostBlocks THEN "eventEdge" ELSE "eventPlan")
    /\ seen' = WriterDone
    /\ UNCHANGED <<message, name1, name2, pos, plan, windows, watch, wVars, shared>>

\* Mutant: a new file does not end the wait.
EventEdgeUnseen ==
    /\ MGoto("eventEdge", "eventWait")
    /\ UNCHANGED <<message, name1, name2, pos, plan, windows, watch, seen, wVars, shared>>

\* Or until there is a new file.
EventEdge ==
    /\ MGoto("eventEdge", IF bytesWritten < pos THEN "eventPlan" ELSE "eventWait")
    /\ UNCHANGED <<message, name1, name2, pos, plan, windows, watch, seen, wVars, shared>>

\* Mutant: the data after the event is left out.
Scenario1PreOnly ==
    /\ MGoto("eventPlan", "eventAsk")
    /\ pos >= PreBlocks
    /\ plan' = <<Window(name1, pos - PreBlocks, PreBlocks)>>
    /\ UNCHANGED <<message, name1, name2, pos, windows, watch, seen, wVars, shared>>

\* Scenario 1: the data before the event is in this file.
Scenario1 ==
    /\ MGoto("eventPlan", "eventAsk")
    /\ pos >= PreBlocks
    /\ plan' = <<Window(name1, pos - PreBlocks, PreBlocks + PostBlocks)>>
    /\ UNCHANGED <<message, name1, name2, pos, windows, watch, seen, wVars, shared>>

\* Scenario 2: it began in the file before. GetLastIFFilename is read later.
Scenario2 ==
    /\ MGoto("eventPlan", "eventLast")
    /\ pos < PreBlocks /\ Len(fileHistory) >= 2
    /\ plan' = <<Window(name1, 0, pos + PostBlocks)>>
    /\ UNCHANGED <<message, name1, name2, pos, windows, watch, seen, wVars, shared>>

\* m_fileHistory[size() - 2]
LastIFFilename == IF Len(fileHistory) < 1 THEN currIFFilename
                  ELSE fileHistory[Len(fileHistory) - 1]

Scenario2Last ==
    /\ MGoto("eventLast", "eventAsk")
    /\ name2' = LastIFFilename
    /\ plan' = <<plan[1], Window(LastIFFilename,
                                 (MaxFileBlocks - PreBlocks + pos) % Modulus,
                                 (PreBlocks - plan[1].size) % Modulus)>>
    /\ UNCHANGED <<message, name1, pos, windows, watch, seen, wVars, shared>>

\* Scenario 3: there is no file before.
Scenario3 ==
    /\ MGoto("eventPlan", "eventAsk")
    /\ pos < PreBlocks /\ Len(fileHistory) < 2
    /\ plan' = <<Window(name1, 0, pos + PreBlocks)>>
    /\ UNCHANGED <<message, name1, name2, pos, windows, watch, seen, wVars, shared>>

\* Mutant: only the first window is cut.
CutFirst(w) == IF w = plan[1] /\ w.size > (MaxFileBlocks - w.offset) % Modulus
               THEN [w EXCEPT !.size = (MaxFileBlocks - w.offset) % Modulus] ELSE w

\* "Sanity check.": no window goes past the end of a file.
Cut(w) == IF w.size > (MaxFileBlocks - w.offset) % Modulus
          THEN [w EXCEPT !.size = (MaxFileBlocks - w.offset) % Modulus] ELSE w

EventAsk ==
    /\ MGoto("eventAsk", "idle")
    /\ windows' = [i \in DOMAIN plan |-> Cut(plan[i])]
    /\ plan' = <<>>
    /\ UNCHANGED <<message, name1, name2, pos, watch, seen, wVars, shared>>

-----------------------------------------------------------------------------
\* Here the position is read before the name.
Update ==
    /\ MGoto("idle", "updateName")
    /\ files[0] # <<>>
    /\ pos' = bytesWritten
    /\ start' = Counted
    /\ torn' = Renaming
    /\ windows' = <<>>
    /\ message' = "update"
    /\ UNCHANGED <<name1, name2, plan, fed, seen, wVars, shared>>

UpdateName ==
    /\ MGoto("updateName", "updateWait")
    /\ name1' = currIFFilename
    /\ plan' = <<Window(currIFFilename, pos, UpdateBlocks)>>
    /\ seen' = FALSE
    /\ UNCHANGED <<message, name2, pos, windows, fed, start, torn, wVars, shared>>

UpdateWait ==
    /\ MGoto("updateWait", IF bytesWritten < pos + UpdateBlocks THEN "updateEdge" ELSE "updateAsk")
    /\ seen' = WriterDone
    /\ UNCHANGED <<message, name1, name2, pos, plan, windows, watch, wVars, shared>>

\* Mutant: the window is not cut at the end of the file.
UpdateEdgeUncut ==
    /\ MGoto("updateEdge", IF bytesWritten < pos THEN "updateAsk" ELSE "updateWait")
    /\ UNCHANGED <<message, name1, name2, pos, plan, windows, watch, seen, wVars, shared>>

UpdateEdge ==
    /\ MGoto("updateEdge", IF bytesWritten < pos THEN "updateAsk" ELSE "updateWait")
    /\ plan' = IF bytesWritten < pos THEN <<Window(name1, pos, MaxFileBlocks - pos)>> ELSE plan
    /\ UNCHANGED <<message, name1, name2, pos, windows, watch, seen, wVars, shared>>

UpdateAsk ==
    /\ MGoto("updateAsk", "idle")
    /\ windows' = plan
    /\ plan' = <<>>
    /\ UNCHANGED <<message, name1, name2, pos, watch, seen, wVars, shared>>

Callback ==
    \/ EventPos \/ EventWait \/ EventEdge \/ Scenario1 \/ Scenario2 \/ Scenario2Last
    \/ Scenario3 \/ EventAsk \/ UpdateName \/ UpdateWait \/ UpdateEdge \/ UpdateAsk

Next == Feed \/ StartWriter \/ Writer \/ Mqtt \/ Event \/ Update \/ Callback

(***************************************************************************)
(* HWThread goes on recording, the writer and the callback are scheduled.  *)
(* Feed falls between two turns of a wait loop, hence it is strongly fair. *)
(***************************************************************************)
Fairness == SF_vars(Feed) /\ WF_vars(Writer) /\ WF_vars(Callback)

SafeSpec == Init /\ [][Next]_vars
Spec == SafeSpec /\ Fairness

-----------------------------------------------------------------------------
TypeOK ==
    /\ WriterTypeOK
    /\ mPc \in {"idle", "eventPos", "eventWait", "eventEdge", "eventPlan", "eventLast",
                "eventAsk", "updateName", "updateWait", "updateEdge", "updateAsk"}
    /\ name1 \in 0 .. MaxFed /\ name2 \in 0 .. MaxFed /\ pos \in 0 .. MaxFileBlocks
    /\ fed \in 0 .. MaxFed /\ start \in 0 .. MaxFed
    /\ seen \in BOOLEAN /\ torn \in BOOLEAN

\* Where a window lies in the recording, counted from the start of the first file.
FirstBlock(w) == w.file * MaxFileBlocks + w.offset + 1
Covered == UNION {FirstBlock(windows[i]) .. FirstBlock(windows[i]) + windows[i].size - 1 :
                     i \in DOMAIN windows}

\* A name and a position that were read of the same file denote the place in the
\* recording where the message found it, though it moves on between the two reads:
\* "This is the current offset in each file."
PlaceKnown ==
    mPc \notin {"idle", "eventPos", "updateName"} /\ ~torn
        => name1 * MaxFileBlocks + pos = start

\* The unsigned sizes never send an upload past the end of a file, in any scenario,
\* whether or not the file changed in between.
WindowsFit == \A i \in DOMAIN windows : windows[i].offset + windows[i].size <= MaxFileBlocks

\* By the time it is asked for, every block of a window is on file, whatever the channel:
\* the waits end late enough. Not so in Scenario 3, which waits for m_numPostBytes and
\* asks for m_numPreBytes.
OnFile(w) == \A c \in Recorded : /\ w.file < Len(files[c])
                                 /\ w.offset + w.size <= Len(files[c][w.file + 1])
Scenario3Asked == message = "event" /\ pos < PreBlocks /\ Len(windows) = 1
WindowsWritten == torn \/ Scenario3Asked \/ \A i \in DOMAIN windows : OnFile(windows[i])

\* What the message asks for: the data around the event, or after the update, or what
\* there is of it in the file that was being written.
Asked == {b \in (IF message = "event" THEN start - PreBlocks + 1 .. start + PostBlocks
                                      ELSE start + 1 .. start + UpdateBlocks) :
             b <= (name1 + 1) * MaxFileBlocks}

\* An upload is of exactly the blocks asked for, whenever the writer breaks the file
\* during the wait; events less than m_numPreBytes into a file are another matter.
RightData ==
    windows # <<>> /\ ~torn /\ (message = "event" => pos >= PreBlocks) => Covered = Asked

\* "Scenario 2: We need 2 files.": the data before an event is uploaded, also if the
\* recording went on to a new file since.
BeforeData ==
    windows # <<>> /\ ~torn /\ message = "event"
        => \A b \in 1 .. start : b > start - PreBlocks => b \in Covered

\* The callback does not wait on when the data it waits for, or the last of the file, is on
\* file: no wait misses its end because WriterThread broke the file meanwhile. But for the
\* wait for as much as a file holds, or more, that began at the start of a file.
Wanted == IF message = "event" THEN PostBlocks ELSE UpdateBlocks
WaitsInTime ==
    /\ mPc \in {"eventWait", "eventEdge", "updateWait", "updateEdge"} /\ ~torn
    /\ Wanted > 0 /\ (pos > 0 \/ Wanted < MaxFileBlocks)
    => Counted <= start + Wanted /\ Counted <= (name1 + 1) * MaxFileBlocks

\* While the recording goes on, and was not paused before, the callback returns within a
\* file's length: no wait misses its end because the file was broken meanwhile.
CallbackReturns ==
    mPc # "idle" /\ writeOn /\ fed + MaxFileBlocks <= MaxFed  ~>  mPc = "idle"
=============================================================================
