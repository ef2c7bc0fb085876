-------------------------- MODULE HardwareManager --------------------------
(***************************************************************************)
(* HardwareManager: Start and Stop on the main thread, HWThread and        *)
(* WriterThread, around m_dataQueue and the DDR region. The MQTT thread    *)
(* sets writeOn at any time.                                               *)
(***************************************************************************)
EXTENDS HWThread, WriterThread

CONSTANT DrainLevel     \* 300: Stop empties the queue down to less than this

ASSUME ManagerAssumption ==
    /\ DrainLevel \in 1 .. DDR_Q_SIZE
    /\ MaxBlocks \in Nat

VARIABLES mainPc,
          rtAllowed,    \* whether RLIMIT_RTPRIO admits the priority both threads ask for
          spoiled       \* history: a transfer began into the buffer the writer was copying

mainVars == <<rtAllowed, spoiled>>
vars == <<mainPc, mainVars, shared, hwVars, wVars>>

Init ==
    /\ mainPc = "start"
    /\ rtAllowed \in BOOLEAN /\ spoiled = FALSE
    /\ SharedInit /\ HWInit /\ WriterInit

-----------------------------------------------------------------------------
MainGoto(from, to) == mainPc = from /\ mainPc' = to

StartWriter ==
    /\ MainGoto("start", "started")
    /\ WGoto("unstarted", "start")
    /\ UNCHANGED <<nextData, chan, wFlags, wNames, files, dropped, shared, hwVars, mainVars>>

\* A second later.
StartHW ==
    /\ MainGoto("started", "running")
    /\ HWGoto("unstarted", "start")
    /\ UNCHANGED <<hwLocal, fpga, history, shared, wVars, mainVars>>

Stop ==
    /\ MainGoto("running", "drain")
    /\ stopSignal' = TRUE
    /\ UNCHANGED <<dataQueue, ddr, hwVars, wVars, mainVars>>

DrainCheck ==
    /\ MainGoto("drain", IF Len(dataQueue) >= DrainLevel THEN "drainPop" ELSE "joinHW")
    /\ UNCHANGED <<shared, hwVars, wVars, mainVars>>

DrainPop ==
    /\ MainGoto("drainPop", "drain")
    /\ PopFront
    /\ dropped' = dropped + 1
    /\ UNCHANGED <<ddr, stopSignal, hwVars, wPc, nextData, chan, wFlags, wNames, files,
                   mainVars>>

\* Mutant: Stop does not wait for HWThread.
JoinNothing ==
    /\ MainGoto("joinHW", "pushNull")
    /\ UNCHANGED <<shared, hwVars, wVars, mainVars>>

JoinHW ==
    /\ MainGoto("joinHW", "pushNull")
    /\ hwPc = "exited"
    /\ UNCHANGED <<shared, hwVars, wVars, mainVars>>

\* Mutant: no null pointer is queued.
PushNothing ==
    /\ MainGoto("pushNull", "joinWriter")
    /\ UNCHANGED <<shared, hwVars, wVars, mainVars>>

PushNull ==
    /\ MainGoto("pushNull", "joinWriter")
    /\ Push(NULL)
    /\ UNCHANGED <<ddr, stopSignal, hwVars, wVars, mainVars>>

JoinWriter ==
    /\ MainGoto("joinWriter", "stopped")
    /\ wPc = "exited"
    /\ UNCHANGED <<shared, hwVars, wVars, mainVars>>

MainNext == \/ StartWriter \/ StartHW \/ Stop \/ DrainCheck \/ DrainPop
            \/ JoinHW \/ PushNull \/ JoinWriter

\* The writer has a buffer in its hands and copies it to the files.
Copying == wPc \in {"popped", "write"}

HWStep ==
    /\ HWNext(rtAllowed)
    /\ spoiled' = (spoiled \/ (StartDma /\ Copying /\ nextData = queueIndex))
    /\ UNCHANGED <<mainPc, rtAllowed, wVars>>
WriterStep == WriterNext(rtAllowed) /\ UNCHANGED <<mainPc, mainVars, hwVars>>
Fpga == FpgaFill /\ UNCHANGED <<mainPc, mainVars, wVars>>
Mqtt == \E value \in BOOLEAN : SetWrite(value) /\ UNCHANGED <<mainPc, mainVars, hwVars>>

Next == MainNext \/ HWStep \/ WriterStep \/ Fpga \/ Mqtt

(***************************************************************************)
(* The scheduler runs every thread that can run, and a transfer ends. No   *)
(* one has to call Stop, and the FPGA may fall silent.                     *)
(***************************************************************************)
Fairness ==
    /\ WF_vars(MainNext /\ ~Stop)
    /\ WF_vars(HWStep)
    /\ WF_vars(WriterStep)

SafeSpec == Init /\ [][Next]_vars
Spec == SafeSpec /\ Fairness

-----------------------------------------------------------------------------
HWLabels == {"unstarted", "start", "top", "poll", "polled", "acked", "fullWait", "dma",
             "push", "exited"}
MainLabels == {"start", "started", "running", "drain", "drainPop", "joinHW", "pushNull",
               "joinWriter", "stopped"}

TypeOK ==
    /\ WriterTypeOK
    /\ stopSignal \in BOOLEAN /\ rtAllowed \in BOOLEAN /\ spoiled \in BOOLEAN
    /\ mainPc \in MainLabels /\ hwPc \in HWLabels
    /\ regValue \subseteq {0, 1} /\ isr \subseteq {0, 1} /\ bufferNum \in {0, 1}
    /\ bram \in [{0, 1} -> Nat] /\ produced \in Nat
    /\ queueIndex \in Slots
    /\ firstInterrupt \in BOOLEAN /\ numErrors \in Nat
    /\ pushed \in Seq(Nat) /\ overrun \in BOOLEAN

-----------------------------------------------------------------------------
(* The ring.                                                               *)

\* How many queued buffers hold data: all but the null that ends the writer, the last.
DataLen == IF dataQueue # <<>> /\ dataQueue[Len(dataQueue)] = NULL
           THEN Len(dataQueue) - 1 ELSE Len(dataQueue)

\* The buffer d places before buffer q in the ring.
Behind(q, d) == IF d <= q THEN q - d ELSE q + DDR_Q_SIZE - d

\* The queue holds the last buffers filled, in the order of the ring, and no buffer
\* that waits in it is overwritten: each still holds the block it was queued with.
QueuedIntact ==
    \A i \in 1 .. DataLen :
        /\ dataQueue[i] = Behind(queueIndex, DataLen + 1 - i)
        /\ ddr[dataQueue[i]] = pushed[Len(pushed) - DataLen + i]

\* The null comes last, after HWThread has ended, and the writer ends on it.
NullLast ==
    /\ \A i \in 1 .. Len(dataQueue) :
           dataQueue[i] = NULL => i = Len(dataQueue) /\ mainPc \in {"joinWriter", "stopped"}
    /\ mainPc \in {"start", "started"} => hwPc = "unstarted"
    /\ mainPc \in {"pushNull", "joinWriter", "stopped"} => hwPc = "exited"
    /\ wPc = "exited" /\ rtAllowed => dataQueue = <<>> /\ mainPc \in {"joinWriter", "stopped"}
    /\ mainPc = "stopped" => wPc = "exited"

\* There are never more buffers than DDR_Q_SIZE in the queue, nor more than were pushed.
RingShape ==
    /\ Len(dataQueue) <= DDR_Q_SIZE
    /\ DataLen <= Len(pushed)
    /\ hwPc \in {"dma", "push"} => Len(dataQueue) < DDR_Q_SIZE

\* The inductive invariant behind QueuedIntact, DmaTargetFree and StoppedIsClean.
RingInv == TypeOK /\ NullLast /\ RingShape /\ WriterShape /\ QueuedIntact

\* HWThread never transfers into a buffer that waits in the queue.
DmaTargetFree ==
    hwPc \in {"dma", "push"} => \A i \in 1 .. Len(dataQueue) : dataQueue[i] # queueIndex

\* "Ensure we don't overwrite the DDR Buffer.": nor into the buffer that the writer
\* has taken and is copying to the files.
WriterBufferStable == hwPc = "dma" /\ Copying => nextData # queueIndex

-----------------------------------------------------------------------------
(* What is lost on the way in, and whether it is counted.                  *)

Gaps == {i \in 2 .. Len(pushed) : pushed[i] # pushed[i - 1] + 1}

\* Unless a block came while HWThread waited for room in a full queue, the recording
\* holds only whole blocks, in the order they were sampled, and every gap in it is
\* counted in m_numErrors but for the one pass that firstInterrupt forgives.
LossesCounted ==
    ~overrun =>
        /\ \A i \in DOMAIN pushed : pushed[i] # Mixed
        /\ \A i \in 2 .. Len(pushed) : pushed[i] > pushed[i - 1]
        /\ Cardinality(Gaps) <= numErrors + (IF firstInterrupt THEN 0 ELSE 1)

\* "Unexpected except for the first time": both interrupts at once are harmless only
\* before the first block is recorded, so every gap is counted.
EveryGapCounted == ~overrun => Cardinality(Gaps) <= numErrors

-----------------------------------------------------------------------------
(* Every block pushed, and where it goes.                                  *)

Blocks(c) == IF files[c] = <<>> THEN 0
             ELSE (Len(files[c]) - 1) * MaxFileBlocks + Len(LastFile(c))

Held(c) == IF wPc = "popped" \/ (wPc = "write" /\ chan <= c) THEN 1 ELSE 0

\* Every block queued is in the queue, in the writer's hands, in the files of each
\* channel, or was dropped by a pause or by Stop: none is written twice or forgotten.
BlocksConserved ==
    \A c \in Recorded : Len(pushed) = DataLen + Held(c) + Blocks(c) + dropped

\* Unless a block was sampled while HWThread waited for room, or transferred into the
\* buffer the writer was copying, each channel's files hold whole blocks, each one
\* later than the blocks before it, in the same file or in an earlier one.
RecordedInOrder ==
    ~overrun /\ ~spoiled =>
        \A c \in Recorded : \A i, k \in DOMAIN files[c] :
            \A j \in DOMAIN files[c][i], l \in DOMAIN files[c][k] :
                /\ files[c][i][j] # Mixed
                /\ i < k \/ (i = k /\ j < l) => files[c][i][j] < files[c][k][l]

\* The channels are written one after the other from the same buffer. Unless a transfer
\* hit that buffer, the same place of two channels' files holds the same block.
ChannelsAlike ==
    ~spoiled =>
        \A c, d \in Recorded : \A i \in DOMAIN files[c] \cap DOMAIN files[d] :
            \A j \in DOMAIN files[c][i] \cap DOMAIN files[d][i] : files[c][i][j] = files[d][i][j]

-----------------------------------------------------------------------------
(* The whole as a recorder.                                                *)

\* The blocks waiting, the one being copied, the channels that have still to get it, and
\* the files of the recorded channels.
Backlog == [i \in 1 .. DataLen |-> ddr[dataQueue[i]]]
Copied == IF Copying THEN ddr[nextData] ELSE NULL
Owed == {c \in Recorded : Held(c) = 1}
Recording == [c \in Recorded |-> files[c]]

Rec == INSTANCE Recorder WITH
    Capacity <- DDR_Q_SIZE, Channels <- Recorded, Samples <- 0 .. MaxBlocks, None <- NULL,
    backlog <- Backlog, block <- Copied, owed <- Owed, recording <- Recording,
    stopping <- stopSignal

\* HWThread, WriterThread and Stop together take each block once and in order, give it to
\* every channel or to none, break a file only when it is full, and lose a block they have
\* queued only in a pause, to Stop's pop_front, or to a transfer into the buffer being
\* copied while the queue is one short of full.
ImplementsRecorder == Rec!SafeSpec

-----------------------------------------------------------------------------
(* Stopping.                                                               *)

\* When Stop returns both threads have ended, and nothing is left in the queue.
StoppedIsClean ==
    mainPc = "stopped" => /\ hwPc = "exited" /\ wPc = "exited"
                          /\ rtAllowed => dataQueue = <<>>

HWCanStep == /\ hwPc \notin {"unstarted", "exited"}
             /\ hwPc \in {"fullWait", "push"} => Len(dataQueue) < DDR_Q_SIZE
WriterCanStep == /\ wPc \notin {"unstarted", "exited"}
                 /\ wPc = "pop" => dataQueue # <<>>

\* While Stop waits for HWThread, for room for its null, or for the writer, it has what it
\* waits for or a thread it waits for can go on: the three never wait for each other.
StopNeverStuck ==
    /\ mainPc = "joinHW" => hwPc = "exited" \/ HWCanStep \/ WriterCanStep
    /\ mainPc = "pushNull" => Len(dataQueue) < DDR_Q_SIZE \/ WriterCanStep
    /\ mainPc = "joinWriter" => wPc = "exited" \/ WriterCanStep

\* Stop returns, unless it has found 300 buffers queued and the writer takes them all
\* before Stop's own pop_front.
StopReturns ==
    mainPc = "drain" ~> \/ mainPc = "stopped"
                        \/ mainPc = "drainPop" /\ dataQueue = <<>>

\* "This could fail if the writer thread is not pulling data": with a writer that
\* pulls, Stop returns.
StopCompletes == mainPc = "drain" /\ rtAllowed ~> mainPc = "stopped"
=============================================================================
