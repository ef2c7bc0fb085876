----------------------------- MODULE Lifecycle -----------------------------
(***************************************************************************)
(* main, LoggerController's Start, Update and Stop, MQTTController, and    *)
(* the destruction of LoggerController's members, against the callback on  *)
(* the MQTT thread, composed with what main calls of HardwareManager       *)
(* (HardwareInit, NT1065). HardwareManager's threads and the pool have     *)
(* modules of their own: here they are threads that run and have ended,    *)
(* and uploads that are under way. The broker and paho are not in this     *)
(* repository: a call may fail, the connection may be lost, and messages   *)
(* come one at a time while the client is connected and subscribed.        *)
(***************************************************************************)
EXTENDS HardwareInit

CONSTANTS MaxErrors,    \* bound: how many errors HWThread counts
          MaxRecords,   \* bound: how many AGC records are logged
          MaxUploads    \* bound: how many uploads are asked for

ASSUME LifecycleAssumption ==
    MaxErrors \in Nat /\ MaxRecords \in Nat /\ MaxUploads \in Nat

VARIABLES mainPc,
          members,          \* the members of LoggerController that are alive
          hwThreads,        \* of HardwareManager: "none", "running", "ended"
          numErrors,        \* its m_numErrors
          numLastErrors,    \* Update's static
          client,           \* m_paho_client: "none", "created", "destroyed"
          connected,        \* m_connected
          link,             \* whether the broker still is connected
          subscribed,
          stopCond,         \* m_stopCond
          agcLog,           \* records in the AGC log file
          stale,            \* history: those of an earlier run that Start left in it
          bytesWrittenAGC,  \* m_bytesWrittenAGC, in records
          cbPc,             \* the callback
          asked,            \* AGC uploads, by the number of records asked for
          uploads,          \* uploads of the pool that are not finished
          closing,          \* the pool's nulls are queued: no later task is run
          reported          \* history: how many errors the last message was about

hardware == <<hwThreads, numErrors>>
mqtt == <<client, connected, link, subscribed>>
agc == <<agcLog, stale, bytesWrittenAGC>>
pool == <<uploads, closing>>
callback == <<cbPc, asked>>
others == <<members, hardware, numLastErrors, mqtt, stopCond, agc, callback, pool, reported>>
vars == <<mainPc, others, board>>

Init ==
    /\ mainPc = "init"
    /\ members = {"mqttCtlr", "hwMgr", "httpClient"}
    /\ hwThreads = "none" /\ numErrors = 0 /\ numLastErrors = 0
    /\ client = "none" /\ connected = FALSE /\ link = FALSE /\ subscribed = FALSE
    /\ stopCond = FALSE
    /\ agcLog \in 0 .. 1 /\ stale = agcLog /\ bytesWrittenAGC = 0
    /\ cbPc = "idle" /\ asked = {}
    /\ uploads = 0 /\ closing = FALSE
    /\ reported = 0
    /\ BoardInit

MainGoto(from, to) == mainPc = from /\ mainPc' = to

-----------------------------------------------------------------------------
(* LoggerController::Start                                                 *)

InitStep ==
    /\ mainPc = "init"
    /\ InitializeHardware
    /\ UNCHANGED <<mainPc, others>>

\* Of InitializeHardware's failure alone does main take notice, unless the process is gone.
Initialize ==
    /\ \/ MainGoto("init", "mqttStart") /\ initPc = "initialized"
       \/ MainGoto("init", "endPool") /\ initPc = "failed"
       \/ MainGoto("init", "exited") /\ initPc \in {"exit", "crashed"}
    /\ UNCHANGED others

\* MQTTController::Start: the client is created and connects, or one of the two fails.
StartMqtt ==
    /\ MainGoto("mqttStart", "subscribe")
    /\ \/ UNCHANGED mqtt
       \/ client' = "created" /\ UNCHANGED <<connected, link, subscribed>>
       \/ client' = "created" /\ connected' = TRUE /\ link' = TRUE /\ UNCHANGED subscribed
    /\ UNCHANGED <<members, hardware, numLastErrors, stopCond, agc, callback, pool, reported>>

\* Subscribe to "alert", then publish that the node is online.
Subscribe ==
    /\ MainGoto("subscribe", "openLog")
    /\ \/ link /\ subscribed' = TRUE
       \/ UNCHANGED subscribed
    /\ UNCHANGED <<members, hardware, numLastErrors, client, connected, link, stopCond, agc,
                   callback, pool, reported>>

\* "Open AGC log file and overwrite what is there.": or, unnoticed, it cannot be opened.
OpenLog ==
    /\ MainGoto("openLog", "startHW")
    /\ \/ agcLog' = 0 /\ stale' = 0
       \/ UNCHANGED <<agcLog, stale>>
    /\ UNCHANGED <<members, hardware, numLastErrors, mqtt, stopCond, bytesWrittenAGC,
                   callback, pool, reported>>

StartHW ==
    /\ MainGoto("startHW", "firstAgc")
    /\ hwThreads' = "running"
    /\ UNCHANGED <<members, numErrors, numLastErrors, mqtt, stopCond, agc, callback, pool,
                   reported>>

\* The AGC values are read once by Start, and for every record by Update.
AgcStep ==
    /\ mainPc \in {"firstAgc", "readAgc"}
    /\ GetAGCData
    /\ UNCHANGED <<mainPc, others, maps>>

FirstAgc ==
    /\ MainGoto("firstAgc", "loop")
    /\ AgcReturn
    /\ UNCHANGED <<others, maps>>

-----------------------------------------------------------------------------
(* main's loop, and LoggerController::Update                               *)

\* Mutant: only the runtime ends the loop.
LoopUnstopped ==
    /\ MainGoto("loop", "errors") \/ MainGoto("loop", "stop")
    /\ UNCHANGED others

\* The loop ends when the runtime is over, which may be at any time, or after "halt".
Loop ==
    /\ \/ MainGoto("loop", "errors") /\ ~stopCond
       \/ MainGoto("loop", "stop")
    /\ UNCHANGED others

\* Mutant: one new error is not enough.
CheckErrorsLate ==
    /\ MainGoto("errors", IF numErrors > numLastErrors + 1 THEN "publish" ELSE "agc")
    /\ UNCHANGED others

\* Mutant: no new error is enough.
CheckErrorsAlways ==
    /\ MainGoto("errors", IF numErrors >= numLastErrors THEN "publish" ELSE "agc")
    /\ UNCHANGED others

\* Update begins with "Check for errors."
CheckErrors ==
    /\ MainGoto("errors", IF numErrors > numLastErrors THEN "publish" ELSE "agc")
    /\ UNCHANGED others

\* The message reaches the broker if the connection lives. Nobody looks at the result.
PublishError ==
    /\ MainGoto("publish", "latch")
    /\ reported' = IF link THEN numErrors ELSE reported
    /\ UNCHANGED <<members, hardware, numLastErrors, mqtt, stopCond, agc, callback, pool>>

\* Mutant: the errors are latched one too many.
LatchErrorsAhead ==
    /\ MainGoto("latch", "agc")
    /\ numLastErrors' = numErrors + 1
    /\ UNCHANGED <<members, hardware, mqtt, stopCond, agc, callback, pool, reported>>

\* GetNumErrors is called again.
LatchErrors ==
    /\ MainGoto("latch", "agc")
    /\ numLastErrors' = numErrors
    /\ UNCHANGED <<members, hardware, mqtt, stopCond, agc, callback, pool, reported>>

\* It is not yet time for a record, or the log cannot be opened.
NoRecord ==
    /\ MainGoto("agc", "loop")
    /\ UNCHANGED others

\* The log is opened.
OpenRecord ==
    /\ MainGoto("agc", "readAgc")
    /\ agcLog < MaxRecords
    /\ UNCHANGED others

\* Mutant: the record is not flushed before it is counted.
WriteRecordUnflushed ==
    /\ MainGoto("readAgc", "count")
    /\ AgcReturn
    /\ UNCHANGED <<others, maps>>

\* A record of the AGC data is written, and the log closed.
WriteRecord ==
    /\ MainGoto("readAgc", "count")
    /\ AgcReturn
    /\ agcLog' = agcLog + 1
    /\ UNCHANGED <<members, hardware, numLastErrors, mqtt, stopCond, stale,
                   bytesWrittenAGC, callback, pool, reported, maps>>

\* After the alerts about the channels, which are published or not.
CountRecord ==
    /\ MainGoto("count", "loop")
    /\ bytesWrittenAGC' = bytesWrittenAGC + 1
    /\ UNCHANGED <<members, hardware, numLastErrors, mqtt, stopCond, agcLog, stale, callback,
                   pool, reported>>

-----------------------------------------------------------------------------
(* LoggerController::Stop and the destructors, members in reverse order    *)

(***************************************************************************)
(* m_hwMgr.Stop drains the queue and joins the threads. By StopReturns of  *)
(* HardwareManager it returns, unless it has seen 300 buffers queued and   *)
(* WriterThread takes them all before its own pop_front: the next pop      *)
(* finds the queue empty, and HWThread has been told to end.               *)
(***************************************************************************)
Stop ==
    /\ MainGoto("stop", "join") \/ MainGoto("stop", "drainPop")
    /\ UNCHANGED others

\* A block that HWThread had under way may still come, and wake Stop and not WriterThread.
LastBlock ==
    /\ MainGoto("drainPop", "join")
    /\ UNCHANGED others

Join ==
    /\ MainGoto("join", "endPool")
    /\ hwThreads' = "ended"
    /\ UNCHANGED <<members, numErrors, numLastErrors, mqtt, stopCond, agc, callback, pool,
                   reported>>

\* ~ThreadPool begins: its nulls are queued.
ClosePool ==
    /\ mainPc = "endPool" /\ ~closing
    /\ closing' = TRUE
    /\ UNCHANGED <<mainPc, members, hardware, numLastErrors, mqtt, stopCond, agc, callback,
                   uploads, reported>>

\* Mutant: ~ThreadPool does not join.
EndPoolUnjoined ==
    /\ MainGoto("endPool", "endHardware")
    /\ closing
    /\ members' = members \ {"httpClient"}
    /\ UNCHANGED <<hardware, numLastErrors, mqtt, stopCond, agc, callback, pool, reported>>

\* ... and its threads have been joined.
EndPool ==
    /\ MainGoto("endPool", "endHardware")
    /\ closing /\ uploads = 0
    /\ members' = members \ {"httpClient"}
    /\ UNCHANGED <<hardware, numLastErrors, mqtt, stopCond, agc, callback, pool, reported>>

\* ~HardwareManager.
EndHardware ==
    /\ MainGoto("endHardware", "endMqtt")
    /\ ReleaseMaps
    /\ members' = members \ {"hwMgr"}
    /\ UNCHANGED <<hardware, numLastErrors, mqtt, stopCond, agc, callback, pool, reported>>

\* ~MQTTController: disconnect, if Connect once succeeded, and destroy the client.
EndMqtt ==
    /\ MainGoto("endMqtt", "exited")
    /\ members' = members \ {"mqttCtlr"}
    /\ client' = "destroyed"
    /\ link' = (link /\ ~connected) /\ subscribed' = FALSE
    /\ UNCHANGED <<hardware, numLastErrors, connected, stopCond, agc, callback, pool,
                   reported>>

\* Start, Update, Stop and the destructors: first what is done with the hardware.
Main ==
    \/ InitStep \/ AgcStep \/ FirstAgc \/ WriteRecord \/ EndHardware
    \/ /\ \/ Initialize \/ StartMqtt \/ Subscribe \/ OpenLog \/ StartHW
          \/ Loop \/ CheckErrors \/ PublishError \/ LatchErrors
          \/ NoRecord \/ OpenRecord \/ CountRecord
          \/ Stop \/ Join \/ ClosePool \/ EndPool \/ EndMqtt
       /\ UNCHANGED board

-----------------------------------------------------------------------------
(* The callback, on the MQTT thread                                        *)

Delivered == cbPc = "idle" /\ client = "created" /\ link /\ subscribed

Halt ==
    /\ Delivered
    /\ stopCond' = TRUE
    /\ UNCHANGED <<mainPc, members, hardware, numLastErrors, mqtt, agc, callback, pool,
                   reported>>

\* "event" or "update": the callback waits for data.
Alert ==
    /\ Delivered
    /\ cbPc' = "wait"
    /\ UNCHANGED <<mainPc, members, hardware, numLastErrors, mqtt, stopCond, agc, asked,
                   pool, reported>>

\* Uploads of a destroyed HTTPClient are not modelled.
AddUpload ==
    /\ "httpClient" \in members
    /\ uploads < MaxUploads
    /\ uploads' = IF closing THEN uploads ELSE uploads + 1

\* The wait is over, or never is. Scenario 2 of an event has two files.
UploadIF ==
    /\ \/ cbPc = "wait" /\ cbPc' \in {"second", "agc"}
       \/ cbPc = "second" /\ cbPc' = "agc"
    /\ AddUpload
    /\ UNCHANGED <<mainPc, members, hardware, numLastErrors, mqtt, stopCond, agc, asked,
                   closing, reported>>

\* Of the AGC log as much is asked for as is counted.
UploadAGC ==
    /\ cbPc = "agc" /\ cbPc' = "idle"
    /\ AddUpload
    /\ asked' = asked \cup {bytesWrittenAGC}
    /\ UNCHANGED <<mainPc, members, hardware, numLastErrors, mqtt, stopCond, agc, closing,
                   reported>>

-----------------------------------------------------------------------------
(* The other threads, and the broker                                       *)

CountError ==
    /\ hwThreads = "running" /\ numErrors < MaxErrors
    /\ numErrors' = numErrors + 1
    /\ UNCHANGED <<mainPc, members, hwThreads, numLastErrors, mqtt, stopCond, agc, callback,
                   pool, reported>>

FinishUpload ==
    /\ uploads > 0
    /\ uploads' = uploads - 1
    /\ UNCHANGED <<mainPc, members, hardware, numLastErrors, mqtt, stopCond, agc, callback,
                   closing, reported>>

LoseLink ==
    /\ link
    /\ link' = FALSE /\ subscribed' = FALSE
    /\ UNCHANGED <<mainPc, members, hardware, numLastErrors, client, connected, stopCond,
                   agc, callback, pool, reported>>

Spi == Driver /\ UNCHANGED <<mainPc, others, maps>>

Next ==
    \/ Main \/ Spi
    \/ /\ \/ Halt \/ Alert \/ UploadIF \/ UploadAGC
          \/ LastBlock \/ CountError \/ FinishUpload \/ LoseLink
       /\ UNCHANGED board

(***************************************************************************)
(* main is scheduled, uploads end (UploadsFinish of UploadPool), and the   *)
(* SPI driver is not busy for ever. Nobody has to send a message, the      *)
(* runtime need not end, and no block has to come once Stop was called.    *)
(***************************************************************************)
Fairness ==
    WF_vars(Main) /\ WF_vars(Spi) /\ WF_vars(FinishUpload /\ UNCHANGED board)

SafeSpec == Init /\ [][Next]_vars
Spec == SafeSpec /\ Fairness

-----------------------------------------------------------------------------
(* What is checked                                                         *)

Looping == {"loop", "errors", "publish", "latch", "agc", "readAgc", "count"}

(***************************************************************************)
(* Type correctness; and what main has latched or told is never ahead of   *)
(* what HWThread has counted, or an error would go unnoticed for good.     *)
(***************************************************************************)
TypeOK ==
    /\ mainPc \in Looping \cup {"init", "mqttStart", "subscribe", "openLog", "startHW", "firstAgc",
                                "stop", "drainPop", "join", "endPool", "endHardware", "endMqtt", "exited"}
    /\ members \subseteq {"mqttCtlr", "hwMgr", "httpClient"}
    /\ hwThreads \in {"none", "running", "ended"}
    /\ numErrors \in 0 .. MaxErrors /\ numLastErrors \in 0 .. numErrors
    /\ reported \in 0 .. numErrors
    /\ client \in {"none", "created", "destroyed"}
    /\ connected \in BOOLEAN /\ link \in BOOLEAN /\ subscribed \in BOOLEAN
    /\ stopCond \in BOOLEAN /\ closing \in BOOLEAN
    /\ agcLog \in Nat /\ stale \in Nat /\ bytesWrittenAGC \in Nat
    /\ cbPc \in {"idle", "wait", "second", "agc"} /\ asked \subseteq Nat
    /\ uploads \in 0 .. MaxUploads
    /\ BoardTypeOK

(***************************************************************************)
(* The AGC log is uploaded from its beginning, for m_bytesWrittenAGC       *)
(* bytes, by the callback, while Update writes it and counts afterwards:   *)
(* an upload never asks for more than is on file, and whenever Update is   *)
(* not in between the file holds the records counted, after those of an    *)
(* earlier run only if Start could not open it.                            *)
(***************************************************************************)
AgcOnFile ==
    /\ \A n \in asked : n <= agcLog
    /\ mainPc \in Looping \ {"count"} => agcLog = stale + bytesWrittenAGC

(***************************************************************************)
(* The transfers' read_callback and HardwareManager's threads use the      *)
(* HardwareManager: it outlives them, whichever way main ends and whatever *)
(* the callback hands to the pool meanwhile.                               *)
(***************************************************************************)
HardwareOutlivesUsers ==
    uploads > 0 \/ hwThreads = "running" => "hwMgr" \in members

(***************************************************************************)
(* What main and HardwareManager's threads reach through the members was   *)
(* mapped by InitializeHardware, whichever of its calls failed, and is not *)
(* released before the last use.                                           *)
(***************************************************************************)
MappedWhileUsed ==
    /\ hwThreads = "running" => {"m_intrBase", "m_cdmaBase", "m_ddrBaseOff"} \subseteq mapped
    /\ mainPc \in {"firstAgc", "readAgc"} => SpiMembers \subseteq mapped

(***************************************************************************)
(* Each channel's AGC values, read back through a driver that is slow to   *)
(* write and to read, were measured on that channel and not on another.    *)
(***************************************************************************)
AgcOfItsChannel ==
    WellFormed /\ initPc = "initialized" =>
        /\ \A c \in 0 .. agcChan - 1 : agcData[c] = c
        /\ mainPc = "count" => \A c \in 0 .. NumAgc - 1 : agcData[c] = c

(***************************************************************************)
(* "Deallocate the mmaps.": ~HardwareManager leaves nothing mapped.        *)
(***************************************************************************)
MapsReleased == initPc = "initialized" /\ "hwMgr" \notin members => mapped = {}

(***************************************************************************)
(* Update reads the error counter for the test and again to latch it, and  *)
(* HWThread counts in between. What is latched is not told again: so it is *)
(* latched only with a message just sent about an error that was new, and  *)
(* all that this race can lose is that there were more.                    *)
(***************************************************************************)
LatchedWhenTold ==
    [][numLastErrors' # numLastErrors => reported > numLastErrors \/ ~link]_vars

(***************************************************************************)
(* An error not yet latched is published, unless the connection is lost or *)
(* the loop ends, wherever in the loop it was counted but for the one gap  *)
(* between Publish and the second read of the counter.                     *)
(***************************************************************************)
ErrorsReported ==
    \A n \in 1 .. MaxErrors :
        mainPc \in Looping \ {"latch"} /\ numErrors = n /\ numLastErrors < n
            ~> reported >= n \/ ~link \/ mainPc \notin Looping

(***************************************************************************)
(* "halt" ends the program, also when it comes during Start, with uploads  *)
(* under way or the connection lost: threads joined, members destroyed.    *)
(* But for the race of HardwareManager::Stop, which leaves main asleep in  *)
(* pop_front; there alone, and if HWThread's last block comes, not there.  *)
(***************************************************************************)
HaltStops == stopCond ~> mainPc = "exited" \/ [](mainPc = "drainPop")
=============================================================================
