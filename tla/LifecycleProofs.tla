-------------------------- MODULE LifecycleProofs --------------------------
(***************************************************************************)
(* Theorems about Lifecycle, for any numbers of errors, records, uploads,  *)
(* words, registers and channels.                                          *)
(***************************************************************************)
EXTENDS Lifecycle, HardwareInitProofs

\* main's control points before the log is opened, once the pool is gone, and in Stop.
Starting == {"init", "mqttStart", "subscribe", "openLog"}
PoolGone == {"endHardware", "endMqtt"}
Stopping == {"stop", "drainPop", "join"}
Initialized == (Looping \cup Starting \cup Stopping \cup {"startHW", "firstAgc"}) \ {"init"}

\* What main's control point says of the AGC log, and what of it has been asked for.
LogShape ==
    /\ bytesWrittenAGC <= agcLog
    /\ \A n \in asked : n <= bytesWrittenAGC
    /\ mainPc \in Starting => bytesWrittenAGC = 0 /\ agcLog = stale
    /\ mainPc \in (Looping \cup {"startHW", "firstAgc"}) \ {"count"} =>
           agcLog = stale + bytesWrittenAGC
    /\ mainPc = "count" => agcLog = stale + bytesWrittenAGC + 1

\* What it says of the members, and of those who use them.
MemberShape ==
    /\ hwThreads = "running" => mainPc \in Looping \cup Stopping \cup {"firstAgc"}
    /\ mainPc \notin {"endMqtt", "exited"} => "hwMgr" \in members
    /\ mainPc \in PoolGone \/ "hwMgr" \notin members =>
           uploads = 0 /\ "httpClient" \notin members

\* What it says of the hardware's initialisation, mappings and AGC data.
HardwareShape ==
    /\ mainPc \in Initialized => initPc = "initialized"
    /\ mainPc \notin {"endMqtt", "exited"} => held \subseteq mapped
    /\ WellFormed /\ mainPc = "count" => \A c \in 0 .. NumAgc - 1 : agcData[c] = c

\* What it says of the errors: about to publish or to latch, Update has found a new one.
TellShape ==
    /\ mainPc = "publish" => numErrors > numLastErrors
    /\ mainPc = "latch" => reported > numLastErrors \/ ~link

IInv == TypeOK /\ LogShape /\ MemberShape /\ TellShape /\ BoardInv /\ HardwareShape

\* The program starts with the invariant: no main step taken, nothing asked for or uploaded.
LEMMA InvInit == Init => IInv
<1> SUFFICES ASSUME Init PROVE IInv
  OBVIOUS
<1> USE LifecycleAssumption DEF Init, Looping, Starting, Stopping, PoolGone, Initialized
<1>0. BoardInv /\ BoardTypeOK /\ held \subseteq mapped
  BY BoardInvInit DEF BoardInv
<1>1. TypeOK
  <2>1. numErrors \in 0 .. MaxErrors /\ numLastErrors \in 0 .. numErrors
        /\ reported \in 0 .. numErrors /\ uploads \in 0 .. MaxUploads
        /\ agcLog \in Nat /\ stale \in Nat /\ bytesWrittenAGC \in Nat /\ asked \subseteq Nat
    OBVIOUS
  <2>2. connected \in BOOLEAN /\ link \in BOOLEAN /\ subscribed \in BOOLEAN
        /\ stopCond \in BOOLEAN /\ closing \in BOOLEAN
    BY Zenon
  <2> QED
    BY <1>0, <2>1, <2>2 DEF TypeOK
<1>2. LogShape
  BY DEF LogShape
<1>3. MemberShape
  BY DEF MemberShape
<1>4. HardwareShape
  BY <1>0 DEF HardwareShape
<1>5. TellShape
  BY DEF TellShape
<1> QED
  BY <1>0, <1>1, <1>2, <1>3, <1>4, <1>5 DEF IInv

(***************************************************************************)
(* The invariant is inductive. LoseLink, Halt and Alert touch none of it;  *)
(* the log's part turns on WriteRecord and CountRecord, the members' part  *)
(* on EndPool, after which AddUpload finds no HTTPClient, the hardware's   *)
(* on InitStep, Initialize and EndHardware.                                *)
(***************************************************************************)
LEMMA InvStep == IInv /\ [Next]_vars => IInv'
<1> SUFFICES ASSUME IInv, [Next]_vars PROVE IInv'
  OBVIOUS
<1>a. UNCHANGED board => BoardInv' /\ UNCHANGED <<initPc, mapped, held, agcData>>
                         /\ WellFormed' = WellFormed
  BY BoardStutter DEF IInv, board, maps, agcVars, WellFormed
<1>b. BoardInv' => BoardTypeOK'
  BY DEF BoardInv
<1> USE LifecycleAssumption, <1>b
    DEF IInv, TypeOK, LogShape, MemberShape, TellShape, HardwareShape, Looping, Starting,
        Stopping, PoolGone, Initialized, MainGoto, hardware, mqtt, agc, pool, callback, others
<1>1. CASE InitStep
  <2>1. BoardInv' /\ held' \subseteq mapped'
    BY <1>1, InitKeeps DEF InitStep
  <2>2. mainPc = "init" /\ UNCHANGED <<mainPc, others>>
    BY <1>1 DEF InitStep
  <2> QED
    BY <2>1, <2>2
<1>2. CASE AgcStep
  <2>1. initPc = "initialized" /\ UNCHANGED <<mainPc, others, maps>>
        /\ mainPc \in {"firstAgc", "readAgc"} /\ GetAGCData
    BY <1>2 DEF AgcStep
  <2>2. BoardInv'
    BY <2>1, AgcKeeps
  <2> QED
    BY <2>1, <2>2 DEF maps
<1>3. CASE FirstAgc
  <2>1. initPc = "initialized" /\ AgcReturn /\ UNCHANGED <<others, maps>>
        /\ mainPc = "firstAgc" /\ mainPc' = "loop"
    BY <1>3 DEF FirstAgc
  <2>2. BoardInv'
    BY <2>1, AgcKeeps
  <2> QED
    BY <2>1, <2>2 DEF maps
<1>4. CASE WriteRecord
  <2>1. initPc = "initialized" /\ AgcReturn /\ UNCHANGED maps
    BY <1>4 DEF WriteRecord
  <2>2. BoardInv'
    BY <2>1, AgcKeeps
  <2>3. WellFormed' => \A c \in 0 .. NumAgc - 1 : agcData'[c] = c
    BY <2>1 DEF AgcReturn, AgcShape, BoardInv, WellFormed
  <2> QED
    BY <1>4, <2>1, <2>2, <2>3 DEF WriteRecord, maps
<1>5. CASE EndHardware
  <2>1. BoardInv'
    BY <1>5, ReleaseKeeps DEF EndHardware
  <2> QED
    BY <1>5, <2>1 DEF EndHardware
<1>6. CASE Spi
  <2>1. BoardInv'
    BY <1>6, DriverKeeps DEF Spi
  <2>2. UNCHANGED <<mainPc, others, maps, agcData>> /\ WellFormed' = WellFormed
    BY <1>6 DEF Spi, Driver, DriverWrite, DriverRead, agcVars, WellFormed
  <2> QED
    BY <2>1, <2>2 DEF maps
<1>7. CASE Initialize /\ UNCHANGED board
  BY <1>a, <1>7 DEF Initialize
<1>8. CASE StartMqtt /\ UNCHANGED board
  <2>1. client' \in {"none", "created", "destroyed"}
    BY <1>8, Zenon DEF StartMqtt
  <2>2. connected' \in BOOLEAN /\ link' \in BOOLEAN /\ subscribed' \in BOOLEAN
    BY <1>8, Zenon DEF StartMqtt
  <2>3. mainPc = "mqttStart" /\ mainPc' = "subscribe"
        /\ UNCHANGED <<members, hwThreads, numErrors, numLastErrors, stopCond, agcLog,
                       stale, bytesWrittenAGC, cbPc, asked, uploads, closing, reported>>
    BY <1>8 DEF StartMqtt
  <2> QED
    BY <1>a, <1>8, <2>1, <2>2, <2>3
<1>9. CASE Subscribe /\ UNCHANGED board
  <2>1. subscribed' \in BOOLEAN
    BY <1>9, Zenon DEF Subscribe
  <2>2. mainPc = "subscribe" /\ mainPc' = "openLog"
        /\ UNCHANGED <<members, hwThreads, numErrors, numLastErrors, client, connected, link,
                       stopCond, agcLog, stale, bytesWrittenAGC, cbPc, asked, uploads,
                       closing, reported>>
    BY <1>9 DEF Subscribe
  <2> QED
    BY <1>a, <1>9, <2>1, <2>2
<1>10. CASE OpenLog /\ UNCHANGED board
  BY <1>a, <1>10 DEF OpenLog
<1>11. CASE StartHW /\ UNCHANGED board
  BY <1>a, <1>11 DEF StartHW
<1>12. CASE Loop /\ UNCHANGED board
  BY <1>a, <1>12 DEF Loop
<1>13. CASE CheckErrors /\ UNCHANGED board
  BY <1>a, <1>13 DEF CheckErrors
<1>14. CASE PublishError /\ UNCHANGED board
  BY <1>a, <1>14 DEF PublishError
<1>15. CASE LatchErrors /\ UNCHANGED board
  BY <1>a, <1>15 DEF LatchErrors
<1>16. CASE NoRecord /\ UNCHANGED board
  BY <1>a, <1>16 DEF NoRecord
<1>17. CASE OpenRecord /\ UNCHANGED board
  BY <1>a, <1>17 DEF OpenRecord
<1>18. CASE CountRecord /\ UNCHANGED board
  BY <1>a, <1>18 DEF CountRecord
<1>19. CASE Stop /\ UNCHANGED board
  BY <1>a, <1>19 DEF Stop
<1>20. CASE ClosePool /\ UNCHANGED board
  BY <1>a, <1>20 DEF ClosePool
<1>21. CASE EndPool /\ UNCHANGED board
  BY <1>a, <1>21 DEF EndPool
<1>22. CASE EndMqtt /\ UNCHANGED board
  BY <1>a, <1>22 DEF EndMqtt
<1>23. CASE Halt /\ UNCHANGED board
  BY <1>a, <1>23 DEF Halt
<1>24. CASE Alert /\ UNCHANGED board
  BY <1>a, <1>24 DEF Alert
<1>25. CASE UploadIF /\ UNCHANGED board
  BY <1>a, <1>25 DEF UploadIF, AddUpload
<1>26. CASE UploadAGC /\ UNCHANGED board
  BY <1>a, <1>26 DEF UploadAGC, AddUpload
<1>27. CASE CountError /\ UNCHANGED board
  BY <1>a, <1>27 DEF CountError
<1>28. CASE FinishUpload /\ UNCHANGED board
  BY <1>a, <1>28 DEF FinishUpload
<1>29. CASE LoseLink /\ UNCHANGED board
  <2>1. link' \in BOOLEAN /\ subscribed' \in BOOLEAN
    BY <1>29, Zenon DEF LoseLink
  <2>2. UNCHANGED <<mainPc, members, hwThreads, numErrors, numLastErrors, client, connected,
                    stopCond, agcLog, stale, bytesWrittenAGC, cbPc, asked, uploads, closing,
                    reported>>
    BY <1>29 DEF LoseLink
  <2>3. ~link'
    BY <1>29 DEF LoseLink
  <2>4. LogShape' /\ MemberShape' /\ HardwareShape' /\ BoardInv'
    BY <1>a, <1>29, <2>2
  <2>5. TellShape'
    BY <2>2, <2>3
  <2> QED
    BY <2>1, <2>2, <2>4, <2>5
<1>30. CASE Join /\ UNCHANGED board
  BY <1>a, <1>30 DEF Join
<1>31. CASE LastBlock /\ UNCHANGED board
  BY <1>a, <1>31 DEF LastBlock
<1>32. CASE UNCHANGED vars
  BY <1>a, <1>32 DEF vars
<1> QED
  BY <1>1, <1>2, <1>3, <1>4, <1>5, <1>6, <1>7, <1>8, <1>9, <1>10, <1>11, <1>12, <1>13,
     <1>14, <1>15, <1>16, <1>17, <1>18, <1>19, <1>20, <1>21, <1>22, <1>23, <1>24,
     <1>25, <1>26, <1>27, <1>28, <1>29, <1>30, <1>31, <1>32
     DEF Next, Main

(***************************************************************************)
(* The inductive invariant holds in every behaviour of the program.        *)
(***************************************************************************)
THEOREM LifecycleInv == Spec => []IInv
<1>1. Init => IInv
  BY InvInit
<1>2. IInv /\ [Next]_vars => IInv'
  BY InvStep
<1> QED
  BY <1>1, <1>2, PTL DEF Spec, SafeSpec

(***************************************************************************)
(* TypeOK: numLastErrors and what was reported never run ahead of          *)
(* numErrors, among the types.                                             *)
(***************************************************************************)
THEOREM LifecycleTypes == Spec => []TypeOK
<1>1. IInv => TypeOK
  BY DEF IInv
<1> QED
  BY <1>1, LifecycleInv, PTL

(***************************************************************************)
(* AgcOnFile: uploads of the AGC log ask for records that are on file,     *)
(* and between updates the file holds what is counted behind what Start    *)
(* has left in it.                                                         *)
(***************************************************************************)
THEOREM AgcUploadsOnFile == Spec => []AgcOnFile
<1>1. IInv => AgcOnFile
  BY DEF IInv, TypeOK, LogShape, AgcOnFile
<1> QED
  BY <1>1, LifecycleInv, PTL

(***************************************************************************)
(* HardwareOutlivesUsers: while an upload or one of its own threads runs,  *)
(* HardwareManager is not destroyed, whatever Start's outcome was.         *)
(***************************************************************************)
THEOREM HardwareDestroyedLast == Spec => []HardwareOutlivesUsers
<1>1. IInv => HardwareOutlivesUsers
  BY DEF IInv, TypeOK, MemberShape, HardwareOutlivesUsers, PoolGone, Looping, Stopping
<1> QED
  BY <1>1, LifecycleInv, PTL

(***************************************************************************)
(* MappedWhileUsed: what the threads and GetAGCData use is mapped, for     *)
(* every way InitializeHardware can fail.                                  *)
(***************************************************************************)
THEOREM UsedIsMapped == Spec => []MappedWhileUsed
<1>1. IInv => MappedWhileUsed
  <2> SUFFICES ASSUME IInv PROVE MappedWhileUsed
    OBVIOUS
  <2>1. mainPc \in Looping \cup Stopping \cup {"firstAgc"} => Members \subseteq mapped
    BY DEF IInv, HardwareShape, Initialized, Looping, Starting, Stopping, BoardInv, MapsShape
  <2>2. SpiMembers \cup {"m_intrBase", "m_cdmaBase", "m_ddrBaseOff"} \subseteq Members
    <3>1. 1 \in DOMAIN MapOrder /\ 2 \in DOMAIN MapOrder /\ 3 \in DOMAIN MapOrder
          /\ 4 \in DOMAIN MapOrder /\ 5 \in DOMAIN MapOrder /\ 6 \in DOMAIN MapOrder
      BY DEF MapOrder
    <3>2. MapOrder[1] = "m_intrBase" /\ MapOrder[2] = "m_cdmaBase"
          /\ MapOrder[3] = "m_spiWrite" /\ MapOrder[4] = "m_spiBase"
          /\ MapOrder[5] = "m_spiRead" /\ MapOrder[6] = "m_ddrBaseOff"
      BY DEF MapOrder
    <3> QED
      BY <3>1, <3>2 DEF Members, SpiMembers
  <2> QED
    BY <2>1, <2>2 DEF IInv, MemberShape, Looping, Stopping, MappedWhileUsed
<1> QED
  BY <1>1, LifecycleInv, PTL

(***************************************************************************)
(* Configured: a well-formed file of any size is on the chip from the end  *)
(* of the initialisation to the end of the program.                        *)
(***************************************************************************)
THEOREM ChipKeepsConfiguration == Spec => []Configured
<1>1. IInv => Configured
  BY DEF IInv, BoardInv, ChipShape, ConfigOnChip, Begun, Configured
<1> QED
  BY <1>1, LifecycleInv, PTL

(***************************************************************************)
(* AgcOfItsChannel: no channel's values are those of another, however many *)
(* channels there are and however long the driver takes.                   *)
(***************************************************************************)
THEOREM AgcNeverMixed == Spec => []AgcOfItsChannel
<1>1. IInv => AgcOfItsChannel
  BY DEF IInv, BoardInv, AgcShape, HardwareShape, AgcOfItsChannel
<1> QED
  BY <1>1, LifecycleInv, PTL

(***************************************************************************)
(* LatchedWhenTold: Update does not latch an error, to be silent about it  *)
(* for good, unless it has just sent a message about one that was new.     *)
(***************************************************************************)
THEOREM ErrorsLatchedWhenTold == Spec => LatchedWhenTold
<1>1. IInv /\ [Next]_vars
          => [numLastErrors' # numLastErrors => reported > numLastErrors \/ ~link]_vars
  <2> SUFFICES ASSUME IInv, Next, numLastErrors' # numLastErrors
               PROVE  reported > numLastErrors \/ ~link
    OBVIOUS
  <2>1. LatchErrors
    BY DEF Next, Main, others, hardware, mqtt, agc, callback, pool, InitStep, AgcStep, FirstAgc,
           WriteRecord, EndHardware, Initialize, StartMqtt, Subscribe, OpenLog, StartHW, Loop,
           CheckErrors, PublishError, NoRecord, OpenRecord, CountRecord, Stop, Join, ClosePool,
           EndPool, EndMqtt, Spi, Halt, Alert, UploadIF, UploadAGC, LastBlock, CountError,
           FinishUpload, LoseLink
  <2> QED
    BY <2>1 DEF LatchErrors, MainGoto, IInv, TellShape
<1> QED
  BY <1>1, LifecycleInv, PTL DEF Spec, SafeSpec, LatchedWhenTold
=============================================================================
