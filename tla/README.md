# A verification project for the MZNT logger

The program records the output of a four-channel GNSS front end (NT1065) through an FPGA, on a
Zynq board under Linux. It keeps a rolling recording on disk, logs the front end's AGC values,
and uploads parts of the recording over HTTP when an MQTT message asks for them.

This directory holds TLA+ modules translated from `src/src/`, TLC configurations that check them
on small instances, and proofs that TLAPS checks for every value of the constants.
`PROJECT.json` maps every definition to the lines it stands for and lists runs, mutants,
findings, hazards and theorems.

## 1. Inventory

| Component | State it keeps | Operations | Talks to |
|---|---|---|---|
| `ThreadSafeQueue<T>` (`ThreadSafeQueue.cpp/.h`) | `m_tsQueue`, `m_maxSize`, a mutex, two condition variables | `push` (blocks when full), `pop_front` (blocks when empty), `size` | every other thread: it carries DMA buffers and upload tasks |
| `HardwareManager`, acquisition | `m_dataQueue`, the DDR region of `DDR_Q_SIZE` buffers, `m_stopSignal`, `m_numErrors`, `m_bytesWritten`, the files, `m_currIFFilename`, `m_fileHistory` | `HWThread` (interrupt, DMA, push), `WriterThread` (pop, write, break files), `Start`, `Stop`, `SetWrite` and the getters | FPGA and CDMA registers; the MQTT thread reads its members without a lock |
| `HardwareManager`, initialisation | the mapped regions, the pointers to them | `InitializeHardware`, `ConfigureNT1065`, `ParseNTConfig`, `ConfigureFPGASettings`, `EnableAXI_Interrupts`, destructor | `/dev/mem`, udmabuf, the SPI driver in the FPGA |
| `HardwareManager`, AGC | the SPI write memory it shares with the initialisation | `GetAGCData` | the SPI driver |
| `ThreadPool`, `PoolThread` (`ThreadPool.h`) | `m_taskQueue`, per thread `m_busy` | `AddTask`, `AllThreadsOccupied`, `Run`, destructor | runs `UploadTask`s |
| `HTTPClient`, `UploadTask` | window and progress of an upload | `upload`, `Run`, `read_callback` | libcurl, the files, `m_dataQueue.size()` |
| `LoggerController` | configuration, `m_stopCond`, the AGC log and its length, last AGC values | `Start`, `Update`, `Stop`, `MQTT_Callback` | owns all of the above |
| `MQTTController` | the paho client, `m_connected` | `Start`, `Connect`, `Subscribe`, `Publish`, destructor | broker |
| `main.cc` | none | options, the main loop | `LoggerController` |
| `SerialManager` | a file descriptor | open, read, write | nothing uses it |
| `scripts/`, `Debug/`, `Release/`, `lib/inc/` | | init scripts, generated makefiles, vendored headers | |

The threads: **main** (`Start`, the loop of `Update`, `Stop`, destructors), **HWThread** and
**WriterThread** at real-time priority, five **PoolThread**s, and paho's **MQTT thread**, which
runs `MQTT_Callback`. Between them are two instances of `ThreadSafeQueue` and a number of
members read and written without any lock.

What is hard in it, and what therefore the properties are about (`PROJECT.json` "hazards" has
each at its line):

- two condition variables, one signal per transfer, sent after the unlock (lost wakeups);
- a ring of DMA buffers whose guard against overwriting is the length of a queue;
- a polled two-buffer FPGA: blocks missed, transfers failed, and whether they are counted;
- file breaks made of many steps, seen half done by the MQTT thread;
- an initialisation of twenty calls that may each fail, with pointers released later;
- a slow SPI driver, whose write memory `GetAGCData` uses again after the configuration;
- busy waits on a counter that is reset under the waiter; unsigned arithmetic on file offsets;
- `Stop` while all threads run, with threads blocked on a full or an empty queue;
- the destruction of the pool, and of the members after it, while uploads are added.

## 2. Modules

| Module | Models | Composes |
|---|---|---|
| `BoundedQueue` | what a `ThreadSafeQueue` promises: an atomic bounded FIFO | |
| `ThreadSafeQueue` | the monitor, one action per pthread call | implements `BoundedQueue` (`Abstract`) |
| `ThreadSafeQueueProofs` | theorems about it | |
| `HardwareState` | members shared by `HardwareManager`'s threads; `m_dataQueue` as an atomic FIFO, which `QueueRefinement` justifies | |
| `HWThread` | `HardwareManager::HWThread`, and the FPGA as it assumes it | extends `HardwareState` |
| `WriterThread` | `HardwareManager::WriterThread`, `SetWrite` | extends `HardwareState` |
| `Recorder` | what the acquisition promises: blocks taken once, in order, for all channels or none, and what may be lost | |
| `HardwareManager` | `Start`, `Stop`, all threads together | `HWThread`, `WriterThread`; implements `Recorder` (`Rec`) |
| `HardwareManagerProofs` | theorems about the ring and about `Stop` | |
| `WriterThreadProofs` | lemmas: what the writer's steps preserve, whoever runs beside it | |
| `RecordingProofs` | theorems about the files, their order and the counted losses; the refinement of `Recorder` | `HardwareManagerProofs`, `WriterThreadProofs` |
| `UploadService` | what `HTTPClient` promises its callers | |
| `UploadPool` | `HTTPClient`, `UploadTask`, `ThreadPool` and their destruction | implements `UploadService` (`Service`) |
| `UploadPoolProofs` | theorems about it, the refinement among them | |
| `EventUpload` | the "event" and "update"/"eph" branches of `MQTT_Callback` | extends `WriterThread` |
| `EventUploadProofs` | theorems about it | `WriterThreadProofs` |
| `NT1065` | `ParseNTConfig`, the programming of the front end, `GetAGCData`, and the SPI driver and the chip as they are used | |
| `HardwareInit` | `InitializeHardware` with all it calls, every failure of a mapping call, what the destructor unmaps | extends `NT1065` |
| `HardwareInitProofs` | lemmas about both | |
| `Lifecycle` | `main`, `LoggerController::Start`, `Update` and `Stop`, `MQTTController`, the destruction of the members | extends `HardwareInit`; of the other modules it keeps that HardwareManager's threads run or have ended, and the number of unfinished uploads |
| `LifecycleProofs` | theorems about it | `HardwareInitProofs` |
| `MC*` | bounds for TLC | |

How state corresponds to code:

- A thread has a control point (`pc`, `hwPc`, `wPc`, `mainPc`, `mqttPc`, `mPc`, `initPc`, `spiPc`). One action is
  the code between two accesses to something another thread can see; local work is folded into
  it. Thus a file break is six actions (one per channel, then the flag, the history, the name, the
  counter), since the MQTT thread can look in between each two.
- A DMA buffer is its index in the region, what it holds is the number of the block sampled, and
  0 (`Mixed`) while a transfer is under way, after one that failed, or if the FPGA was filling it.
- Sizes are counted in blocks (`BUFFER_BYTESIZE`; `CHANNEL_BUF_SIZE` for one channel's file). All
  sizes in the program but `m_ephSize` and the AGC log's are multiples of these.
- The files are what was written to them: per channel a sequence of files, each a sequence of
  blocks. File names are numbers, 0 the base name.
- A mapped region is named for the pointer that is to hold it. `mapped` is what the system has
  mapped, `held` what HardwareManager's pointers know of: a pointer lost leaves a region mapped.
- A register of the NT1065 has a number for its byte; in the one that selects the channel to be
  monitored that is the channel, so that a value read back tells which channel it was measured on.
- In `Lifecycle` AGC records and errors are counts, and main's actions are its calls; `link` and
  `subscribed` belong to the broker. The order in which the members are destroyed, `httpClient`,
  `hwMgr`, `mqttCtlr`, is that of `LoggerController.h:41-43` reversed.
- `pushed`, `overrun`, `spoiled`, `dropped`, `accepted`, `start`, `torn`, `reported`, `asked`, `stale` are history variables: no action's
  guard reads them. `fed`, `seen` and `produced` belong to the environment and bound it.

## 3. Runs

| Run | Instance | Shows |
|---|---|---|
| `queue` | 2 producers, 2 consumers, 2 observers among them, 2 values, `MaxSize` 1, spurious wakeups | `MonitorInv`, `NoLostWakeup`, and `Abstract!Spec` with its fairness. Two sleepers of each kind are what a signal needs to wake the wrong one; 18,976 states |
| `hardware` | ring of 3, 5 blocks, 2 channels, files of 2 | the ring, loss counting, alignment of the files, conservation, order and likeness of the blocks on file, clean stop, nobody waiting for ever in `Stop`, and `Rec!SafeSpec`; 1,753,096 states. The ring wraps, the queue fills, each file breaks twice |
| `hardware_stop` | ring of 2, 3 blocks, one file for all channels, files of 1 | `StopReturns`, with fairness; the drain level equals the ring, so that the drain loop is entered |
| `pool` | 2 threads, queue of 4, 3 tasks | ownership of tasks, nulls, destruction, no waiting in a circle, liveness, and `Service!Spec` with its fairness. Three tasks and two nulls overfill the queue; 48,020 states |
| `event_upload` | 2 channels, files of 3, 2 blocks before and 2 after an event, 10 blocks | the windows uploaded and the end of the waits, in all three scenarios, around any file break, which the callback may see with one channel's file new and the other's old; 792,181 states |
| `lifecycle` | 2 errors, 2 AGC records, 2 unfinished uploads, 3 words, 3 registers, 2 channels, 4 configuration files | from power-on through any failure of the initialisation: what the threads and `GetAGCData` reach is mapped, the chip keeps its configuration, each channel's AGC values are its own, the AGC log on file covers every upload asked of it, no upload or thread outlives `HardwareManager`, errors are published while the broker is there and latched only with one that was, "halt" ends the program whenever it comes, but for the race in `HardwareManager::Stop` (`stop_hangs`), after which main sleeps in `pop_front` for ever; 359,346 states |

`Service` promises less than one might like: a task that comes to stand behind the last null is
accepted and never begun (`AddTask` does not look whether the pool is being destroyed), so the tasks
the refinement counts as accepted are those that are still to be run.

Six runs are expected to fail. Each checks what a comment of the source says of the program:

| Run | The comment | What the code does |
|---|---|---|
| `overwrite_ddr` | "Ensure we don't overwrite the DDR Buffer." (`HardwareManager.cpp:268`) | the guard looks at the queue only; the buffer the writer has popped and is copying is the next target when the queue holds all others |
| `first_interrupt` | "Unexpected except for the first time" (`:229`) | the first missed block is forgiven however late it comes |
| `stop_hangs` | "This could fail if the writer thread is not pulling data" (`:697`) | it also hangs if the writer pulls: `size()` and `pop_front()` are two steps |
| `outstanding_tasks` | "Don't allow outstanding tasks." (`HTTPClient.cpp:26`) | `AllThreadsOccupied` never returns true |
| `before_data` | "Scenario 2: We need 2 files." (`LoggerController.cpp:305`) | with one completed file Scenario 3 is taken and the data before the event is not uploaded |
| `release_mmaps` | "Deallocate the mmaps." (`HardwareManager.cpp:98`) | for the CDMA (`:111`) and the interrupt controller (`:120`) it is `m_ddrBase` that is unmapped, which is NULL |

The first four leave their mark on the properties that do hold: `DmaTargetFree` speaks of the queue
only, `RecordedInOrder` and `ChannelsAlike` except the transfer into the writer's buffer (`spoiled`),
`LossesCounted` allows one uncounted gap, `StopReturns`, `StopNeverStuck` and `HaltStops` have the race as
their one exception, and `UploadPool` lets the queue fill up. In `Lifecycle`, `HardwareManager::Stop` is what
`StopReturns` leaves of it: the drain loop goes on to the joins (`Join`), or ends in `drainPop`, from
where only a block that HWThread had under way takes main on (`LastBlock`, which need not come).
`HaltStops` says that this is the only place main can stay: after "halt" it exits, or is in `drainPop` for good.

`Update` reads the error counter twice, and an error counted between the publish and the second read is
latched untold. `ErrorsReported` says that one counted anywhere else in the loop is told of;
`LatchedWhenTold`, that an error is never latched but together with one a message was just sent
about, so that the race can hide how many errors there were, never that there were some.

`Recorder` says in one place what the recording is worth to those who upload from it. Its `Spoil` is the
first finding made exact: the block being copied is overwritten only while one place is left in the
queue, or after `Stop` has been called. Its `Skip` and `Discard` are the only other ways a block once
queued is not recorded.

Every property has a mutant, a change of one mapped definition of the kind a slip would make
(`...Late`, `...Uncut`, `...Untested` and so on, each above the definition it alters), under
which TLC finds the property violated.

Deadlock is checked in `queue` and the `hardware` runs. In both something outside can always step (a
spurious wakeup or a new call; a "pause"), so what finds a stuck thread there is the liveness property and
`NoLostWakeup`. `pool`, `event_upload` and `lifecycle` really stop (all threads ended, no blocks left, main
returned), and are not checked for it.

### Bounds

`MaxBlocks`, `MaxFed`, `MaxTasks`, `ConfFiles`, `StackWords` and `Lifecycle`'s three bound what the environment does and occur
only in guards (of `FpgaFill`, `Feed`, `Upload`; of `SpiInit`, `PutConfig`; of `CountError`, `OpenRecord`, `AddUpload`) and in
the assumptions that name them. All other constants are the
program's own, made small: `DDR_Q_SIZE` (494), `MaxFileBlocks` (19382), `NumOutFiles` (4),
`DrainLevel` (300), `PoolSize` (5), `NumWords` (41), `NumRegs` (49), `NumAgc` (4), the numbers of blocks before and after an event. What matters
of them is their order, which the instances keep: the drain level lies within the ring, a window
fits a file, the queue of tasks holds fewer than tasks and nulls together. `UploadAssumption` asks
that windows are shorter than files, as the program's are. `event_upload` takes as many blocks
after an event as before it, where the program has a quarter: what counts is that both sides of
`m_numPreBytes - totalSize1 < 0` occur. The configuration files of `lifecycle` are one in order, one too long whose words stand in other
places, one too short, and none. `Modulus` stands for 2^32: unsigned differences wrap to
more than any size.

## 4. Assumptions about the environment, and fairness

- **The FPGA** fills its two buffers in turn and raises an interrupt for each. A block takes
  16.49 ms (`HardwareManager.cpp:79-87`). HWThread has real-time priority, so between an
  interrupt it has read and the push of that block no further block is completed (`Prompt`),
  unless HWThread waits for room in a full queue. Before it polls any number may be.
- **The DMA engine**, when it stops being busy, has raised one of its three interrupt flags:
  completed, delay or error. It may also stay busy after the reset, which ends HWThread.
- **The queue** is an atomic FIFO wherever it is used: this is what `ImplementsBoundedQueue` and
  `QueueRefinement` show.
- **The callback**: in `EventUpload` the straight code of the callback takes less than a block, and
  a wait loop makes a full turn between two blocks (`seen`). Its publishes have QoS 0. Each of its
  reads of `m_bytesWritten` is one access, though the member is 64 bits wide on a 32-bit machine.
  The channels are split (`-S`, as `scripts/mznt-logger` starts the program): `UploadAssumption` asks
  for `WriteSplit`. `GetCurrFileOffset` is `m_bytesWritten / 4` in either mode (`HardwareManager.h:76`). With
  split channels that is the position in each file, and a block counts for a block; without, the one
  file gets all four channels, the quotient is a quarter of the position ("This is the current offset
  in each file.", `LoggerController.cpp:278`, is then wrong), and neither the properties nor the theorems of
  `EventUpload` say anything of the program.
- **The SPI driver** is busy from an instruction on until it is done. It writes the words in their
  order, so the last that names a register decides. A configuration is `WellFormed` as the comment
  of `ConfigureNT1065` requires ("Requires: well formed conf_filename", `HardwareManager.cpp:788`):
  what is said of the chip and of the AGC values is said for those. A file that is too short leaves
  words of the stack in `SpiWrBuffer`; it is modelled too.
- **The system** may refuse any `open`, `mmap` and `munmap` of the initialisation. In the destructor a
  refused `munmap` is only printed, and left out.
- **libcurl** calls `read_callback` until it returns 0 or all is sent, and may fail at any moment.
- Fairness: every thread that can run is scheduled (weak fairness of its steps). A thread that
  wants the mutex gets it if it is released again and again (strong fairness of `GetLock`):
  HWThread polls `size()` in a loop. `ReadCallback` is strongly fair because the recording's
  backlog comes and goes, and `Feed` because it falls between two turns of a loop. Nobody is
  obliged to call `Stop`, to send a message or to ask for an upload, and the FPGA may fall silent
  (it is not fair in `HardwareManager`). In `Lifecycle` only main (but for `LastBlock`), the SPI driver (which is
  not busy for ever) and the end of uploads are fair: the runtime need not end, the callback may wait for ever, and an upload ends because of
  `UploadsFinish`. `UploadsFinish` assumes that the server goes on taking data:
  no timeout is set on the transfers.

## 5. Proofs

`ThreadSafeQueueProofs`, for any finite set of threads, any values and any capacity:
`MonitorCorrect`, `NoWakeupLost` and `QueueRefinement` (the safety part of the refinement).
`NoLostWakeup` is not inductive. Its counting form `WakeupCount` is: while consumers sleep there
are at least as many threads on their way (a push that has yet to signal, or an awake pop that has
yet to take) as values queued, and likewise for producers and free places. Each step moves one
thread, or two when a signal wakes one; `MoveCount`, `ServingMove` and `WakeMove` say what that
does to the counts. With types, mutual exclusion and capacity it makes `MonitorInv`. The refinement
maps a thread past the body of its critical section to "done", and uses `MonitorInv` for the fact that
only the owner of the mutex is in a body.

`HardwareManagerProofs`, for a ring of any size, any number of channels and files of any size:
`RingCorrect`, `TypesCorrect`, `BuffersIntact`, `TargetNeverQueued`, `StopLeavesNothing`, `StopIsNeverStuck`. The
inductive invariant `RingInv` has five parts: types; `NullLast` (the null is the last in the queue
and comes after HWThread's end); `RingShape` (the queue is never longer than the ring, and shorter
during a transfer: between HWThread's test and its push others only take); `WriterShape` (what the
writer's control point says of its variables, without which `Fwrite` and the types of the files do
not carry over); and `QueuedIntact` (the i-th buffer from the end of the queue is the i-th behind
`queueIndex`, and holds the i-th last block pushed). `DmaTargetFree` follows because a buffer
less than a ring behind `queueIndex` is not `queueIndex` (`BehindOther`). `Behind` and `NextIndex`
are written with a comparison instead of `%`, which the provers cannot reason about with a
variable divisor. `StopNeverStuck` is the part of `StopReturns` that needs no fairness: `StopShape`
adds that threads refused their priority leave an empty queue behind, and that the null stands in the
queue until the writer takes it.

`WriterThreadProofs` has what two compositions need of the writer: that it keeps its types, and
`FileInv`, which says at every control point, half done file breaks included, how many files each
channel has, how many blocks are in the last, what the names are, and that a break finds exactly
`MaxFileBlocks` counted. It is proved once, for the writer beside anything that leaves its
variables alone.

`RecordingProofs`, for any number of blocks as well: `FilesAreAligned` follows from `RingInv` and
`FileInv`. `BlocksAreConserved` adds one equation, that a block pushed is queued, in the writer's
hands, on file or dropped; a channel's files and what is in its last give the product that
`Blocks` is. `GapsAreCounted` needs `LossInv`: unless HWThread waited for room, the interrupts that
are up tell how many blocks have come since it last took one (`PollShape`), so that a gap is paid
for, by the error counted or the one forgiven, before the block after it is pushed; and while it
holds a block, that block is the latest and in the FPGA's buffer (`HandShape`).

`ChannelsStayAlike` and `RecordingIsInOrder` follow the blocks into the files. Both rest on `HandsOff`:
unless the history variable `spoiled` tells of it, HWThread does not transfer into the buffer the writer
copies. `AlikeInv` then says that the channels already served hold, at the place the others
have still to fill, what is in that buffer. `OrderInv` says that what is on file is sorted, and below what is
being copied, which is below what is queued; that the queue is sorted is `LossInv` seen through
`QueuedIntact`.

`RecorderRefinement` is the refinement of `Recorder`, which states no fairness, and so is proved whole. The
mapping takes `Backlog` from the buffers queued, `Copied` from the buffer in the writer's hands, `Owed`
from how far the loop over the channels has come and `Recording` from the files. HWThread's
`PushBuffer` is `Sample`, `WriterPop` is `Take` (`Abreast` gives it the channels at the same place of a file
with room), `WriteChannel` and `WriteWhole` are `Record`, `WriterSync` in a pause is `Skip`, `DrainPop` is
`Discard`, `Reopen` is `Break`. A transfer changes buffers that are neither queued nor taken and is no step,
except `StartDma` into the writer's buffer, and what such a transfer leaves there, which are `Spoil`.
That this takes a queue one short of full is `TakenBehind`: before `Stop` has taken any, the buffer
being copied is the one before those queued in the ring, so that it is the next target only when they
are all the others. `StopKnown` says from when on `m_stopSignal` is set and `BlocksInRange` what a buffer
can hold.

`UploadPoolProofs`, for a pool of any size and any number of uploads: `PoolTypes`, `OneNullEach`,
`TaskHasOneOwner`, `AcceptedUploadsRun`, `PoolIsNeverStuck`, `PoolImplementsService`. The inductive invariant `IInv` says
that the queue is in the order of the tasks' numbers and shares none with the threads' hands
(`QueuedOnce`, `HeldOnce`), that every task not deleted is somewhere (`NoneLost`), that those
accepted before the destruction stand ahead of every null, so that no thread ends before they are
taken (`AcceptedAhead`), how far the destructor's loops are, and that the nulls owed, queued and
taken are one for each thread. `PoolNeverStuck` is the sum of these nulls read backwards: while one is owed
a thread is left that takes from a full queue, and when none is owed or queued every thread has
had its own. The refinement maps a task to waiting if it is queued ahead of the
last null, so its `Begin` takes the smallest because the queue is ordered.

`EventUploadProofs`, for files, windows and recordings of any size and any number of channels:
`EventTypes`, `PlaceIsKnown`, `WindowsWithinFiles`, `WindowsOnFile`, `UploadsAreRight`, `WaitsEndInTime`. Behind them is
`CountedIs`: name times `MaxFileBlocks` plus `m_bytesWritten` is the number of blocks on file,
except between the steps that change the one and the other. `EventInv` then follows the callback:
`NameShape` (until the file it has named is broken, `m_bytesWritten` is a position in it and not
below the one read; afterwards it says nothing of that file), `LagShape` (an update that fits the
file ends its wait before the break, as the writer gets a block only after a turn that found too
few), `ReadyShape` (what an event waited for is on file) and `PlanShape` (the windows so far).
`WaitsInTime` has an invariant of its own, `InTime`: the blocks on file and on their way there (`Total`)
are no more than are waited for, nor than the file holds, and fewer after a turn of the loop that saw them
all on file and went on. No step of the writer adds to that sum (`WriterTotal`), and HWThread does
only after such a turn. The exception is a wait for as much as a file holds from position 0 on: a turn
then may find m_bytesWritten reset to the very position it began at, which is the hazard listed at
`LoggerController.cpp:397`.

`LifecycleProofs`, for any numbers of errors, records and uploads, words, registers and channels, and
any configuration files: `LifecycleTypes`, `AgcUploadsOnFile`, `HardwareDestroyedLast`,
`UsedIsMapped`, `ChipKeepsConfiguration`, `AgcNeverMixed`, `ErrorsLatchedWhenTold`. `AgcOnFile` and
`HardwareOutlivesUsers` are not inductive: they need what main's control point says of the log (`LogShape`:
what is on file is what Start left there and what is counted, but between writing and counting, and
nothing is counted before the log is opened) and of the members (`MemberShape`: once the pool is gone
there are no uploads and nobody can add one). The action property `LatchedWhenTold` rests on
`TellShape`: main is about to publish only when it has found a new error, and about to latch only when one
newer than those latched was published, or the connection is lost, which it then stays.
The others rest on `BoardInv` of `HardwareInitProofs`: who waits for the driver and who may be busy
(`SpiShape`), that the write memory holds the file but for the one word `GetAGCData` replaces
(`WordsShape`), from when on the chip does (`ChipShape`), how far a channel's value has come on its
way through the two memories (`AgcShape`), and which members are mapped (`MapsShape`). That the last
word naming a register decides (`WrittenLast`) uses that a set of places has a last one.

Assumptions: `QueueAssumption`, `SizeAssumption`, `NullAssumption`, `WriterAssumption`,
`ManagerAssumption`, `PoolAssumption`, `UploadAssumption`, `SpiAssumption`, `LifecycleAssumption`, which
TLC evaluates in the runs. They give the constants their types; only `UploadAssumption` asks for
more, that the channels are split, that windows fit a file and that `Modulus` is larger than what is
added up.

Every invariant and action property of a passing run is a theorem, and so is the refinement of `Recorder`. Only
model-checked are the liveness properties (`UploadsFinish`, `PoolStops`, `StopReturns`, `CallbackReturns`,
`ErrorsReported`, `HaltStops`) and the fairness half of the refinements of `BoundedQueue` and
`UploadService`: TLAPS does not prove liveness or ENABLED here. What these rest on besides the scheduling
is proved: that no thread waits for one that waits for it (`NoWakeupLost`, `StopIsNeverStuck`,
`PoolIsNeverStuck`), and that no wait runs past its end (`WaitsEndInTime`).

## 6. What is not modelled

- The bits of the FPGA's mode register and the GPIO settings: they are written once and never read
  back. Among them is that the counter mode does not look at whether channels are split
  (`HardwareManager.cpp:1007`), which shows in the samples only.
- The profiling messages, which only print; the comparison of AGC values with the alert threshold;
  the options of `main`, and exceptions.
- What happens when the callback uses a member that is destroyed: `Lifecycle` stops the callback
  there. The same for paho's functions on a client that was never created.
- Failures of files (but for the AGC log, in `Start` and in `Update`, and the configuration, which may fail to open) and of
  `pthread_create`: the code looks at none of them.
- `AddTask` or `upload` on a pool that is already destroyed: undefined behaviour.
- Torn or hoisted reads of unsynchronised members.
- `SerialManager`, which nothing uses, scripts, generated makefiles and vendored headers.

The map covers nearly all of `src/src/` that acts: what it leaves of `HardwareManager.cpp` is
includes, banners, messages and code that is commented out. The headers of curl and paho under
`src/lib/inc` are by far the larger part of the repository's lines and are not this program's.

## 7. Plan

1. (done) The queue and its refinement; the acquisition and its ring; the pool; event and update
   messages; `Lifecycle`, the program from `Start` to the last destructor; proofs for the queue, the
   ring and the lifecycle.
2. (done) `NT1065` and `HardwareInit`, composed into `Lifecycle`; `UploadService` and the pool's
   refinement; two channels in `EventUpload`.
3. (done) Proofs of every invariant the runs check: files and losses, the pool, the windows, the
   board.
4. (done) Proofs that what is on file is in order and alike in all channels, of the refinement of
   `Recorder`, and of what is behind the liveness properties of `Stop`, the pool and the callback's waits.
5. (done) `Lifecycle`: `Stop` with the race of its drain loop, a log that cannot be emptied, and the
   proof that errors are latched only when told.
6. Left: reads of the 64-bit `m_bytesWritten` in two loads, in `EventUpload`; the pool and
   `Lifecycle` composed with the pool's own steps in place of a count; a proof of
   `ImplementsService` and `ImplementsBoundedQueue` with their fairness waits for a prover that
   does ENABLED.
