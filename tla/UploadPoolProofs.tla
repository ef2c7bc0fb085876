-------------------------- MODULE UploadPoolProofs --------------------------
(***************************************************************************)
(* For a pool of any size and any number of uploads: each task has one     *)
(* owner, each thread one null, what was accepted before the pool's        *)
(* destruction has been run after it, nobody waits in vain for room in the *)
(* queue or for a thread to end, and the pool's steps are those of         *)
(* UploadService.                                                          *)
(***************************************************************************)
EXTENDS UploadPool, FiniteSetTheorems, TLAPS

\* How far the destructor's two loops are, and which threads the second has joined.
LoopShape ==
    /\ mainPc \in {"running", "pushNulls", "join"} => count < PoolSize
    /\ mainPc = "running" => count = 0 /\ accepted = {}
    /\ mainPc = "join" => \A t \in 1 .. count : wPc[t] = "exited"
    /\ mainPc = "gone" => \A t \in Workers : wPc[t] = "exited"

\* Tasks stand in the queue in the order of their numbers; a queued task is in nobody's
\* hands, and no two threads hold the same.
QueuedOnce ==
    \A i \in DOMAIN taskQueue : taskQueue[i] # NullTask =>
        /\ taskQueue[i] <= numTasks /\ taskQueue[i] \notin deleted
        /\ mqttPc = "add" => taskQueue[i] # numTasks
        /\ \A t \in Held : task[t] # taskQueue[i]
        /\ \A j \in DOMAIN taskQueue : j < i => taskQueue[j] < taskQueue[i]

HeldOnce ==
    /\ \A t \in Held :
          /\ task[t] \in 1 .. numTasks /\ task[t] \notin deleted
          /\ mqttPc = "add" => task[t] # numTasks
          /\ \A u \in Held : task[u] = task[t] => u = t
    /\ mqttPc = "add" => numTasks > 0 /\ numTasks \notin deleted

NoneLost ==
    \A k \in 1 .. numTasks \ deleted :
        \/ \E i \in DOMAIN taskQueue : taskQueue[i] = k
        \/ \E t \in Held : task[t] = k
        \/ mqttPc = "add" /\ k = numTasks

\* The accepted tasks stand ahead of every null, and no thread ends before they are taken.
AcceptedAhead ==
    /\ \A i, j \in DOMAIN taskQueue :
           taskQueue[i] = NullTask /\ taskQueue[j] \in accepted => j < i
    /\ (\E t \in Workers : wPc[t] = "exited") =>
           \A j \in DOMAIN taskQueue : taskQueue[j] \notin accepted
    /\ mqttPc = "add" => numTasks \notin accepted
    /\ mainPc = "running" => /\ \A t \in Workers : wPc[t] # "exited"
                             /\ \A i \in DOMAIN taskQueue : taskQueue[i] # NullTask

Owned == QueuedOnce /\ HeldOnce /\ NoneLost /\ AcceptedAhead

IInv == TypeOK /\ LoopShape /\ Owned /\ NullPerThread

-----------------------------------------------------------------------------
(* What push and pop_front do to the places of the queue.                  *)

LEMMA PopShifts ==
    ASSUME NEW S, NEW q \in Seq(S), q # <<>>
    PROVE  /\ Tail(q) \in Seq(S) /\ Len(Tail(q)) = Len(q) - 1 /\ Len(q) \in Nat \ {0}
           /\ DOMAIN Tail(q) = 1 .. Len(q) - 1 /\ DOMAIN q = 1 .. Len(q)
           /\ \A i \in 1 .. Len(q) - 1 : Tail(q)[i] = q[i + 1]
           /\ Head(q) = q[1] /\ Head(q) \in S
  OBVIOUS

LEMMA PushExtends ==
    ASSUME NEW S, NEW q \in Seq(S), NEW k \in S
    PROVE  /\ Append(q, k) \in Seq(S) /\ Len(q) \in Nat
           /\ DOMAIN Append(q, k) = 1 .. Len(q) + 1 /\ DOMAIN q = 1 .. Len(q)
           /\ \A i \in 1 .. Len(q) : Append(q, k)[i] = q[i]
           /\ Append(q, k)[Len(q) + 1] = k
  OBVIOUS

LEMMA PlaceHolds ==
    ASSUME NEW S, NEW q \in Seq(S), NEW i \in DOMAIN q PROVE q[i] \in S
  OBVIOUS

-----------------------------------------------------------------------------
LEMMA InitInv == Init => IInv
<1> SUFFICES ASSUME Init PROVE IInv
  OBVIOUS
<1> USE PoolAssumption DEF Init, Workers, NullTask
<1>1. TypeOK
  <2>1. 0 \in 0 .. UploadSize /\ 0 \in 0 .. MaxTasks /\ 0 \in 0 .. PoolSize /\ {} \subseteq 1 .. 0
    OBVIOUS
  <2>2. taskQueue \in Seq(0 .. MaxTasks)
    OBVIOUS
  <2> QED
    BY <2>1, <2>2 DEF TypeOK
<1>7. LoopShape
  BY DEF LoopShape
<1>2. Held = {} /\ DOMAIN taskQueue = {} /\ 1 .. numTasks = {}
  BY DEF Held
<1>3. QueuedOnce /\ HeldOnce /\ NoneLost /\ AcceptedAhead
  BY <1>2 DEF QueuedOnce, HeldOnce, NoneLost, AcceptedAhead
<1>4. {j \in 1 .. Len(taskQueue) : taskQueue[j] = 0} = {} /\ {t \in Workers : wPc[t] = "exited"} = {}
  BY <1>2
<1>5. Queued(NullTask) = 0 /\ Exited = 0 /\ NullsOwed = PoolSize
  BY <1>4, FS_EmptySet DEF Queued, Exited, NullsOwed
<1>6. NullPerThread
  BY <1>5 DEF NullPerThread
<1> QED
  BY <1>1, <1>3, <1>6, <1>7 DEF IInv, Owned

-----------------------------------------------------------------------------
(* Types and the destructor's loops.                                       *)

\* The caller of upload and the destructors keep them.
LEMMA CallerTypes ==
    ASSUME TypeOK, LoopShape, Upload \/ AddTask \/ CurlCleanup \/ Destroy \/ Recording
    PROVE  TypeOK' /\ LoopShape'
<1> USE PoolAssumption
    DEF TypeOK, LoopShape, workers, caller, destructor, Push, MainGoto, Workers, NullTask
<1>1. CASE Upload
  BY <1>1 DEF Upload, AllThreadsOccupied
<1>2. CASE AddTask
  <2>1. taskQueue' \in Seq(0 .. MaxTasks)
    BY <1>2, PushExtends DEF AddTask
  <2> QED
    BY <1>2, <2>1 DEF AddTask
<1>3. CASE CurlCleanup
  BY <1>3 DEF CurlCleanup
<1>4. CASE PushNulls
  <2>1. taskQueue' \in Seq(0 .. MaxTasks)
    BY <1>4, PushExtends DEF PushNulls
  <2>2. count' \in 0 .. PoolSize - 1 /\ mainPc' \in {"pushNulls", "join"}
        /\ (mainPc' = "join" => count' = 0)
    BY <1>4 DEF PushNulls
  <2>3. TypeOK'
    BY <1>4, <2>1, <2>2 DEF PushNulls
  <2>4. LoopShape'
    BY <1>4, <2>2 DEF PushNulls
  <2> QED
    BY <2>3, <2>4
<1>5. CASE Join
  <2>1. \A t \in 1 .. count + 1 : wPc[t] = "exited"
    BY <1>5 DEF Join
  <2>2. TypeOK'
    BY <1>5 DEF Join
  <2>3. LoopShape'
    BY <1>5, <2>1 DEF Join
  <2> QED
    BY <2>2, <2>3
<1>6. CASE Recording
  BY <1>6 DEF Recording
<1> QED
  BY <1>1, <1>2, <1>3, <1>4, <1>5, <1>6 DEF Destroy

\* The PoolThreads keep them.
LEMMA WorkerTypes ==
    ASSUME TypeOK, LoopShape, HeldOnce,
           NEW t \in Workers, Work(t) \/ ReadCallback(t) \/ FailTransfer(t)
    PROVE  TypeOK' /\ LoopShape'
<1> USE PoolAssumption
    DEF TypeOK, LoopShape, caller, destructor, WGoto, NullTask
<1>1. CASE PopTask(t)
  <2>1. taskQueue' \in Seq(0 .. MaxTasks) /\ Head(taskQueue) \in 0 .. MaxTasks
    BY <1>1, PopShifts DEF PopTask
  <2>2. TypeOK'
    BY <1>1, <2>1 DEF PopTask
  <2>3. LoopShape'
    BY <1>1 DEF PopTask
  <2> QED
    BY <2>2, <2>3
<1>2. CASE SetBusy(t)
  BY <1>2 DEF SetBusy
<1>3. CASE BeginTransfer(t)
  <2>1. PICK l \in {"perform", "delete"} : wPc[t] = "run" /\ wPc' = [wPc EXCEPT ![t] = l]
    BY <1>3 DEF BeginTransfer
  <2>2. TypeOK'
    BY <1>3, <2>1 DEF BeginTransfer
  <2>3. LoopShape'
    BY <1>3, <2>1 DEF BeginTransfer
  <2> QED
    BY <2>2, <2>3
<1>4. CASE ReadCallback(t)
  <2>1. ReadSize(t) \in 0 .. UploadSize - total[t]
    BY DEF ReadSize
  <2>2. total' \in [Workers -> 0 .. UploadSize] /\ eof' \in [Workers -> BOOLEAN]
    BY <1>4, <2>1 DEF ReadCallback
  <2>3. TypeOK'
    BY <1>4, <2>2 DEF ReadCallback
  <2>4. LoopShape'
    BY <1>4 DEF ReadCallback
  <2> QED
    BY <2>3, <2>4
<1>5. CASE EndTransfer(t)
  BY <1>5 DEF EndTransfer
<1>6. CASE FailTransfer(t)
  BY <1>6 DEF FailTransfer
<1>7. CASE DeleteTask(t)
  <2>1. task[t] \in 1 .. numTasks
    BY <1>7 DEF HeldOnce, Held, DeleteTask
  <2>4. deleted' \subseteq 1 .. numTasks
    BY <1>7, <2>1 DEF DeleteTask
  <2>5. total' \in [Workers -> 0 .. UploadSize] /\ eof' \in [Workers -> BOOLEAN]
    BY <1>7 DEF DeleteTask
  <2>2. TypeOK'
    BY <1>7, <2>4, <2>5 DEF DeleteTask
  <2>3. LoopShape'
    BY <1>7 DEF DeleteTask
  <2> QED
    BY <2>2, <2>3
<1>8. CASE ClearBusy(t)
  BY <1>8 DEF ClearBusy
<1> QED
  BY <1>1, <1>2, <1>3, <1>4, <1>5, <1>6, <1>7, <1>8 DEF Work

-----------------------------------------------------------------------------
(* Where the tasks are.                                                    *)

\* upload, addTask and the destructors neither lose a task nor hand it to two.
LEMMA CallerOwned ==
    ASSUME TypeOK, LoopShape, Owned, Upload \/ AddTask \/ CurlCleanup \/ Destroy \/ Recording
    PROVE  Owned'
<1> USE PoolAssumption DEF Owned, QueuedOnce, HeldOnce, NoneLost, AcceptedAhead, NullTask
<1>0. /\ taskQueue \in Seq(0 .. MaxTasks) /\ numTasks \in 0 .. MaxTasks /\ accepted \subseteq 1 .. numTasks
      /\ deleted \subseteq 1 .. numTasks /\ task \in [Workers -> 0 .. MaxTasks]
      /\ \A i \in DOMAIN taskQueue : taskQueue[i] \in 0 .. MaxTasks
  BY PlaceHolds DEF TypeOK
<1>1. CASE Upload
  <2>1. Held' = Held
    BY <1>1 DEF Upload, Held, workers
  <2>2. /\ mqttPc = "idle" /\ mqttPc' = "add" /\ numTasks' = numTasks + 1
        /\ UNCHANGED <<taskQueue, wPc, task, deleted, mainPc, accepted>>
    BY <1>1 DEF Upload, AllThreadsOccupied, workers, destructor
  <2>3. QueuedOnce' /\ HeldOnce'
    BY <1>0, <2>1, <2>2
  <2>4. NoneLost'
    BY <1>0, <2>1, <2>2
  <2>5. AcceptedAhead'
    BY <1>0, <2>2
  <2> QED
    BY <2>3, <2>4, <2>5
<1>2. CASE AddTask
  <2>1. /\ Held' = Held /\ mqttPc = "add" /\ mqttPc' = "idle" /\ taskQueue' = Append(taskQueue, numTasks)
        /\ UNCHANGED <<wPc, task, deleted, numTasks, mainPc, accepted>>
    BY <1>2 DEF AddTask, Push, Held, workers, destructor
  <2>2. /\ DOMAIN taskQueue = 1 .. Len(taskQueue) /\ DOMAIN taskQueue' = 1 .. Len(taskQueue) + 1
        /\ \A i \in DOMAIN taskQueue : taskQueue'[i] = taskQueue[i]
        /\ taskQueue'[Len(taskQueue) + 1] = numTasks /\ Len(taskQueue) \in Nat
    BY <1>0, <2>1, PushExtends
  <2>3. QueuedOnce'
    <3> SUFFICES ASSUME NEW i \in 1 .. Len(taskQueue) + 1, taskQueue'[i] # 0
                 PROVE  /\ taskQueue'[i] <= numTasks /\ taskQueue'[i] \notin deleted
                        /\ \A u \in Held : task[u] # taskQueue'[i]
                        /\ \A j \in 1 .. Len(taskQueue) + 1 : j < i => taskQueue'[j] < taskQueue'[i]
      BY <2>1, <2>2
    <3>1. CASE i \in DOMAIN taskQueue
      BY <2>1, <2>2, <3>1
    <3>2. CASE i = Len(taskQueue) + 1
      <4>1. ASSUME NEW j \in DOMAIN taskQueue PROVE taskQueue[j] < numTasks
        <5>1. CASE taskQueue[j] = 0
          BY <1>0, <2>1, <5>1
        <5>2. CASE taskQueue[j] # 0
          <6>1. taskQueue[j] <= numTasks /\ taskQueue[j] # numTasks
            BY <2>1, <5>2
          <6> QED
            BY <1>0, <6>1
        <5> QED
          BY <5>1, <5>2
      <4> QED
        <5>1. taskQueue'[i] = numTasks /\ numTasks > 0
          BY <2>1, <2>2, <3>2
        <5>2. \A j \in 1 .. Len(taskQueue) + 1 : j < i => taskQueue'[j] < numTasks
          BY <2>2, <3>2, <4>1
        <5> QED
          BY <1>0, <2>1, <5>1, <5>2
    <3> QED
      BY <2>2, <3>1, <3>2
  <2>6. HeldOnce'
    BY <2>1
  <2>4. NoneLost'
    <3> SUFFICES ASSUME NEW k \in 1 .. numTasks \ deleted, \A u \in Held : task[u] # k
                 PROVE  \E i \in 1 .. Len(taskQueue) + 1 : taskQueue'[i] = k
      BY <2>1, <2>2
    <3>1. CASE k = numTasks
      BY <2>2, <3>1
    <3>2. CASE \E i \in DOMAIN taskQueue : taskQueue[i] = k
      BY <2>2, <3>2
    <3> QED
      BY <3>1, <3>2
  <2>5. AcceptedAhead'
    BY <1>0, <2>1, <2>2
  <2> QED
    BY <2>3, <2>4, <2>5, <2>6
<1>3. CASE CurlCleanup
  <2>1. /\ Held' = Held /\ mainPc = "running" /\ mainPc' = "pushNulls"
        /\ accepted' = IF mqttPc = "add" THEN 1 .. numTasks - 1 ELSE 1 .. numTasks
        /\ UNCHANGED <<taskQueue, wPc, task, deleted, mqttPc, numTasks>>
    BY <1>3 DEF CurlCleanup, MainGoto, Held, workers, caller
  <2>2. AcceptedAhead'
    BY <1>0, <2>1
  <2> QED
    BY <2>1, <2>2
<1>4. CASE PushNulls
  <2>1. /\ Held' = Held /\ mainPc = "pushNulls" /\ mainPc' \in {"pushNulls", "join"}
        /\ taskQueue' = Append(taskQueue, 0)
        /\ UNCHANGED <<wPc, task, deleted, mqttPc, numTasks, accepted>>
    BY <1>4 DEF PushNulls, MainGoto, Push, Held, workers, caller
  <2>2. /\ DOMAIN taskQueue = 1 .. Len(taskQueue) /\ DOMAIN taskQueue' = 1 .. Len(taskQueue) + 1
        /\ \A i \in DOMAIN taskQueue : taskQueue'[i] = taskQueue[i]
        /\ taskQueue'[Len(taskQueue) + 1] = 0 /\ Len(taskQueue) \in Nat
    BY <1>0, <2>1, PushExtends
  <2>3. QueuedOnce' /\ HeldOnce'
    BY <1>0, <2>1, <2>2
  <2>4. NoneLost'
    <3>1. \A k : (\E i \in DOMAIN taskQueue : taskQueue[i] = k)
                    => \E i \in DOMAIN taskQueue' : taskQueue'[i] = k
      BY <2>2
    <3> QED
      BY <2>1, <3>1
  <2>5. AcceptedAhead'
    BY <1>0, <2>1, <2>2
  <2> QED
    BY <2>3, <2>4, <2>5
<1>5. CASE Join \/ Recording
  <2>1. /\ Held' = Held /\ (mainPc' = "running" => mainPc = "running")
        /\ UNCHANGED <<taskQueue, wPc, task, deleted, mqttPc, numTasks, accepted>>
    BY <1>5 DEF Join, Recording, MainGoto, Held, workers, caller, destructor
  <2> QED
    BY <2>1
<1> QED
  BY <1>1, <1>2, <1>3, <1>4, <1>5 DEF Destroy

\* Nor do the PoolThreads.
LEMMA WorkerOwned ==
    ASSUME TypeOK, Owned, NEW t \in Workers, Work(t) \/ ReadCallback(t) \/ FailTransfer(t)
    PROVE  Owned'
<1> USE DEF Owned, QueuedOnce, HeldOnce, NoneLost, AcceptedAhead, NullTask
<1>0. /\ taskQueue \in Seq(0 .. MaxTasks) /\ numTasks \in 0 .. MaxTasks /\ accepted \subseteq 1 .. numTasks
      /\ deleted \subseteq 1 .. numTasks /\ task \in [Workers -> 0 .. MaxTasks] /\ DOMAIN wPc = Workers
      /\ \A i \in DOMAIN taskQueue : taskQueue[i] \in 0 .. MaxTasks
  BY PlaceHolds DEF TypeOK
<1>1. CASE PopTask(t)
  <2>1. /\ wPc[t] = "pop" /\ taskQueue # <<>> /\ taskQueue' = Tail(taskQueue)
        /\ task' = [task EXCEPT ![t] = taskQueue[1]]
        /\ wPc' = [wPc EXCEPT ![t] = IF taskQueue[1] = 0 THEN "exited" ELSE "got"]
        /\ UNCHANGED <<deleted, mqttPc, numTasks, mainPc, accepted>>
    BY <1>0, <1>1, PopShifts DEF PopTask, WGoto, caller, destructor
  <2>10. /\ DOMAIN taskQueue = 1 .. Len(taskQueue) /\ DOMAIN taskQueue' = 1 .. Len(taskQueue) - 1
         /\ \A i \in DOMAIN taskQueue' : taskQueue'[i] = taskQueue[i + 1]
         /\ Len(taskQueue) \in Nat \ {0}
    BY <1>0, <2>1, PopShifts
  <2>11. \A i \in DOMAIN taskQueue' : i + 1 \in DOMAIN taskQueue
    BY <2>10
  <2>2. /\ DOMAIN taskQueue = 1 .. Len(taskQueue) /\ DOMAIN taskQueue' = 1 .. Len(taskQueue) - 1
        /\ \A i \in DOMAIN taskQueue' : i + 1 \in DOMAIN taskQueue /\ taskQueue'[i] = taskQueue[i + 1]
        /\ Len(taskQueue) \in Nat \ {0} /\ \A i \in DOMAIN taskQueue : taskQueue[i] \in 0 .. MaxTasks
    BY <1>0, <2>10, <2>11
  <2>3. Held' = IF taskQueue[1] = 0 THEN Held ELSE Held \cup {t}
    BY <1>0, <2>1 DEF Held
  <2>4. t \notin Held /\ Held \subseteq Workers /\ \A u \in Held : u # t /\ task'[u] = task[u]
    BY <1>0, <2>1 DEF Held
  <2>5. task'[t] = taskQueue[1] /\ 1 \in DOMAIN taskQueue
    BY <1>0, <2>1, <2>2
  <2>6. QueuedOnce'
    <3> SUFFICES ASSUME NEW i \in DOMAIN taskQueue', taskQueue[i + 1] # 0
                 PROVE  /\ taskQueue[i + 1] <= numTasks /\ taskQueue[i + 1] \notin deleted
                        /\ mqttPc = "add" => taskQueue[i + 1] # numTasks
                        /\ \A u \in Held' : task'[u] # taskQueue[i + 1]
                        /\ \A j \in DOMAIN taskQueue' : j < i => taskQueue[j + 1] < taskQueue[i + 1]
      BY <2>1, <2>2
    <3>1. i + 1 \in DOMAIN taskQueue /\ 1 < i + 1
      BY <2>2
    <3>2. taskQueue[1] # taskQueue[i + 1]
      BY <2>2, <2>5, <3>1
    <3>3. \A u \in Held' : task'[u] # taskQueue[i + 1]
      BY <2>3, <2>4, <2>5, <3>1, <3>2
    <3>4. \A j \in DOMAIN taskQueue' : j < i => taskQueue[j + 1] < taskQueue[i + 1]
      BY <2>2, <3>1
    <3> QED
      BY <3>1, <3>3, <3>4
  <2>7. HeldOnce'
    BY <1>0, <2>1, <2>2, <2>3, <2>4, <2>5
  <2>8. NoneLost'
    <3> SUFFICES ASSUME NEW k \in 1 .. numTasks \ deleted,
                        \A u \in Held' : task'[u] # k, ~(mqttPc = "add" /\ k = numTasks)
                 PROVE  \E i \in DOMAIN taskQueue' : taskQueue'[i] = k
      BY <2>1
    <3>1. \A u \in Held : task[u] # k
      BY <2>3, <2>4
    <3>2. PICK i \in DOMAIN taskQueue : taskQueue[i] = k
      BY <3>1
    <3>3. i # 1
      BY <1>0, <2>3, <2>5, <3>2
    <3>4. i - 1 \in DOMAIN taskQueue' /\ (i - 1) + 1 = i
      BY <2>2, <3>3
    <3> QED
      BY <2>2, <3>2, <3>4
  <2>9. AcceptedAhead'
    <3>1. \A i, j \in DOMAIN taskQueue' :
              taskQueue'[i] = 0 /\ taskQueue'[j] \in accepted => j < i
      BY <2>2
    <3>2. (\E u \in Workers : wPc'[u] = "exited") =>
              \A j \in DOMAIN taskQueue' : taskQueue'[j] \notin accepted
      <4>1. CASE taskQueue[1] = 0
        BY <2>2, <2>5, <4>1
      <4>2. CASE taskQueue[1] # 0
        BY <1>0, <2>1, <2>2, <4>2
      <4> QED
        BY <4>1, <4>2
    <3>3. mainPc = "running" => /\ \A u \in Workers : wPc'[u] # "exited"
                                /\ \A i \in DOMAIN taskQueue' : taskQueue'[i] # 0
      BY <1>0, <2>1, <2>2, <2>5
    <3> QED
      BY <2>1, <3>1, <3>2, <3>3
  <2> QED
    BY <2>6, <2>7, <2>8, <2>9
<1>2. CASE SetBusy(t) \/ BeginTransfer(t) \/ ReadCallback(t) \/ EndTransfer(t) \/ FailTransfer(t)
  <2>1. /\ wPc[t] \in {"got", "run", "perform"}
        /\ \E l \in {"run", "perform", "delete"} : wPc' = [wPc EXCEPT ![t] = l]
        /\ UNCHANGED <<taskQueue, task, deleted, mqttPc, numTasks, mainPc, accepted>>
    BY <1>2 DEF SetBusy, BeginTransfer, ReadCallback, EndTransfer, FailTransfer, WGoto, caller,
                destructor
  <2>2. Held' = Held /\ \A u \in Workers : wPc'[u] = "exited" <=> wPc[u] = "exited"
    BY <1>0, <2>1 DEF Held
  <2> QED
    BY <2>1, <2>2
<1>3. CASE DeleteTask(t)
  <2>1. /\ wPc[t] = "delete" /\ wPc' = [wPc EXCEPT ![t] = "clear"]
        /\ deleted' = deleted \cup {task[t]}
        /\ UNCHANGED <<taskQueue, task, mqttPc, numTasks, mainPc, accepted>>
    BY <1>3 DEF DeleteTask, WGoto, caller, destructor
  <2>2. /\ Held' = Held \ {t} /\ t \in Held
        /\ \A u \in Workers : wPc'[u] = "exited" <=> wPc[u] = "exited"
    BY <1>0, <2>1 DEF Held
  <2> QED
    BY <2>1, <2>2
<1>4. CASE ClearBusy(t)
  <2>1. /\ wPc[t] = "clear" /\ wPc' = [wPc EXCEPT ![t] = "pop"] /\ task' = [task EXCEPT ![t] = 0]
        /\ UNCHANGED <<taskQueue, deleted, mqttPc, numTasks, mainPc, accepted>>
    BY <1>4 DEF ClearBusy, WGoto, caller, destructor
  <2>2. /\ Held' = Held /\ t \notin Held /\ Held \subseteq Workers
        /\ \A u \in Workers : wPc'[u] = "exited" <=> wPc[u] = "exited"
    BY <1>0, <2>1 DEF Held
  <2>3. \A u \in Held : task'[u] = task[u]
    BY <1>0, <2>1, <2>2
  <2> QED
    BY <2>1, <2>2, <2>3
<1> QED
  BY <1>1, <1>2, <1>3, <1>4 DEF Work

-----------------------------------------------------------------------------
(* One null for each thread.                                               *)

Nulls(q) == {j \in 1 .. Len(q) : q[j] = NullTask}

LEMMA NullsFinite ==
    ASSUME NEW S, NEW q \in Seq(S)
    PROVE  IsFiniteSet(Nulls(q)) /\ Cardinality(Nulls(q)) \in Nat
<1>1. IsFiniteSet(1 .. Len(q)) /\ Nulls(q) \in SUBSET (1 .. Len(q))
  BY FS_Interval DEF Nulls
<1> QED
  BY <1>1, FS_Subset, FS_CardinalityType

\* push adds a null if it pushes one.
LEMMA NullPushed ==
    ASSUME NEW S, NEW q \in Seq(S), NEW k \in S
    PROVE  Cardinality(Nulls(Append(q, k))) =
               Cardinality(Nulls(q)) + (IF k = NullTask THEN 1 ELSE 0)
<1>1. Nulls(Append(q, k)) = IF k = NullTask THEN Nulls(q) \cup {Len(q) + 1} ELSE Nulls(q)
  BY PushExtends DEF Nulls
<1>2. Len(q) + 1 \notin Nulls(q)
  BY DEF Nulls
<1>3. IsFiniteSet(Nulls(q)) /\ Cardinality(Nulls(q)) \in Nat
  BY NullsFinite
<1>4. Cardinality(Nulls(q) \cup {Len(q) + 1}) = Cardinality(Nulls(q)) + 1
  BY <1>2, <1>3, FS_AddElement
<1> QED
  BY <1>1, <1>3, <1>4

\* pop_front takes one away if a null is the first.
LEMMA NullPopped ==
    ASSUME NEW S, NEW q \in Seq(S), q # <<>>
    PROVE  Cardinality(Nulls(q)) =
               Cardinality(Nulls(Tail(q))) + (IF Head(q) = NullTask THEN 1 ELSE 0)
<1> DEFINE A == Nulls(Tail(q))
           B == Nulls(q) \ {1}
           f == [j \in A |-> j + 1]
<1>1. IsFiniteSet(A) /\ IsFiniteSet(Nulls(q)) /\ Cardinality(A) \in Nat
  BY NullsFinite, PopShifts
<1>2. \A j \in A : j \in Nat /\ j + 1 \in B
  BY PopShifts DEF Nulls
<1>3. \A i \in B : i - 1 \in A /\ (i - 1) + 1 = i
  BY PopShifts DEF Nulls
<1>4. f \in Injection(A, B)
  BY <1>2 DEF Injection, IsInjective
<1>5. f \in Surjection(A, B)
  BY <1>2, <1>3 DEF Surjection
<1>6. ExistsBijection(A, B)
  BY <1>4, <1>5 DEF ExistsBijection, Bijection
<1>7. Cardinality(B) = Cardinality(A)
  BY <1>1, <1>6, FS_Bijection
<1>8. 1 \in Nulls(q) <=> Head(q) = NullTask
  BY PopShifts DEF Nulls
<1>9. Cardinality(B) = IF 1 \in Nulls(q) THEN Cardinality(Nulls(q)) - 1 ELSE Cardinality(Nulls(q))
  BY <1>1, FS_RemoveElement
<1> QED
  BY <1>1, <1>7, <1>8, <1>9, NullsFinite

ExitedThreads == {t \in Workers : wPc[t] = "exited"}

LEMMA ExitedFinite ==
    IsFiniteSet(ExitedThreads) /\ Cardinality(ExitedThreads) \in 0 .. PoolSize
<1>1. IsFiniteSet(Workers) /\ Cardinality(Workers) = PoolSize
  BY PoolAssumption, FS_Interval DEF Workers
<1> QED
  BY <1>1, PoolAssumption, FS_Subset, FS_CardinalityType DEF ExitedThreads

LEMMA NullsAre ==
    /\ Queued(NullTask) = Cardinality(Nulls(taskQueue)) /\ Exited = Cardinality(ExitedThreads)
    /\ Queued(NullTask)' = Cardinality(Nulls(taskQueue'))
    /\ Exited' = Cardinality(ExitedThreads')
  BY DEF Queued, Nulls, Exited, ExitedThreads

\* Every null pushed ends one thread.
LEMMA NullsKept ==
    ASSUME IInv, [Next]_vars PROVE NullPerThread'
<1> USE PoolAssumption DEF IInv, NullPerThread, NullTask
<1>0. taskQueue \in Seq(0 .. MaxTasks) /\ DOMAIN wPc = Workers /\ count \in 0 .. PoolSize
  BY DEF TypeOK
<1>1. Cardinality(Nulls(taskQueue)) \in Nat /\ Cardinality(ExitedThreads) \in Nat /\ NullsOwed \in Nat
  BY <1>0, NullsFinite, ExitedFinite DEF NullsOwed
<1>2. CASE PushNulls
  <2>1. taskQueue' = Append(taskQueue, 0) /\ ExitedThreads' = ExitedThreads
    BY <1>2 DEF PushNulls, Push, ExitedThreads, workers
  <2>2. NullsOwed' = NullsOwed - 1
    BY <1>0, <1>2 DEF PushNulls, MainGoto, NullsOwed, LoopShape
  <2>3. Cardinality(Nulls(taskQueue')) = Cardinality(Nulls(taskQueue)) + 1
    BY <1>0, <2>1, NullPushed
  <2> QED
    BY <1>1, <2>1, <2>2, <2>3, NullsAre
<1>3. CASE AddTask
  <2>1. taskQueue' = Append(taskQueue, numTasks) /\ ExitedThreads' = ExitedThreads
    BY <1>3 DEF AddTask, Push, ExitedThreads, workers
  <2>2. NullsOwed' = NullsOwed
    BY <1>3 DEF AddTask, destructor, NullsOwed
  <2>3. numTasks \in 0 .. MaxTasks /\ numTasks # 0
    BY <1>3 DEF AddTask, TypeOK, Owned, HeldOnce
  <2>5. Cardinality(Nulls(Append(taskQueue, numTasks))) = Cardinality(Nulls(taskQueue)) + 0
    BY <1>0, <2>3, NullPushed
  <2>4. Cardinality(Nulls(taskQueue')) = Cardinality(Nulls(taskQueue))
    BY <1>1, <2>1, <2>5
  <2> QED
    BY <1>1, <2>1, <2>2, <2>4, NullsAre
<1>4. CASE \E t \in Workers : PopTask(t)
  <2>1. PICK t \in Workers : PopTask(t)
    BY <1>4
  <2>2. NullsOwed' = NullsOwed /\ taskQueue # <<>> /\ taskQueue' = Tail(taskQueue)
    BY <2>1 DEF PopTask, destructor, NullsOwed
  <2>3. /\ t \notin ExitedThreads
        /\ ExitedThreads' = IF Head(taskQueue) = 0 THEN ExitedThreads \cup {t} ELSE ExitedThreads
    BY <1>0, <2>1 DEF PopTask, WGoto, ExitedThreads
  <2>4. Cardinality(ExitedThreads') =
            Cardinality(ExitedThreads) + (IF Head(taskQueue) = 0 THEN 1 ELSE 0)
    <3>1. Cardinality(ExitedThreads \cup {t}) = Cardinality(ExitedThreads) + 1
      BY <2>3, ExitedFinite, FS_AddElement
    <3> QED
      BY <1>1, <2>3, <3>1
  <2>5. Cardinality(Nulls(taskQueue)) =
            Cardinality(Nulls(taskQueue')) + (IF Head(taskQueue) = 0 THEN 1 ELSE 0)
    BY <1>0, <2>2, NullPopped
  <2>6. Cardinality(Nulls(taskQueue')) \in Nat
    BY <1>0, <2>2, NullsFinite, PopShifts
  <2> QED
    BY <1>1, <2>2, <2>4, <2>5, <2>6, NullsAre
<1>5. CASE \/ Upload \/ CurlCleanup \/ Join \/ Recording \/ UNCHANGED vars
           \/ \E t \in Workers : \/ SetBusy(t) \/ BeginTransfer(t) \/ ReadCallback(t)
                                 \/ EndTransfer(t) \/ FailTransfer(t) \/ DeleteTask(t)
                                 \/ ClearBusy(t)
  <2>1. taskQueue' = taskQueue
    BY <1>5 DEF Upload, CurlCleanup, Join, Recording, vars, SetBusy, BeginTransfer, ReadCallback,
                EndTransfer, FailTransfer, DeleteTask, ClearBusy
  <2>2. NullsOwed' = NullsOwed
    <3>1. CASE CurlCleanup
      BY <3>1 DEF CurlCleanup, MainGoto, NullsOwed, LoopShape
    <3>2. CASE Join
      BY <3>2 DEF Join, MainGoto, NullsOwed
    <3>3. CASE UNCHANGED destructor
      BY <3>3 DEF destructor, NullsOwed
    <3> QED
      BY <1>5, <3>1, <3>2, <3>3
         DEF Upload, Recording, vars, SetBusy, BeginTransfer, ReadCallback, EndTransfer,
             FailTransfer, DeleteTask, ClearBusy
  <2>3. ExitedThreads' = ExitedThreads
    <3>1. CASE \/ Upload \/ CurlCleanup \/ Join \/ Recording \/ UNCHANGED vars
      BY <3>1 DEF Upload, CurlCleanup, Join, Recording, vars, workers, ExitedThreads
    <3>2. ASSUME NEW t \in Workers,
                 \/ SetBusy(t) \/ BeginTransfer(t) \/ ReadCallback(t) \/ EndTransfer(t)
                 \/ FailTransfer(t) \/ DeleteTask(t) \/ ClearBusy(t)
          PROVE  ExitedThreads' = ExitedThreads
      <4>1. \E l \in {"run", "perform", "delete", "clear", "pop"} :
                wPc[t] # "exited" /\ wPc' = [wPc EXCEPT ![t] = l]
        BY <3>2 DEF SetBusy, BeginTransfer, ReadCallback, EndTransfer, FailTransfer, DeleteTask,
                    ClearBusy, WGoto
      <4> QED
        BY <1>0, <4>1 DEF ExitedThreads
    <3> QED
      BY <1>5, <3>1, <3>2
  <2> QED
    BY <2>1, <2>2, <2>3, NullsAre
<1> QED
  BY <1>2, <1>3, <1>4, <1>5 DEF Next, Destroy, Work

-----------------------------------------------------------------------------
\* Nothing changes, nothing breaks.
LEMMA StutterInv ==
    ASSUME IInv, UNCHANGED vars PROVE TypeOK' /\ LoopShape' /\ Owned'
<1> USE DEF vars, workers, caller, destructor
<1>1. TypeOK' /\ LoopShape'
  BY DEF IInv, TypeOK, LoopShape
<1>2. Held' = Held
  BY DEF Held
<1>3. Owned'
  BY <1>2 DEF IInv, Owned, QueuedOnce, HeldOnce, NoneLost, AcceptedAhead
<1> QED
  BY <1>1, <1>3

LEMMA NextInv == IInv /\ [Next]_vars => IInv'
<1> SUFFICES ASSUME IInv, [Next]_vars PROVE IInv'
  OBVIOUS
<1>1. NullPerThread'
  BY NullsKept
<1>2. TypeOK' /\ LoopShape' /\ Owned'
  <2>1. CASE UNCHANGED vars
    BY <2>1, StutterInv
  <2>2. CASE Upload \/ AddTask \/ CurlCleanup \/ Destroy \/ Recording
    BY <2>2, CallerTypes, CallerOwned DEF IInv
  <2>3. CASE \E t \in Workers : Work(t) \/ ReadCallback(t) \/ FailTransfer(t)
    BY <2>3, WorkerTypes, WorkerOwned DEF IInv, Owned
  <2> QED
    BY <2>1, <2>2, <2>3 DEF Next
<1> QED
  BY <1>1, <1>2 DEF IInv

LEMMA InvHolds == SafeSpec => []IInv
  BY InitInv, NextInv, PTL DEF SafeSpec

\* A transfer never reads past its window, and every variable keeps its type.
THEOREM PoolTypes == Spec => []TypeOK
<1>1. IInv => TypeOK
  BY DEF IInv
<1> QED
  BY <1>1, InvHolds, PTL DEF Spec

\* The nulls of ~ThreadPool are one for each PoolThread, whatever the MQTT thread queues.
THEOREM OneNullEach == Spec => []NullPerThread
<1>1. IInv => NullPerThread
  BY DEF IInv
<1> QED
  BY <1>1, InvHolds, PTL DEF Spec

LEMMA OwnedGivesOneOwner ==
    ASSUME IInv PROVE OneOwner
<1> SUFFICES ASSUME NEW k \in 1 .. numTasks
             PROVE  Cardinality(Holders(k)) = IF k \in deleted THEN 0 ELSE 1
  BY DEF OneOwner
<1> DEFINE Q == {<<"queue", i>> : i \in {j \in 1 .. Len(taskQueue) : taskQueue[j] = k}}
           H == {<<"worker", t>> : t \in {w \in Held : task[w] = k}}
           C == {<<"caller", 0>> : x \in {y \in {0} : mqttPc = "add" /\ numTasks = k}}
<1> USE DEF IInv, Owned
<1>0. /\ DOMAIN taskQueue = 1 .. Len(taskQueue) /\ k # NullTask /\ numTasks \in Nat
      /\ \A i \in DOMAIN taskQueue : taskQueue[i] \in Nat
  BY PlaceHolds, PoolAssumption DEF TypeOK, NullTask
<1>1. Holders(k) = Q \cup H \cup C
  BY DEF Holders
<1>2. \A i, j \in DOMAIN taskQueue : taskQueue[i] = k /\ taskQueue[j] = k => i = j
  <2> SUFFICES ASSUME NEW i \in DOMAIN taskQueue, NEW j \in DOMAIN taskQueue,
                      taskQueue[i] = k, taskQueue[j] = k, i # j
               PROVE  FALSE
    OBVIOUS
  <2>1. i < j \/ j < i
    BY <1>0
  <2> QED
    BY <1>0, <2>1 DEF QueuedOnce
<1>3. CASE k \in deleted
  <2>1. Q = {} /\ H = {} /\ C = {}
    BY <1>0, <1>3 DEF QueuedOnce, HeldOnce
  <2> QED
    BY <1>1, <1>3, <2>1, FS_EmptySet
<1>4. CASE k \notin deleted
  <2>1. \E x : Holders(k) = {x}
    <3>1. CASE \E i \in DOMAIN taskQueue : taskQueue[i] = k
      <4>1. PICK i \in DOMAIN taskQueue : taskQueue[i] = k
        BY <3>1
      <4>2. Q = {<<"queue", i>>}
        BY <1>0, <1>2, <4>1
      <4>3. H = {} /\ C = {}
        BY <1>0, <4>1 DEF QueuedOnce
      <4> QED
        BY <1>1, <4>2, <4>3
    <3>2. CASE \E t \in Held : task[t] = k
      <4>1. PICK t \in Held : task[t] = k
        BY <3>2
      <4>2. H = {<<"worker", t>>}
        BY <4>1 DEF HeldOnce
      <4>3. Q = {} /\ C = {}
        BY <1>0, <4>1 DEF QueuedOnce, HeldOnce
      <4> QED
        BY <1>1, <4>2, <4>3
    <3>3. CASE mqttPc = "add" /\ k = numTasks
      <4>1. C = {<<"caller", 0>>}
        BY <3>3
      <4>2. Q = {} /\ H = {}
        BY <1>0, <3>3 DEF QueuedOnce, HeldOnce
      <4> QED
        BY <1>1, <4>1, <4>2
    <3> QED
      BY <1>4, <3>1, <3>2, <3>3 DEF NoneLost
  <2> QED
    BY <1>4, <2>1, FS_Singleton
<1> QED
  BY <1>3, <1>4

\* A task is in one place until UploadTask::Run deletes it.
THEOREM TaskHasOneOwner == Spec => []OneOwner
<1>1. IInv => OneOwner
  BY OwnedGivesOneOwner
<1> QED
  BY <1>1, InvHolds, PTL DEF Spec

LEMMA OwnedGivesRun ==
    ASSUME IInv, mainPc = "gone"
    PROVE  accepted \subseteq deleted /\ \A t \in Workers : wPc[t] = "exited"
<1> USE DEF IInv, Owned
<1>1. \A t \in Workers : wPc[t] = "exited"
  BY DEF LoopShape
<1>2. 1 \in Workers
  BY PoolAssumption DEF Workers
<1>3. Held = {}
  BY <1>1 DEF Held
<1>4. ASSUME NEW k \in accepted PROVE k \in deleted
  <2>1. k \in 1 .. numTasks
    BY DEF TypeOK
  <2>2. \A i \in DOMAIN taskQueue : taskQueue[i] # k
    BY <1>1, <1>2 DEF AcceptedAhead
  <2> QED
    BY <1>3, <2>1, <2>2 DEF NoneLost, AcceptedAhead
<1> QED
  BY <1>1, <1>4

\* When ~HTTPClient and ~ThreadPool return, every upload accepted before has been run.
THEOREM AcceptedUploadsRun == Spec => []AcceptedAreRun
<1>1. IInv => AcceptedAreRun
  BY OwnedGivesRun DEF AcceptedAreRun
<1> QED
  BY <1>1, InvHolds, PTL DEF Spec

-----------------------------------------------------------------------------
(* push, pop_front and the join never wait for each other.                 *)

LEMMA AllEnded ==
    ASSUME Cardinality(ExitedThreads) = PoolSize PROVE \A t \in Workers : wPc[t] = "exited"
<1>1. IsFiniteSet(Workers) /\ Cardinality(Workers) = PoolSize
  BY PoolAssumption, FS_Interval DEF Workers
<1>2. ExitedThreads \in SUBSET Workers
  BY DEF ExitedThreads
<1>3. ExitedThreads = Workers
  BY <1>1, <1>2, FS_Subset
<1> QED
  BY <1>3 DEF ExitedThreads

\* While a null is owed a thread is left to take from the queue; once the last is pushed,
\* an empty queue means that every thread has taken its own.
LEMMA NeverStuck == IInv => PoolNeverStuck
<1> SUFFICES ASSUME IInv PROVE PoolNeverStuck
  OBVIOUS
<1> USE PoolAssumption DEF IInv, NullTask
<1>1. taskQueue \in Seq(0 .. MaxTasks) /\ count \in 0 .. PoolSize
  BY DEF TypeOK
<1>2. /\ Cardinality(Nulls(taskQueue)) \in Nat /\ Cardinality(ExitedThreads) \in 0 .. PoolSize
      /\ Cardinality(Nulls(taskQueue)) + Cardinality(ExitedThreads) + NullsOwed = PoolSize
  BY <1>1, NullsFinite, ExitedFinite, NullsAre DEF NullPerThread
<1>3. ASSUME mainPc \in {"running", "pushNulls"}, ~(Len(taskQueue) < Capacity)
      PROVE  \E t \in Workers : CanGoOn(t)
  <2>1. taskQueue # <<>>
    BY <1>1, <1>3 DEF Capacity
  <2>2. NullsOwed > 0
    BY <1>1, <1>3 DEF NullsOwed, LoopShape
  <2>3. Cardinality(ExitedThreads) # PoolSize
    BY <1>2, <1>1, <2>2 DEF NullsOwed
  <2>4. ExitedThreads # Workers
    BY <2>3, FS_Interval DEF Workers
  <2>5. PICK t \in Workers : wPc[t] # "exited"
    BY <2>4 DEF ExitedThreads
  <2> QED
    BY <2>1, <2>5 DEF CanGoOn
<1>4. ASSUME mainPc = "join", wPc[count + 1] # "exited"
      PROVE  CanGoOn(count + 1)
  <2>1. count + 1 \in Workers /\ NullsOwed = 0
    BY <1>1, <1>4 DEF LoopShape, Workers, NullsOwed
  <2>2. ASSUME taskQueue = <<>> PROVE FALSE
    <3>1. Nulls(taskQueue) = {}
      BY <2>2 DEF Nulls
    <3>2. Cardinality(ExitedThreads) = PoolSize
      BY <1>2, <2>1, <3>1, FS_EmptySet
    <3> QED
      BY <1>4, <2>1, <3>2, AllEnded
  <2> QED
    BY <1>4, <2>2 DEF CanGoOn
<1> QED
  BY <1>3, <1>4 DEF PoolNeverStuck

\* Whoever waits in addTask or in ~ThreadPool has what it waits for, or a PoolThread that
\* can go on to make it: a pool of any size never stands still.
THEOREM PoolIsNeverStuck == Spec => []PoolNeverStuck
  BY NeverStuck, InvHolds, PTL DEF Spec

-----------------------------------------------------------------------------
(* UploadService.                                                          *)

\* A thread that pops a task finds fewer than PoolSize running.
LEMMA RoomToRun ==
    ASSUME TypeOK, NEW t \in Workers, t \notin Held
    PROVE  Cardinality({task[w] : w \in Held}) < PoolSize
<1> DEFINE R == {task[w] : w \in Held}
           f == [w \in Held |-> task[w]]
<1>1. IsFiniteSet(Workers) /\ Cardinality(Workers) = PoolSize
  BY PoolAssumption, FS_Interval DEF Workers
<1>2. /\ IsFiniteSet(Workers \ {t}) /\ Cardinality(Workers \ {t}) = PoolSize - 1
  BY <1>1, FS_RemoveElement
<1>3. Held \in SUBSET (Workers \ {t})
  BY DEF Held
<1>4. IsFiniteSet(Held) /\ Cardinality(Held) <= PoolSize - 1 /\ Cardinality(Held) \in Nat
  BY <1>2, <1>3, FS_Subset, FS_CardinalityType
<1>5. f \in Surjection(Held, R)
  BY DEF Surjection
<1>6. IsFiniteSet(R) /\ Cardinality(R) <= Cardinality(Held)
  BY <1>4, <1>5, FS_Surjection
<1> QED
  BY <1>4, <1>6, FS_CardinalityType, PoolAssumption

Waiting == {taskQueue[i] : i \in Ahead} \ {NullTask}
Running == {task[w] : w \in Held}

LEMMA PoolStarts == Init => Service!Init
  BY DEF Init, Service!Init, Ahead, Held

\* addTask accepts, unless the last null is in the queue already: then nothing happens.
LEMMA AddTaskAccepts ==
    ASSUME IInv, AddTask PROVE [Service!Next]_(Service!service)
<1> USE PoolAssumption DEF IInv, Owned, NullTask
<1>1. /\ taskQueue' = Append(taskQueue, numTasks) /\ mqttPc = "add"
      /\ UNCHANGED <<task, wPc, deleted, mainPc, count>>
  BY DEF AddTask, Push, workers, destructor
<1>2. numTasks \in 1 .. MaxTasks /\ taskQueue \in Seq(0 .. MaxTasks)
  BY <1>1 DEF TypeOK, HeldOnce
<1>3. /\ DOMAIN taskQueue = 1 .. Len(taskQueue) /\ DOMAIN taskQueue' = 1 .. Len(taskQueue) + 1
      /\ \A i \in DOMAIN taskQueue : taskQueue'[i] = taskQueue[i] /\ taskQueue[i] \in 0 .. MaxTasks
      /\ taskQueue'[Len(taskQueue) + 1] = numTasks /\ Len(taskQueue) \in Nat
  BY <1>1, <1>2, PushExtends, PlaceHolds
<1>4. Running' = Running /\ NullsOwed' = NullsOwed
  BY <1>1 DEF Running, Held, NullsOwed
<1>5. CASE NullsOwed > 0
  <2>1. Ahead = 1 .. Len(taskQueue) /\ Ahead' = 1 .. Len(taskQueue) + 1
    BY <1>3, <1>4, <1>5 DEF Ahead
  <2>2. Waiting' = Waiting \cup {numTasks}
    <3>1. {taskQueue'[i] : i \in Ahead'} = {taskQueue[i] : i \in Ahead} \cup {numTasks}
      BY <1>3, <2>1
    <3>2. numTasks # 0
      BY <1>2
    <3>3. Waiting = {taskQueue[i] : i \in Ahead} \ {0} /\ Waiting' = {taskQueue'[i] : i \in Ahead'} \ {0}
      BY DEF Waiting
    <3> QED
      BY <3>1, <3>2, <3>3
  <2>3. \A j \in Waiting \cup Running \cup deleted : j < numTasks
    <3>1. ASSUME NEW j \in Waiting PROVE j < numTasks
      BY <1>1, <1>2, <1>3, <2>1 DEF Waiting, QueuedOnce
    <3>2. ASSUME NEW j \in Running PROVE j < numTasks
      BY <1>1, <1>2 DEF Running, HeldOnce
    <3>3. ASSUME NEW j \in deleted PROVE j < numTasks
      BY <1>1, <1>2, <3>3 DEF TypeOK, HeldOnce
    <3> QED
      BY <3>1, <3>2, <3>3
  <2>4. PICK k \in 1 .. MaxTasks : k = numTasks
    BY <1>2
  <2>6. Service!Accept(k)
    BY <1>1, <1>4, <2>2, <2>3, <2>4 DEF Service!Accept, Waiting, Running
  <2>5. Service!Next
    BY <2>6 DEF Service!Next
  <2> QED
    BY <2>5
<1>6. CASE ~(NullsOwed > 0)
  <2>1. Ahead' = Ahead
    <3>1. ASSUME NEW i \in Ahead' PROVE i \in Ahead
      BY <1>2, <1>3, <1>4, <1>6 DEF Ahead
    <3>2. ASSUME NEW i \in Ahead PROVE i \in Ahead'
      BY <1>3, <1>4, <1>6 DEF Ahead
    <3> QED
      BY <3>1, <3>2
  <2>2. \A i \in Ahead : taskQueue'[i] = taskQueue[i]
    BY <1>3 DEF Ahead
  <2>3. Waiting' = Waiting
    BY <2>1, <2>2 DEF Waiting
  <2> QED
    BY <1>1, <1>4, <2>3 DEF Service!service, Waiting, Running
<1> QED
  BY <1>5, <1>6

\* A null changes nothing, nor do the other steps of the destructors and of upload.
LEMMA CallerStutters ==
    ASSUME IInv, Upload \/ CurlCleanup \/ Destroy \/ Recording \/ UNCHANGED vars
    PROVE  UNCHANGED Service!service
<1> USE PoolAssumption DEF IInv, NullTask
<1>1. UNCHANGED <<task, wPc, deleted>>
  BY DEF Upload, CurlCleanup, Destroy, PushNulls, Join, Recording, vars, workers
<1>2. Running' = Running
  BY <1>1 DEF Running, Held
<1>3. CASE PushNulls
  <2>1. taskQueue \in Seq(0 .. MaxTasks) /\ taskQueue' = Append(taskQueue, 0) /\ NullsOwed > 0
    BY <1>3 DEF PushNulls, MainGoto, Push, TypeOK, NullsOwed, LoopShape
  <2>2. /\ DOMAIN taskQueue = 1 .. Len(taskQueue) /\ DOMAIN taskQueue' = 1 .. Len(taskQueue) + 1
        /\ \A i \in DOMAIN taskQueue : taskQueue'[i] = taskQueue[i]
        /\ taskQueue'[Len(taskQueue) + 1] = 0 /\ Len(taskQueue) \in Nat
    BY <2>1, PushExtends
  <2>3. Ahead = DOMAIN taskQueue /\ DOMAIN taskQueue \subseteq Ahead' /\ Ahead' \subseteq DOMAIN taskQueue'
    BY <2>1, <2>2 DEF Ahead
  <2>4. Waiting' = Waiting
    BY <2>2, <2>3 DEF Waiting
  <2> QED
    BY <1>1, <1>2, <2>4 DEF Service!service, Waiting, Running
<1>4. CASE Upload \/ CurlCleanup \/ Join \/ Recording \/ UNCHANGED vars
  <2>1. taskQueue' = taskQueue
    BY <1>4 DEF Upload, CurlCleanup, Join, Recording, vars
  <2>2. NullsOwed' = NullsOwed
    <3>1. CASE CurlCleanup
      BY <3>1 DEF CurlCleanup, MainGoto, NullsOwed, LoopShape
    <3>2. CASE Join
      BY <3>2 DEF Join, MainGoto, NullsOwed
    <3>3. CASE UNCHANGED destructor
      BY <3>3 DEF destructor, NullsOwed
    <3> QED
      BY <1>4, <3>1, <3>2, <3>3 DEF Upload, Recording, vars
  <2> QED
    BY <1>1, <1>2, <2>1, <2>2 DEF Ahead, Service!service, Running
<1> QED
  BY <1>3, <1>4 DEF Destroy

\* A thread that takes an upload begins the first that waits; a null changes nothing.
LEMMA PopTaskBegins ==
    ASSUME IInv, NEW t \in Workers, PopTask(t) PROVE [Service!Next]_(Service!service)
<1> USE PoolAssumption DEF IInv, Owned, NullTask
<1>1. /\ wPc[t] = "pop" /\ taskQueue # <<>> /\ taskQueue' = Tail(taskQueue)
      /\ task' = [task EXCEPT ![t] = taskQueue[1]]
      /\ wPc' = [wPc EXCEPT ![t] = IF taskQueue[1] = 0 THEN "exited" ELSE "got"]
      /\ UNCHANGED <<deleted, mainPc, count>>
  BY PopShifts DEF PopTask, WGoto, destructor, TypeOK
<1>2. /\ DOMAIN taskQueue = 1 .. Len(taskQueue) /\ DOMAIN taskQueue' = 1 .. Len(taskQueue) - 1
      /\ \A i \in DOMAIN taskQueue' : taskQueue'[i] = taskQueue[i + 1]
      /\ Len(taskQueue) \in Nat \ {0}
  BY <1>1, PopShifts DEF TypeOK
<1>3. /\ \A i \in DOMAIN taskQueue : taskQueue[i] \in 0 .. MaxTasks
      /\ task \in [Workers -> 0 .. MaxTasks] /\ DOMAIN wPc = Workers
  BY PlaceHolds DEF TypeOK
<1>4. NullsOwed' = NullsOwed /\ NullsOwed \in Nat
  BY <1>1 DEF NullsOwed, TypeOK
<1>5. /\ t \notin Held /\ Held \subseteq Workers
      /\ Held' = IF taskQueue[1] = 0 THEN Held ELSE Held \cup {t}
      /\ task'[t] = taskQueue[1] /\ \A u \in Held : task'[u] = task[u]
  BY <1>1, <1>3 DEF Held
<1>6. /\ \A i \in Ahead' : i + 1 \in Ahead
      /\ \A i \in Ahead : i # 1 => i - 1 \in Ahead'
  <2>1. ASSUME NEW i \in Ahead' PROVE i + 1 \in Ahead
    <3>1. i \in DOMAIN taskQueue' /\ i + 1 \in DOMAIN taskQueue
      BY <1>2 DEF Ahead
    <3>2. CASE NullsOwed > 0
      BY <3>1, <3>2 DEF Ahead
    <3>3. CASE ~(NullsOwed > 0)
      <4>1. PICK j \in DOMAIN taskQueue' : j > i /\ taskQueue'[j] = 0
        BY <1>4, <3>3 DEF Ahead
      <4>2. j + 1 \in DOMAIN taskQueue /\ j + 1 > i + 1 /\ taskQueue[j + 1] = 0
        BY <1>2, <3>1, <4>1
      <4> QED
        BY <3>1, <4>2 DEF Ahead
    <3> QED
      BY <3>2, <3>3
  <2>2. ASSUME NEW i \in Ahead, i # 1 PROVE i - 1 \in Ahead'
    <3>1. i \in DOMAIN taskQueue /\ i - 1 \in DOMAIN taskQueue'
      BY <1>2, <2>2 DEF Ahead
    <3>2. CASE NullsOwed > 0
      BY <1>4, <3>1, <3>2 DEF Ahead
    <3>3. CASE ~(NullsOwed > 0)
      <4>1. PICK j \in DOMAIN taskQueue : j > i /\ taskQueue[j] = 0
        BY <3>3 DEF Ahead
      <4>2. j - 1 \in DOMAIN taskQueue' /\ j - 1 > i - 1 /\ taskQueue'[j - 1] = 0
        BY <1>2, <3>1, <4>1
      <4> QED
        BY <3>1, <4>2 DEF Ahead
    <3> QED
      BY <3>2, <3>3
  <2> QED
    BY <2>1, <2>2
<1>7. /\ \A i \in Ahead' : i \in DOMAIN taskQueue' /\ taskQueue'[i] = taskQueue[i + 1]
      /\ \A i \in Ahead : i \in DOMAIN taskQueue /\ (i # 1 => taskQueue'[i - 1] = taskQueue[i])
  <2>1. \A i \in Ahead' : i \in DOMAIN taskQueue' /\ taskQueue'[i] = taskQueue[i + 1]
    BY <1>2 DEF Ahead
  <2>2. \A i \in Ahead : i \in DOMAIN taskQueue
    BY DEF Ahead
  <2>3. ASSUME NEW i \in Ahead, i # 1 PROVE taskQueue'[i - 1] = taskQueue[i]
    <3>1. i \in 1 .. Len(taskQueue) /\ i - 1 \in DOMAIN taskQueue' /\ (i - 1) + 1 = i
      BY <1>2, <2>2, <2>3
    <3> QED
      BY <1>2, <3>1
  <2> QED
    BY <2>1, <2>2, <2>3
<1>8. Waiting' = {taskQueue[i] : i \in Ahead \ {1}} \ {0}
  <2>1. \A x \in Waiting' : x \in {taskQueue[i] : i \in Ahead \ {1}} \ {0}
    <3> SUFFICES ASSUME NEW i \in Ahead', taskQueue'[i] # 0
                 PROVE  \E j \in Ahead \ {1} : taskQueue'[i] = taskQueue[j]
      BY DEF Waiting
    <3>1. i + 1 # 1
      BY <1>2, <1>7
    <3> QED
      BY <1>6, <1>7, <3>1
  <2>2. \A i \in Ahead \ {1} : taskQueue[i] # 0 => taskQueue[i] \in Waiting'
    BY <1>6, <1>7 DEF Waiting
  <2> QED
    BY <2>1, <2>2
<1>9. CASE taskQueue[1] = 0
  <2>1. Waiting' = Waiting
    BY <1>8, <1>9 DEF Waiting
  <2>2. Running' = Running
    BY <1>5, <1>9 DEF Running
  <2> QED
    BY <1>1, <2>1, <2>2 DEF Service!service, Waiting, Running
<1>10. CASE taskQueue[1] # 0
  <2>1. 1 \in Ahead
    <3>1. CASE NullsOwed > 0
      BY <1>2, <3>1 DEF Ahead
    <3>2. CASE NullsOwed = 0
      <4>1. t \notin ExitedThreads /\ IsFiniteSet(ExitedThreads \cup {t})
            /\ ExitedThreads \cup {t} \subseteq Workers
        BY <1>1, ExitedFinite, FS_AddElement DEF ExitedThreads
      <4>2. Cardinality(ExitedThreads) + 1 <= PoolSize
        <5>1. Cardinality(ExitedThreads \cup {t}) = Cardinality(ExitedThreads) + 1
          BY <4>1, ExitedFinite, FS_AddElement
        <5>2. IsFiniteSet(Workers) /\ Cardinality(Workers) = PoolSize
          BY FS_Interval DEF Workers
        <5>3. Cardinality(ExitedThreads \cup {t}) <= Cardinality(Workers)
          BY <4>1, <5>2, FS_Subset
        <5> QED
          BY <5>1, <5>2, <5>3
      <4>3. taskQueue \in Seq(0 .. MaxTasks)
        BY DEF TypeOK
      <4>4. Cardinality(Nulls(taskQueue)) # 0
        BY <3>2, <4>2, <4>3, ExitedFinite, NullsAre, NullsFinite DEF NullPerThread
      <4>5. PICK j \in Nulls(taskQueue) : TRUE
        BY <4>4, FS_EmptySet
      <4>6. j \in DOMAIN taskQueue /\ taskQueue[j] = 0 /\ j > 1
        BY <1>2, <1>10, <4>5 DEF Nulls
      <4> QED
        BY <1>2, <4>6 DEF Ahead
    <3> QED
      BY <1>4, <3>1, <3>2
  <2> DEFINE k == taskQueue[1]
  <2>2. k \in Waiting
    BY <1>10, <2>1 DEF Waiting
  <2>3. \A j \in Ahead \ {1} : taskQueue[j] # 0 => k < taskQueue[j]
    BY <1>2, <1>7 DEF QueuedOnce
  <2>4. Waiting' = Waiting \ {k}
    <3>1. \A j \in Ahead \ {1} : taskQueue[j] # 0 => taskQueue[j] # k
      BY <1>3, <1>7, <2>1, <2>3
    <3> QED
      BY <1>8, <3>1 DEF Waiting
  <2>5. \A j \in Waiting : k <= j
    BY <1>3, <1>7, <2>1, <2>3 DEF Waiting
  <2>6. Running' = Running \cup {k}
    BY <1>5, <1>10 DEF Running
  <2>7. Cardinality(Running) < PoolSize
    BY <1>5, RoomToRun DEF Running
  <2>8. PICK l : l = k
    OBVIOUS
  <2>9. \E m \in Waiting : /\ \A j \in Waiting : m <= j
                          /\ Waiting' = Waiting \ {m} /\ Running' = Running \cup {m}
    BY <2>2, <2>4, <2>5, <2>6, <2>8
  <2>11. Service!Cardinality(Running) = Cardinality(Running)
    BY DEF Service!Cardinality, Cardinality
  <2>10. Service!Begin
    BY <1>1, <2>7, <2>9, <2>11 DEF Service!Begin, Waiting, Running
  <2> QED
    BY <2>10 DEF Service!Next
<1> QED
  BY <1>9, <1>10

\* UploadTask's deletion of itself finishes it; the thread's other steps change nothing.
LEMMA WorkFinishes ==
    ASSUME IInv, NEW t \in Workers,
           \/ SetBusy(t) \/ BeginTransfer(t) \/ ReadCallback(t) \/ EndTransfer(t)
           \/ FailTransfer(t) \/ DeleteTask(t) \/ ClearBusy(t)
    PROVE  [Service!Next]_(Service!service)
<1> USE DEF IInv, Owned, NullTask
<1>1. UNCHANGED <<taskQueue, mainPc, count>>
  BY DEF SetBusy, BeginTransfer, ReadCallback, EndTransfer, FailTransfer, DeleteTask, ClearBusy,
         destructor
<1>2. Waiting' = Waiting
  BY <1>1 DEF Waiting, Ahead, NullsOwed
<1>3. DOMAIN wPc = Workers /\ task \in [Workers -> 0 .. MaxTasks]
  BY DEF TypeOK
<1>4. CASE SetBusy(t) \/ BeginTransfer(t) \/ ReadCallback(t) \/ EndTransfer(t) \/ FailTransfer(t)
  <2>1. /\ wPc[t] \in {"got", "run", "perform"} /\ UNCHANGED <<task, deleted>>
        /\ \E l \in {"run", "perform", "delete"} : wPc' = [wPc EXCEPT ![t] = l]
    BY <1>4 DEF SetBusy, BeginTransfer, ReadCallback, EndTransfer, FailTransfer, WGoto
  <2>2. Held' = Held
    BY <1>3, <2>1 DEF Held
  <2> QED
    BY <1>2, <2>1, <2>2 DEF Service!service, Waiting
<1>5. CASE ClearBusy(t)
  <2>1. /\ wPc[t] = "clear" /\ wPc' = [wPc EXCEPT ![t] = "pop"] /\ task' = [task EXCEPT ![t] = 0]
        /\ deleted' = deleted
    BY <1>5 DEF ClearBusy, WGoto
  <2>2. Held' = Held /\ \A u \in Held : task'[u] = task[u]
    BY <1>3, <2>1 DEF Held
  <2>3. Running' = Running
    BY <2>2 DEF Running
  <2> QED
    BY <1>2, <2>1, <2>3 DEF Service!service, Waiting, Running
<1>6. CASE DeleteTask(t)
  <2>1. /\ wPc[t] = "delete" /\ wPc' = [wPc EXCEPT ![t] = "clear"] /\ task' = task
        /\ deleted' = deleted \cup {task[t]}
    BY <1>6 DEF DeleteTask, WGoto
  <2>2. Held' = Held \ {t} /\ t \in Held
    BY <1>3, <2>1 DEF Held
  <2>3. task[t] \in 1 .. MaxTasks /\ \A u \in Held : task[u] = task[t] => u = t
    BY <2>2, PoolAssumption DEF HeldOnce, TypeOK
  <2>4. task[t] \in Running /\ Running' = Running \ {task[t]}
    BY <2>1, <2>2, <2>3 DEF Running
  <2>5. PICK k \in 1 .. MaxTasks : k = task[t]
    BY <2>3
  <2>6. Service!Finish(k)
    BY <1>2, <2>1, <2>4, <2>5 DEF Service!Finish, Waiting, Running
  <2> QED
    BY <2>6 DEF Service!Next
<1> QED
  BY <1>4, <1>5, <1>6

\* Every step of the pool is one of the service's or none: uploads are begun in the order
\* they are accepted, each once, at most PoolSize at a time.
THEOREM PoolImplementsService == Spec => Service!SafeSpec
<1>1. ASSUME IInv, [Next]_vars PROVE [Service!Next]_(Service!service)
  <2>1. CASE AddTask
    BY <1>1, <2>1, AddTaskAccepts
  <2>2. CASE Upload \/ CurlCleanup \/ Destroy \/ Recording \/ UNCHANGED vars
    BY <1>1, <2>2, CallerStutters
  <2>3. CASE \E t \in Workers : Work(t) \/ ReadCallback(t) \/ FailTransfer(t)
    BY <1>1, <2>3, PopTaskBegins, WorkFinishes DEF Work
  <2> QED
    BY <1>1, <2>1, <2>2, <2>3 DEF Next
<1> QED
  BY <1>1, PoolStarts, InvHolds, PTL DEF Spec, SafeSpec, Service!SafeSpec

=============================================================================
