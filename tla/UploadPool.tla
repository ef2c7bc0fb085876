----------------------------- MODULE UploadPool -----------------------------
(***************************************************************************)
(* HTTPClient and its ThreadPool: the MQTT thread hands over upload tasks, *)
(* PoolThreads run them through libcurl, and the main thread destroys both *)
(* (HTTPClient, then ThreadPool) while the MQTT thread is still connected. *)
(* A queue operation is one step, as in HardwareState.tla. libcurl and the *)
(* network are not in this repository: a transfer calls read_callback till *)
(* this returns 0 or the size is reached, and may fail at any time.        *)
(***************************************************************************)
EXTENDS Naturals, FiniteSets, SequencesExt

CONSTANTS PoolSize,     \* 5
          UploadSize,   \* m_upParams.uploadSize, in units of the file
          BufferSize,   \* size * nitems, what libcurl asks for at a time
          MaxTasks      \* bound: how many uploads are requested

ASSUME PoolAssumption ==
    /\ PoolSize \in Nat \ {0} /\ BufferSize \in Nat \ {0}
    /\ UploadSize \in Nat /\ MaxTasks \in Nat

Workers == 1 .. PoolSize
Capacity == 2 * PoolSize

\* Tasks are numbered as they are created.
NullTask == 0

VARIABLES taskQueue,    \* m_taskQueue
          wPc, task,    \* each PoolThread's control point, and the task it has popped
          busy,         \* its m_busy
          total, eof,   \* its task's m_upParams.total, and whether infile has hit its end
          numTasks,     \* how many tasks have been created
          deleted,      \* the tasks that have deleted themselves
          mqttPc,       \* the caller of HTTPClient::upload
          backlog,      \* whether GetDataQueueSize() > DDR_Q_SIZE / 2
          mainPc,       \* the destructors
          count,        \* their loop counter
          accepted      \* history: the tasks queued when the destructor began

workers == <<wPc, task, busy, total, eof, deleted>>
caller == <<mqttPc, numTasks>>
destructor == <<mainPc, count, accepted>>
vars == <<taskQueue, workers, caller, backlog, destructor>>

Init ==
    /\ taskQueue = <<>>
    /\ wPc = [t \in Workers |-> "pop"] /\ task = [t \in Workers |-> NullTask]
    /\ busy = [t \in Workers |-> FALSE]
    /\ total = [t \in Workers |-> 0] /\ eof = [t \in Workers |-> FALSE]
    /\ numTasks = 0 /\ deleted = {}
    /\ mqttPc = "idle" /\ backlog = FALSE
    /\ mainPc = "running" /\ count = 0 /\ accepted = {}

Push(k) == /\ Len(taskQueue) < Capacity
           /\ taskQueue' = Append(taskQueue, k)

-----------------------------------------------------------------------------
(* HTTPClient::upload, on the MQTT thread.                                 *)

\* It returns false at the first idle thread, and false when it has found none.
AllThreadsOccupied == FALSE

Upload ==
    /\ mqttPc = "idle" /\ numTasks < MaxTasks
    /\ mainPc # "gone"
    /\ mqttPc' = IF AllThreadsOccupied THEN "idle" ELSE "add"
    /\ numTasks' = IF AllThreadsOccupied THEN numTasks ELSE numTasks + 1
    /\ UNCHANGED <<taskQueue, workers, backlog, destructor>>

AddTask ==
    /\ mqttPc = "add" /\ mainPc # "gone"
    /\ Push(numTasks)
    /\ mqttPc' = "idle"
    /\ UNCHANGED <<workers, numTasks, backlog, destructor>>

-----------------------------------------------------------------------------
(* PoolThread::Run and UploadTask::Run.                                    *)

WGoto(t, from, to) == wPc[t] = from /\ wPc' = [wPc EXCEPT ![t] = to]

\* Mutant: the task is read and left in the queue.
PopTaskKept(t) ==
    /\ taskQueue # <<>>
    /\ task' = [task EXCEPT ![t] = Head(taskQueue)]
    /\ WGoto(t, "pop", IF Head(taskQueue) = NullTask THEN "exited" ELSE "got")
    /\ UNCHANGED <<taskQueue, busy, total, eof, deleted, caller, backlog, destructor>>

\* Mutant: the newest task is taken.
PopNewest(t) ==
    /\ taskQueue # <<>>
    /\ task' = [task EXCEPT ![t] = Last(taskQueue)]
    /\ taskQueue' = Front(taskQueue)
    /\ WGoto(t, "pop", IF Last(taskQueue) = NullTask THEN "exited" ELSE "got")
    /\ UNCHANGED <<busy, total, eof, deleted, caller, backlog, destructor>>

\* The null is the loop's condition.
PopTask(t) ==
    /\ taskQueue # <<>>
    /\ task' = [task EXCEPT ![t] = Head(taskQueue)]
    /\ taskQueue' = Tail(taskQueue)
    /\ WGoto(t, "pop", IF Head(taskQueue) = NullTask THEN "exited" ELSE "got")
    /\ UNCHANGED <<busy, total, eof, deleted, caller, backlog, destructor>>

SetBusy(t) ==
    /\ WGoto(t, "got", "run")
    /\ busy' = [busy EXCEPT ![t] = TRUE]
    /\ UNCHANGED <<taskQueue, task, total, eof, deleted, caller, backlog, destructor>>

\* The transfer starts, or there is no curl handle or no such file.
BeginTransfer(t) ==
    /\ \/ WGoto(t, "run", "perform")
       \/ WGoto(t, "run", "delete")
    /\ total' = [total EXCEPT ![t] = 0]
    /\ eof' = [eof EXCEPT ![t] = FALSE]
    /\ UNCHANGED <<taskQueue, task, busy, deleted, caller, backlog, destructor>>

\* Mutant: the last read is not cut to what is left of the window.
ReadSizeUncut(t) == BufferSize

ReadSize(t) == IF BufferSize + total[t] > UploadSize THEN UploadSize - total[t]
               ELSE BufferSize

\* Waits until the recording has caught up, then reads up to ReadSize: less at the end of
\* the file, after which every read returns 0.
ReadCallback(t) ==
    /\ WGoto(t, "perform", "perform")
    /\ ~eof[t]
    /\ ~backlog
    /\ \E gcount \in 0 .. ReadSize(t) :
          /\ total' = [total EXCEPT ![t] = @ + gcount]
          /\ eof' = [eof EXCEPT ![t] = gcount < ReadSize(t) \/ ReadSize(t) = 0]
    /\ UNCHANGED <<taskQueue, task, busy, deleted, caller, backlog, destructor>>

\* libcurl has all it was promised, or was told that there is no more.
EndTransfer(t) ==
    /\ WGoto(t, "perform", "delete")
    /\ total[t] = UploadSize \/ eof[t]
    /\ UNCHANGED <<taskQueue, task, busy, total, eof, deleted, caller, backlog, destructor>>

FailTransfer(t) ==
    /\ WGoto(t, "perform", "delete")
    /\ UNCHANGED <<taskQueue, task, busy, total, eof, deleted, caller, backlog, destructor>>

DeleteTask(t) ==
    /\ WGoto(t, "delete", "clear")
    /\ deleted' = deleted \cup {task[t]}
    /\ total' = [total EXCEPT ![t] = 0] /\ eof' = [eof EXCEPT ![t] = FALSE]
    /\ UNCHANGED <<taskQueue, task, busy, caller, backlog, destructor>>

\* Mutant: the thread ends after its first task.
ClearBusyAndEnd(t) ==
    /\ WGoto(t, "clear", "exited")
    /\ busy' = [busy EXCEPT ![t] = FALSE]
    /\ task' = [task EXCEPT ![t] = NullTask]
    /\ UNCHANGED <<taskQueue, total, eof, deleted, caller, backlog, destructor>>

ClearBusy(t) ==
    /\ WGoto(t, "clear", "pop")
    /\ busy' = [busy EXCEPT ![t] = FALSE]
    /\ task' = [task EXCEPT ![t] = NullTask]
    /\ UNCHANGED <<taskQueue, total, eof, deleted, caller, backlog, destructor>>

Work(t) == \/ PopTask(t) \/ SetBusy(t) \/ BeginTransfer(t) \/ EndTransfer(t)
           \/ DeleteTask(t) \/ ClearBusy(t)

-----------------------------------------------------------------------------
(* ~HTTPClient and ~ThreadPool, on the main thread.                        *)

MainGoto(from, to) == mainPc = from /\ mainPc' = to

\* curl_global_cleanup, before the pool is stopped.
CurlCleanup ==
    /\ MainGoto("running", "pushNulls")
    /\ accepted' = IF mqttPc = "add" THEN 1 .. numTasks - 1 ELSE 1 .. numTasks
    /\ UNCHANGED <<taskQueue, workers, caller, backlog, count>>

\* Mutant: one null for the whole pool.
PushOneNull ==
    /\ MainGoto("pushNulls", "join")
    /\ Push(NullTask)
    /\ UNCHANGED <<workers, caller, backlog, count, accepted>>

PushNulls ==
    /\ MainGoto("pushNulls", IF count + 1 = PoolSize THEN "join" ELSE "pushNulls")
    /\ Push(NullTask)
    /\ count' = IF count + 1 = PoolSize THEN 0 ELSE count + 1
    /\ UNCHANGED <<workers, caller, backlog, accepted>>

\* Mutant: the threads are deleted without being joined.
JoinNone ==
    /\ MainGoto("join", "gone")
    /\ UNCHANGED <<taskQueue, workers, caller, backlog, count, accepted>>

Join ==
    /\ MainGoto("join", IF count + 1 = PoolSize THEN "gone" ELSE "join")
    /\ wPc[count + 1] = "exited"
    /\ count' = count + 1
    /\ UNCHANGED <<taskQueue, workers, caller, backlog, accepted>>

Destroy == PushNulls \/ Join

\* The recording's queue fills above half, or falls below.
Recording == /\ backlog' = ~backlog
             /\ UNCHANGED <<taskQueue, workers, caller, destructor>>

Next ==
    \/ Upload \/ AddTask \/ CurlCleanup \/ Destroy \/ Recording
    \/ \E t \in Workers : Work(t) \/ ReadCallback(t) \/ FailTransfer(t)

(***************************************************************************)
(* Threads that can run do; the recording catches up again, so that a      *)
(* transfer gets to read between its waits; the server goes on taking what *)
(* is sent. No one has to ask for an upload or to leave.                   *)
(***************************************************************************)
Fairness ==
    /\ WF_vars(AddTask) /\ WF_vars(Destroy)
    /\ WF_vars(backlog /\ Recording)
    /\ \A t \in Workers : WF_vars(Work(t)) /\ SF_vars(ReadCallback(t))

SafeSpec == Init /\ [][Next]_vars
Spec == SafeSpec /\ Fairness

-----------------------------------------------------------------------------
\* Types; a transfer never reads past its window of the file.
TypeOK ==
    /\ taskQueue \in Seq(0 .. MaxTasks)
    /\ wPc \in [Workers -> {"pop", "got", "run", "perform", "delete", "clear", "exited"}]
    /\ task \in [Workers -> 0 .. MaxTasks]
    /\ busy \in [Workers -> BOOLEAN] /\ eof \in [Workers -> BOOLEAN]
    /\ total \in [Workers -> 0 .. UploadSize]
    /\ numTasks \in 0 .. MaxTasks /\ deleted \subseteq 1 .. numTasks
    /\ mqttPc \in {"idle", "add"} /\ backlog \in BOOLEAN
    /\ mainPc \in {"running", "pushNulls", "join", "gone"} /\ count \in 0 .. PoolSize
    /\ accepted \subseteq 1 .. numTasks

\* The threads that have a task in their hands.
Held == {w \in Workers : wPc[w] \in {"got", "run", "perform", "delete"}}

\* The places a task can be: a place in the queue, a thread's hands, the caller's.
Holders(k) ==
    {<<"queue", i>> : i \in {j \in 1 .. Len(taskQueue) : taskQueue[j] = k}}
      \cup {<<"worker", t>> : t \in {w \in Held : task[w] = k}}
      \cup {<<"caller", 0>> : x \in {y \in {0} : mqttPc = "add" /\ numTasks = k}}

\* A task has one owner until it deletes itself, and none after: no upload is lost, run
\* by two threads, or touched after "delete this".
OneOwner ==
    \A k \in 1 .. numTasks : Cardinality(Holders(k)) = IF k \in deleted THEN 0 ELSE 1

\* Nulls still to be pushed, waiting in the queue, or that have ended a thread: one each.
Queued(k) == Cardinality({j \in 1 .. Len(taskQueue) : taskQueue[j] = k})
Exited == Cardinality({t \in Workers : wPc[t] = "exited"})
NullsOwed == CASE mainPc = "running" -> PoolSize
               [] mainPc = "pushNulls" -> PoolSize - count
               [] OTHER -> 0

NullPerThread == Queued(NullTask) + Exited + NullsOwed = PoolSize

\* No task queued before the first null stands behind the last one, so threads end only
\* when these are done: every upload accepted before the pool's destruction began has
\* been run when the destructor returns, though the MQTT thread goes on adding tasks.
AcceptedAreRun ==
    mainPc = "gone" => accepted \subseteq deleted /\ \A t \in Workers : wPc[t] = "exited"

\* Whoever waits for room in the queue, or for a thread to end, has it, or waits for a
\* thread that has a task in its hands or finds one, or its null, in the queue: push, pop_front
\* and the join never wait for each other.
CanGoOn(t) == wPc[t] # "exited" /\ (wPc[t] = "pop" => taskQueue # <<>>)
PoolNeverStuck ==
    /\ mainPc \in {"running", "pushNulls"} =>
           Len(taskQueue) < Capacity \/ \E t \in Workers : CanGoOn(t)
    /\ mainPc = "join" => wPc[count + 1] = "exited" \/ CanGoOn(count + 1)

\* A task queued before the pool's destruction is run to its end, whatever the
\* recording's backlog.
UploadsFinish ==
    \A k \in 1 .. MaxTasks :
        mainPc = "running" /\ k \in ToSet(taskQueue) ~> k \in deleted

\* ~HTTPClient returns.
PoolStops == mainPc = "pushNulls" ~> mainPc = "gone"

\* The places ahead of the null that ends the last thread: a task that the MQTT thread
\* queues behind it, while the pool is destroyed, is never run.
Ahead == {i \in DOMAIN taskQueue :
             NullsOwed > 0 \/ \E j \in DOMAIN taskQueue : j > i /\ taskQueue[j] = NullTask}

Service == INSTANCE UploadService WITH
    waiting <- {taskQueue[i] : i \in Ahead} \ {NullTask},
    running <- {task[w] : w \in Held},
    finished <- deleted

\* addTask, the loops of the PoolThreads and UploadTask::Run together are a service that
\* begins the uploads in the order they were accepted, each once, while it has a thread
\* free, and ends them all, until the destructor has pushed its last null.
ImplementsService == Service!Spec

\* "Don't allow outstanding tasks.": no upload is accepted while every thread has one.
NoOutstanding ==
    [][mqttPc = "idle" /\ mqttPc' = "add" => \E t \in Workers : ~busy[t]]_vars
=============================================================================
