------------------------------ MODULE ThreadPool ------------------------------
(***************************************************************************)
(* The thread pool of the framework (ThreadPool.h, ThreadPool.cpp): an     *)
(* owner starts and closes it, callers hand it tasks with AddTask, worker  *)
(* threads take the tasks from a Windows I/O completion port and run them. *)
(*                                                                         *)
(* A step is the code between two accesses to the state the threads share: *)
(* m_hIocp, m_nStatus, the queue of the completion port.  The port itself  *)
(* belongs to the kernel: a FIFO queue; GetQueuedCompletionStatus blocks   *)
(* while it is empty and fails once the handle is closed; closing the      *)
(* handle frees the queue and not the Task objects its packets point to.   *)
(* A worker is a CThread (module CThread); what the pool sees of it here   *)
(* is that its function runs, has returned, or was terminated by Stop.     *)
(***************************************************************************)
EXTENDS Naturals, Sequences

CONSTANTS
    Tasks,          \* the Task objects that callers submit, each one once
    Callers,        \* the threads that call AddTask
    nThreadCount,   \* the argument of Start
    Quit,           \* the packet (0, 0, NULL) that Close posts
    NoTask,         \* no value: a worker holds no task, a caller no call
    MaxStarts       \* bound: how often the owner calls Start

Workers == 1 .. nThreadCount

ASSUME PoolAssumption ==
    /\ nThreadCount \in Nat \ {0}
    /\ MaxStarts \in Nat
    /\ Quit \notin Tasks
    /\ NoTask \notin Tasks

VARIABLES
    m_hIocp,       \* "null", "open", or "closed": CloseHandle done, not yet NULL
    m_nStatus,     \* 0 normal, 1 about to close
    m_vecThreads,  \* per index: "absent" (vector too short), "null", "thread"
    queue,         \* the packets waiting in the completion port
    worker,        \* where the thread of each index stands in TaskExcute
    current,       \* the task each worker took from the port
    adding,        \* the task of the AddTask call each caller is in
    owner,         \* where the owner stands in Start or Close
    index,         \* the loop variable i of Start and of Close
    starts,        \* number of calls of Start that opened a port
    task           \* ghost: what became of each task

vars == << m_hIocp, m_nStatus, m_vecThreads, queue, worker, current, adding,
           owner, index, starts, task >>

-----------------------------------------------------------------------------
(* A worker is "none" until CreateThread, "suspended" when ResumeThread    *)
(* failed, "done" when TaskExcute returned and "dead" when Stop has joined *)
(* or terminated it; the other places are lines of TaskExcute.             *)
InTaskExcute == {"while", "status", "gqcs", "run", "clear"}
WorkerPlaces == InTaskExcute \cup {"none", "suspended", "done", "dead"}

OwnerPlaces == {"idle", "start", "close", "post", "closehandle", "setnull",
                "stop", "crashed"}

(* What becomes of a task: "new", "rejected" (AddTask returned -1 or -2),  *)
(* "queued", "running", "executed", "cleared" (deleted by ClearIocpQueue), *)
(* "abandoned" (its packet was in the port when the handle was closed) or  *)
(* "cut" (its worker was terminated while it ran).                         *)
TaskStates == {"new", "rejected", "queued", "running", "executed", "cleared",
               "abandoned", "cut"}

TypeOK ==
    /\ m_hIocp \in {"null", "open", "closed"}
    /\ m_nStatus \in {0, 1}
    /\ m_vecThreads \in [Workers -> {"absent", "null", "thread"}]
    /\ queue \in Seq(Tasks \cup {Quit})
    /\ worker \in [Workers -> WorkerPlaces]
    /\ current \in [Workers -> Tasks \cup {NoTask}]
    /\ adding \in [Callers -> Tasks \cup {NoTask}]
    /\ owner \in OwnerPlaces
    /\ index \in Workers
    /\ starts \in 0 .. MaxStarts
    /\ task \in [Tasks -> TaskStates]

Init ==
    /\ m_hIocp = "null"
    /\ m_nStatus = 0
    /\ m_vecThreads = [w \in Workers |-> "absent"]
    /\ queue = << >>
    /\ worker = [w \in Workers |-> "none"]
    /\ current = [w \in Workers |-> NoTask]
    /\ adding = [c \in Callers |-> NoTask]
    /\ owner = "idle"
    /\ index = 1
    /\ starts = 0
    /\ task = [t \in Tasks |-> "new"]

(* After the crash the process is gone: nobody takes another step.         *)
Crashed == owner = "crashed"

-----------------------------------------------------------------------------
(* The owner: Start.                                                       *)

(* Start up to its loop: with a port already there it returns -1 and       *)
(* changes nothing; otherwise it creates the port and sizes the vector.    *)
(* m_nStatus is left as it is.                                             *)
Start ==
    /\ owner = "idle"
    /\ m_hIocp = "null"
    /\ starts < MaxStarts
    /\ m_hIocp' = "open"
    /\ queue' = << >>
    /\ m_vecThreads' = [w \in Workers |-> "null"]
    /\ worker' = [w \in Workers |-> "none"]
    /\ owner' = "start"
    /\ index' = 1
    /\ starts' = starts + 1
    /\ UNCHANGED << m_nStatus, current, adding, task >>

StartNext ==
    IF index = nThreadCount
    THEN owner' = "idle" /\ index' = 1
    ELSE owner' = "start" /\ index' = index + 1

(* One round of Start's loop.  When CreateThread failed the thread has no  *)
(* handle and CThread::Start returns THREAD_OK all the same.               *)
StartThread ==
    /\ owner = "start"
    /\ m_vecThreads' = [m_vecThreads EXCEPT ![index] = "thread"]
    /\ \E place \in {"while", "none"} :
           worker' = [worker EXCEPT ![index] = place]
    /\ StartNext
    /\ UNCHANGED << m_hIocp, m_nStatus, queue, current, adding, starts, task >>

(* A round of the loop whose ResumeThread fails: Start calls Close, then   *)
(* returns -5.  The entries behind index are still NULL.                   *)
StartThreadFails ==
    /\ owner = "start"
    /\ m_vecThreads' = [m_vecThreads EXCEPT ![index] = "thread"]
    /\ worker' = [worker EXCEPT ![index] = "suspended"]
    /\ owner' = "close"
    /\ UNCHANGED << m_hIocp, m_nStatus, queue, current, adding, index, starts,
                    task >>

-----------------------------------------------------------------------------
(* The owner: Close, called by the user of the pool and by ~ThreadPool.    *)

CloseCall ==
    /\ owner = "idle"
    /\ owner' = "close"
    /\ UNCHANGED << m_hIocp, m_nStatus, m_vecThreads, queue, worker, current,
                    adding, index, starts, task >>

(* Mutant: Close goes on without having set m_nStatus.                     *)
CloseStatusForgotten ==
    /\ owner = "close"
    /\ owner' = IF m_hIocp = "null" THEN "stop" ELSE "post"
    /\ index' = 1
    /\ UNCHANGED << m_hIocp, m_nStatus, m_vecThreads, queue, worker, current,
                    adding, starts, task >>

(* if (m_nStatus == 0) m_nStatus = 1; then the test of m_hIocp.            *)
CloseStatus ==
    /\ owner = "close"
    /\ m_nStatus' = 1
    /\ owner' = IF m_hIocp = "null" THEN "stop" ELSE "post"
    /\ index' = 1
    /\ UNCHANGED << m_hIocp, m_vecThreads, queue, worker, current, adding,
                    starts, task >>

ClosePost ==
    /\ owner = "post"
    /\ queue' = Append(queue, Quit)
    /\ owner' = "closehandle"
    /\ UNCHANGED << m_hIocp, m_nStatus, m_vecThreads, worker, current, adding,
                    index, starts, task >>

(* CloseHandle, at most 100 ms after the quit packet: whatever is still in *)
(* the port goes with it.                                                  *)
CloseHandle ==
    /\ owner = "closehandle"
    /\ m_hIocp' = "closed"
    /\ queue' = << >>
    /\ task' = [t \in Tasks |->
                   IF task[t] = "queued" THEN "abandoned" ELSE task[t]]
    /\ owner' = "setnull"
    /\ UNCHANGED << m_nStatus, m_vecThreads, worker, current, adding, index,
                    starts >>

CloseSetNull ==
    /\ owner = "setnull"
    /\ m_hIocp' = "null"
    /\ owner' = "stop"
    /\ UNCHANGED << m_nStatus, m_vecThreads, queue, worker, current, adding,
                    index, starts, task >>

(* The loop of Close after the thread at index is stopped and deleted; the *)
(* round of the last thread also clears the vector.                        *)
StopNext ==
    IF index = nThreadCount
    THEN /\ m_vecThreads' = [w \in Workers |-> "absent"]
         /\ owner' = "idle"
         /\ index' = 1
    ELSE /\ m_vecThreads' = [m_vecThreads EXCEPT ![index] = "null"]
         /\ owner' = "stop"
         /\ index' = index + 1

(* m_vecThreads.size() == 0: nothing to stop.                              *)
StopNone ==
    /\ owner = "stop"
    /\ m_vecThreads[index] = "absent"
    /\ owner' = "idle"
    /\ UNCHANGED << m_hIocp, m_nStatus, m_vecThreads, queue, worker, current,
                    adding, index, starts, task >>

(* CThread::Stop whose wait of 10 ms is answered, or that has no handle.   *)
StopJoins ==
    /\ owner = "stop"
    /\ m_vecThreads[index] = "thread"
    /\ worker[index] \in {"none", "done"}
    /\ worker' = [worker EXCEPT ![index] = "dead"]
    /\ StopNext
    /\ UNCHANGED << m_hIocp, m_nStatus, queue, current, adding, starts, task >>

(* Mutant: CThread::Stop waits without a time limit.                       *)
StopTerminatesNever == FALSE /\ UNCHANGED vars

(* Mutant: CThread::Stop gives up after its wait, and does not terminate.  *)
StopTerminatesForgotten ==
    /\ owner = "stop"
    /\ m_vecThreads[index] = "thread"
    /\ worker[index] \in InTaskExcute \cup {"suspended"}
    /\ StopNext
    /\ UNCHANGED << m_hIocp, m_nStatus, queue, worker, current, adding, starts,
                    task >>

(* CThread::Stop whose wait times out: TerminateThread, wherever it is.    *)
StopTerminates ==
    /\ owner = "stop"
    /\ m_vecThreads[index] = "thread"
    /\ worker[index] \in InTaskExcute \cup {"suspended"}
    /\ worker' = [worker EXCEPT ![index] = "dead"]
    /\ current' = [current EXCEPT ![index] = NoTask]
    /\ task' = IF current[index] \in Tasks
               THEN [task EXCEPT ![current[index]] = "cut"]
               ELSE task
    /\ StopNext
    /\ UNCHANGED << m_hIocp, m_nStatus, queue, adding, starts >>

(* m_vecThreads[i]->Stop() through a NULL entry ends the process.          *)
StopCrashes ==
    /\ owner = "stop"
    /\ m_vecThreads[index] = "null"
    /\ owner' = "crashed"
    /\ UNCHANGED << m_hIocp, m_nStatus, m_vecThreads, queue, worker, current,
                    adding, index, starts, task >>

-----------------------------------------------------------------------------
(* The callers: AddTask.  m_hIocp is not NULL and m_nStatus is 0: the two  *)
(* reads are one step, since a port seen while m_nStatus is still 0 cannot *)
(* have been closed in between.                                            *)
Accepting == m_hIocp # "null" /\ m_nStatus = 0

AddTask(c, t) ==
    /\ ~Crashed
    /\ adding[c] = NoTask
    /\ task[t] = "new"
    /\ \A d \in Callers : adding[d] # t
    /\ IF Accepting
       THEN adding' = [adding EXCEPT ![c] = t] /\ UNCHANGED task
       ELSE task' = [task EXCEPT ![t] = "rejected"] /\ UNCHANGED adding
    /\ UNCHANGED << m_hIocp, m_nStatus, m_vecThreads, queue, worker, current,
                    owner, index, starts >>

(* Mutant: the same Task is posted a second time, as a retry would.        *)
AddTaskPostTwice(c) ==
    /\ ~Crashed
    /\ adding[c] \in Tasks
    /\ adding' = [adding EXCEPT ![c] = NoTask]
    /\ queue' = IF m_hIocp = "open" THEN queue \o << adding[c], adding[c] >> ELSE queue
    /\ task' = [task EXCEPT ![adding[c]] =
                    IF m_hIocp = "open" THEN "queued" ELSE "rejected"]
    /\ UNCHANGED << m_hIocp, m_nStatus, m_vecThreads, worker, current, owner,
                    index, starts >>

(* PostQueuedCompletionStatus, with the value m_hIocp has by now: to a     *)
(* handle that is not open it fails and the copy is deleted.               *)
AddTaskPost(c) ==
    /\ ~Crashed
    /\ adding[c] \in Tasks
    /\ adding' = [adding EXCEPT ![c] = NoTask]
    /\ IF m_hIocp = "open"
       THEN /\ queue' = Append(queue, adding[c])
            /\ task' = [task EXCEPT ![adding[c]] = "queued"]
       ELSE /\ task' = [task EXCEPT ![adding[c]] = "rejected"]
            /\ UNCHANGED queue
    /\ UNCHANGED << m_hIocp, m_nStatus, m_vecThreads, worker, current, owner,
                    index, starts >>

-----------------------------------------------------------------------------
(* The workers: TaskExcute.                                                *)

Goes(w, from, to) ==
    /\ ~Crashed
    /\ worker[w] = from
    /\ worker' = [worker EXCEPT ![w] = to]

WhileTest(w) ==
    /\ Goes(w, "while", IF m_hIocp = "null" THEN "done" ELSE "status")
    /\ UNCHANGED << m_hIocp, m_nStatus, m_vecThreads, queue, current, adding,
                    owner, index, starts, task >>

StatusTest(w) ==
    /\ Goes(w, "status", IF m_nStatus = 1 THEN "clear" ELSE "gqcs")
    /\ UNCHANGED << m_hIocp, m_nStatus, m_vecThreads, queue, current, adding,
                    owner, index, starts, task >>

(* GetQueuedCompletionStatus(INFINITE) returns a task: it is run.          *)
GetTask(w) ==
    /\ m_hIocp = "open"
    /\ queue # << >>
    /\ Head(queue) \in Tasks
    /\ Goes(w, "gqcs", "run")
    /\ current' = [current EXCEPT ![w] = Head(queue)]
    /\ task' = [task EXCEPT ![Head(queue)] = "running"]
    /\ queue' = Tail(queue)
    /\ UNCHANGED << m_hIocp, m_nStatus, m_vecThreads, adding, owner, index,
                    starts >>

(* GetQueuedCompletionStatus(INFINITE) returns the quit packet.            *)
GetQuit(w) ==
    /\ m_hIocp = "open"
    /\ queue # << >>
    /\ Head(queue) = Quit
    /\ Goes(w, "gqcs", "clear")
    /\ queue' = Tail(queue)
    /\ UNCHANGED << m_hIocp, m_nStatus, m_vecThreads, current, adding, owner,
                    index, starts, task >>

(* GetQueuedCompletionStatus(INFINITE) returns FALSE: the handle is gone.  *)
GetFails(w) ==
    /\ m_hIocp # "open"
    /\ Goes(w, "gqcs", "done")
    /\ UNCHANGED << m_hIocp, m_nStatus, m_vecThreads, queue, current, adding,
                    owner, index, starts, task >>

(* Mutant: TaskExcute leaves its loop after the first task.                *)
RunEndsOnce(w) ==
    /\ Goes(w, "run", "done")
    /\ task' = [task EXCEPT ![current[w]] = "executed"]
    /\ current' = [current EXCEPT ![w] = NoTask]
    /\ UNCHANGED << m_hIocp, m_nStatus, m_vecThreads, queue, adding, owner,
                    index, starts >>

(* The function of the task returns and the task is deleted.               *)
RunEnds(w) ==
    /\ Goes(w, "run", "while")
    /\ task' = [task EXCEPT ![current[w]] = "executed"]
    /\ current' = [current EXCEPT ![w] = NoTask]
    /\ UNCHANGED << m_hIocp, m_nStatus, m_vecThreads, queue, adding, owner,
                    index, starts >>

(* One round of ClearIocpQueue: a task is deleted unrun, a quit packet is  *)
(* swallowed.                                                              *)
ClearIocpQueue(w) ==
    /\ m_hIocp = "open"
    /\ queue # << >>
    /\ Goes(w, "clear", "clear")
    /\ queue' = Tail(queue)
    /\ task' = IF Head(queue) \in Tasks
               THEN [task EXCEPT ![Head(queue)] = "cleared"]
               ELSE task
    /\ UNCHANGED << m_hIocp, m_nStatus, m_vecThreads, current, adding, owner,
                    index, starts >>

(* ClearIocpQueue's GetQueuedCompletionStatus(0) fails: empty, or closed.  *)
ClearEnds(w) ==
    /\ m_hIocp # "open" \/ queue = << >>
    /\ Goes(w, "clear", "done")
    /\ UNCHANGED << m_hIocp, m_nStatus, m_vecThreads, queue, current, adding,
                    owner, index, starts, task >>

-----------------------------------------------------------------------------
StartSteps == Start \/ StartThread \/ StartThreadFails

CloseSteps ==
    \/ CloseStatus \/ ClosePost \/ CloseHandle \/ CloseSetNull
    \/ StopNone \/ StopJoins \/ StopTerminates \/ StopCrashes

AddTaskSteps(c) == AddTaskPost(c) \/ \E t \in Tasks : AddTask(c, t)

TaskExcute(w) ==
    \/ WhileTest(w) \/ StatusTest(w)
    \/ GetTask(w) \/ GetQuit(w) \/ GetFails(w)
    \/ RunEnds(w)
    \/ ClearIocpQueue(w) \/ ClearEnds(w)

Next ==
    \/ StartSteps
    \/ CloseCall
    \/ CloseSteps
    \/ \E c \in Callers : AddTaskSteps(c)
    \/ \E w \in Workers : TaskExcute(w)

Spec == Init /\ [][Next]_vars

(* The scheduler runs every thread that can run: a Close or Start that has *)
(* begun goes on, and so do the pool's own steps of a worker.  Nothing is  *)
(* said of RunEnds: the function of a task may never return.               *)
FairSpec ==
    /\ Spec
    /\ WF_vars(CloseSteps)
    /\ WF_vars(StartThread)
    /\ \A w \in Workers : WF_vars(worker[w] # "run" /\ TaskExcute(w))

-----------------------------------------------------------------------------
(* PROPERTIES                                                              *)

(* The tasks in a queue, each in one place only.                           *)
InQueue(q, t) == \E i \in 1 .. Len(q) : q[i] = t

OnePlace(q) ==
    \A i, j \in 1 .. Len(q) : q[i] = q[j] /\ q[i] \in Tasks => i = j

(* A queued task is the task of exactly one packet in the port.            *)
PortHolds ==
    /\ \A t \in Tasks : task[t] = "queued" <=> InQueue(queue, t)
    /\ OnePlace(queue)

(* A running task is the task of exactly one worker.                       *)
WorkersHold ==
    /\ \A w \in Workers : worker[w] = "run" <=> current[w] \in Tasks
    /\ \A t \in Tasks : task[t] = "running" <=> \E w \in Workers : current[w] = t
    /\ \A v, w \in Workers :
           current[v] = current[w] /\ current[v] \in Tasks => v = w

(* A task that AddTask has not posted yet is that of one caller.           *)
CallersHold ==
    /\ \A c \in Callers : adding[c] \in Tasks => task[adding[c]] = "new"
    /\ \A c, d \in Callers :
           adding[c] = adding[d] /\ adding[c] \in Tasks => c = d

(* A task has one holder at any time: a packet of the port, a worker, or   *)
(* the caller whose AddTask has not posted it.  So no task is run twice,   *)
(* and none is deleted under a worker that runs it.                        *)
OneHolder == PortHolds /\ WorkersHold /\ CallersHold

(* A task that AddTask accepted is never lost before the pool is closed:   *)
(* ClearIocpQueue, CloseHandle and TerminateThread, which drop tasks, are  *)
(* reached with m_nStatus = 1 only.                                        *)
LostOnlyByClose ==
    \A t \in Tasks :
        task[t] \in {"cleared", "abandoned", "cut"} => m_nStatus = 1

(* Once Close has returned, no task runs, and no worker will take one: not *)
(* even when the pool is started again, for m_nStatus stays 1, and an      *)
(* AddTask that began before Close may still post to the new port.         *)
ClosedForGood ==
    owner \in {"idle", "start"} /\ m_nStatus = 1 =>
        \A w \in Workers : worker[w] \notin {"gqcs", "run"}

(* After a Close that ended there is no thread left that runs a member     *)
(* function of the pool, so the object may be destroyed.                   *)
NoWorkerSurvivesClose ==
    owner = "idle" /\ m_hIocp = "null" =>
        \A w \in Workers : worker[w] \in {"none", "dead"}

(* Close never goes through a NULL thread, unless Start gave up on a       *)
(* thread it could not resume: a second Close, that of ~ThreadPool for     *)
(* one, finds the vector empty.                                            *)
CrashNeedsFailedStart ==
    Crashed => m_vecThreads[index] = "null" /\ worker[index] = "none"

(* Close stops every thread there is, and no other.                        *)
CloseStopsAll == NoWorkerSurvivesClose /\ CrashNeedsFailedStart

(* A Close that has begun returns, whatever the tasks do (or dies with the *)
(* process): its two waits have time limits.                               *)
CloseReturns ==
    owner \in {"close", "post", "closehandle", "setnull", "stop"}
        ~> (owner = "idle" \/ Crashed)

Serving(w) == worker[w] \in {"while", "status", "gqcs", "run"}

(* If every function a worker runs returns, a queued task does not wait    *)
(* forever while the pool has a worker: it is run, or dropped by Close.    *)
QueuedTaskTaken ==
    (\A w \in Workers : []<>(worker[w] # "run")) =>
    \A t \in Tasks :
        (task[t] = "queued" /\ \E w \in Workers : Serving(w))
            ~> (task[t] # "queued" \/ Crashed)

(* What TaskExcute's comments say of a worker: about to exit, it cleans    *)
(* the queue first.  So when every worker has returned from TaskExcute, no *)
(* Task was left behind in the port.                                       *)
QueueClearedFirst ==
    (\A w \in Workers : worker[w] = "done") =>
        \A t \in Tasks : task[t] # "abandoned"

-----------------------------------------------------------------------------
(* What the pool promises (module TaskExecutor).  It is closed when no     *)
(* worker can take a task any more: m_nStatus is 1, so that none comes to  *)
(* GetQueuedCompletionStatus again, and those already there have lost the  *)
(* port.                                                                   *)
Phase ==
    CASE m_nStatus = 0 -> "open"
      [] m_nStatus = 1 /\ m_hIocp = "open" /\ (\E w \in Workers : worker[w] = "gqcs") -> "closing"
      [] OTHER -> "closed"

Outcome(s) ==
    CASE s = "queued" -> "accepted"
      [] s \in {"cleared", "abandoned"} -> "discarded"
      [] OTHER -> s

Executor == INSTANCE TaskExecutor
                WITH phase <- Phase, state <- [t \in Tasks |-> Outcome(task[t])]

(* The pool keeps the promise of module TaskExecutor.                      *)
ImplementsExecutor == Executor!Spec
=============================================================================
