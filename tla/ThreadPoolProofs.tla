--------------------------- MODULE ThreadPoolProofs ---------------------------
(***************************************************************************)
(* Proofs about module ThreadPool, for any number of workers, callers and  *)
(* tasks: its invariants, and that it implements module TaskExecutor.      *)
(***************************************************************************)
EXTENDS ThreadPool, QueueLemmas, TLAPS

(* What the owner's place says of the port and of m_nStatus.               *)
OwnerInv ==
    /\ owner \in {"post", "closehandle", "setnull", "stop", "crashed"} => m_nStatus = 1
    /\ owner \in {"start", "post", "closehandle"} => m_hIocp = "open"
    /\ owner \in {"stop", "crashed"} => m_hIocp = "null"
    /\ owner = "setnull" <=> m_hIocp = "closed"
    /\ owner \in {"post", "closehandle", "setnull"} => index = 1

(* A port that is not open holds no packet; the quit packet, and with it   *)
(* ClearIocpQueue, appear only when the pool closes.                       *)
PortInv ==
    /\ m_hIocp # "open" => queue = << >>
    /\ \A i \in 1 .. Len(queue) : queue[i] = Quit => m_nStatus = 1
    /\ \A w \in Workers : worker[w] = "clear" => m_nStatus = 1

(* The vector names every thread there is; Close has stopped those below   *)
(* index; a NULL entry that Close has yet to meet never was a thread.      *)
VectorInv ==
    /\ \A w \in Workers : m_vecThreads[w] # "thread" => worker[w] \in {"none", "dead"}
    /\ \A v, w \in Workers : m_vecThreads[v] = "absent" => m_vecThreads[w] = "absent"
    /\ owner = "start" => \A w \in Workers : w >= index => m_vecThreads[w] = "null"
    /\ owner = "stop" => \A w \in Workers : w < index => m_vecThreads[w] # "thread"
    /\ owner = "idle" /\ m_hIocp = "null" => \A w \in Workers : m_vecThreads[w] = "absent"
    /\ \A w \in Workers :
           m_vecThreads[w] = "null" /\ (owner \in {"stop", "crashed"} => w >= index)
               => worker[w] = "none"
    /\ owner = "crashed" => m_vecThreads[index] = "null"

IndInv ==
    /\ TypeOK
    /\ OwnerInv
    /\ PortInv
    /\ VectorInv
    /\ OneHolder
    /\ LostOnlyByClose
    /\ ClosedForGood

-----------------------------------------------------------------------------
(* Which tasks are in the queue of the port after Append and Tail.         *)

LEMMA AppendHolds ==
    ASSUME NEW q \in Seq(Tasks \cup {Quit}), NEW e \in Tasks \cup {Quit},
           OnePlace(q), e \in Tasks => ~InQueue(q, e)
    PROVE  /\ OnePlace(Append(q, e))
           /\ \A t \in Tasks : InQueue(Append(q, e), t) <=> InQueue(q, t) \/ t = e
<1> DEFINE r == Append(q, e)
<1>1. /\ Len(q) \in Nat
      /\ Len(r) = Len(q) + 1
      /\ \A i \in 1 .. Len(q) : r[i] = q[i]
      /\ r[Len(q) + 1] = e
  BY AppendQueue
<1> HIDE DEF r
<1>2. OnePlace(r)
  BY <1>1 DEF OnePlace, InQueue
<1>3. ASSUME NEW t \in Tasks
      PROVE  InQueue(r, t) <=> InQueue(q, t) \/ t = e
  BY <1>1 DEF InQueue
<1> QED BY <1>2, <1>3 DEF r

LEMMA TailHolds ==
    ASSUME NEW q \in Seq(Tasks \cup {Quit}), q # << >>, OnePlace(q)
    PROVE  /\ OnePlace(Tail(q))
           /\ \A t \in Tasks : InQueue(Tail(q), t) <=> InQueue(q, t) /\ t # Head(q)
<1> DEFINE r == Tail(q)
<1>1. /\ Len(q) \in Nat \ {0}
      /\ Head(q) = q[1]
      /\ Len(r) = Len(q) - 1
      /\ \A i \in 1 .. Len(q) - 1 : r[i] = q[i + 1]
  BY TailQueue
<1> HIDE DEF r
<1>2. OnePlace(r)
  BY <1>1 DEF OnePlace
<1>3. ASSUME NEW t \in Tasks
      PROVE  InQueue(r, t) <=> InQueue(q, t) /\ t # Head(q)
  <2>1. ASSUME NEW i \in 1 .. Len(r), r[i] = t
        PROVE  InQueue(q, t) /\ t # Head(q)
    BY <1>1, <2>1 DEF OnePlace, InQueue
  <2>2. ASSUME NEW i \in 1 .. Len(q), q[i] = t, t # Head(q)
        PROVE  InQueue(r, t)
    <3>1. i - 1 \in 1 .. Len(r) /\ r[i - 1] = t
      BY <1>1, <2>2
    <3> QED BY <3>1 DEF InQueue
  <2> QED BY <2>1, <2>2 DEF InQueue
<1> QED BY <1>2, <1>3 DEF r

-----------------------------------------------------------------------------
(* The owner: Start.  One lemma per action says that it keeps IndInv.       *)

LEMMA StartInv == ASSUME IndInv, Start PROVE IndInv'
<1>1. TypeOK'
  BY PoolAssumption DEF IndInv, TypeOK, WorkerPlaces, InTaskExcute, OwnerPlaces,
     Workers, Start
<1>2. OwnerInv'
  BY PoolAssumption DEF IndInv, TypeOK, OwnerInv, Workers, Start
<1>3. PortInv'
  BY DEF IndInv, PortInv, Start
<1>4. VectorInv'
  BY DEF IndInv, VectorInv, Start
<1>5. PortHolds'
  BY DEF IndInv, TypeOK, PortInv, OneHolder, PortHolds, InQueue, Start
<1>6. WorkersHold'
  BY DEF IndInv, TypeOK, VectorInv, OneHolder, WorkersHold, Start
<1>7. ClosedForGood'
  BY DEF IndInv, ClosedForGood, Start
<1>8. CallersHold' /\ LostOnlyByClose'
  BY DEF IndInv, OneHolder, CallersHold, LostOnlyByClose, Start
<1> QED BY <1>1, <1>2, <1>3, <1>4, <1>5, <1>6, <1>7, <1>8 DEF IndInv, OneHolder

LEMMA StartThreadInv == ASSUME IndInv, StartThread PROVE IndInv'
<1>1. TypeOK'
  BY PoolAssumption DEF IndInv, TypeOK, WorkerPlaces, InTaskExcute, OwnerPlaces,
     TaskStates, Workers, OwnerInv, StartThread, StartNext
<1>2. OwnerInv'
  BY PoolAssumption DEF IndInv, TypeOK, OwnerInv, Workers, StartThread, StartNext
<1>3. PortInv'
  BY DEF IndInv, PortInv, StartThread, StartNext
<1>4. VectorInv'
  BY PoolAssumption DEF IndInv, TypeOK, OwnerInv, VectorInv, Workers, StartThread,
     StartNext
<1>5. WorkersHold'
  BY PoolAssumption DEF IndInv, TypeOK, VectorInv, Workers, OneHolder, WorkersHold,
     StartThread, StartNext
<1>6. ClosedForGood'
  BY DEF IndInv, ClosedForGood, StartThread, StartNext
<1>7. PortHolds' /\ CallersHold' /\ LostOnlyByClose'
  BY DEF IndInv, OneHolder, PortHolds, CallersHold, LostOnlyByClose, StartThread,
     StartNext
<1> QED BY <1>1, <1>2, <1>3, <1>4, <1>5, <1>6, <1>7 DEF IndInv, OneHolder

LEMMA StartThreadFailsInv == ASSUME IndInv, StartThreadFails PROVE IndInv'
<1>1. TypeOK'
  BY DEF IndInv, TypeOK, WorkerPlaces, OwnerPlaces, Workers, StartThreadFails
<1>2. OwnerInv'
  BY DEF IndInv, OwnerInv, StartThreadFails
<1>3. PortInv'
  BY DEF IndInv, PortInv, StartThreadFails
<1>4. VectorInv'
  BY PoolAssumption DEF IndInv, TypeOK, VectorInv, Workers, StartThreadFails
<1>5. WorkersHold'
  BY PoolAssumption DEF IndInv, TypeOK, VectorInv, Workers, OneHolder, WorkersHold,
     StartThreadFails
<1>6. ClosedForGood'
  BY DEF IndInv, ClosedForGood, StartThreadFails
<1>7. PortHolds' /\ CallersHold' /\ LostOnlyByClose'
  BY DEF IndInv, OneHolder, PortHolds, CallersHold, LostOnlyByClose, StartThreadFails
<1> QED BY <1>1, <1>2, <1>3, <1>4, <1>5, <1>6, <1>7 DEF IndInv, OneHolder

-----------------------------------------------------------------------------
(* The owner: Close.                                                        *)

LEMMA CloseCallInv == ASSUME IndInv, CloseCall PROVE IndInv'
<1>1. TypeOK'
  BY DEF IndInv, TypeOK, OwnerPlaces, CloseCall
<1>2. OwnerInv'
  BY DEF IndInv, OwnerInv, CloseCall
<1>3. VectorInv'
  BY DEF IndInv, VectorInv, CloseCall
<1>4. ClosedForGood'
  BY DEF IndInv, ClosedForGood, CloseCall
<1>5. PortInv' /\ PortHolds' /\ WorkersHold' /\ CallersHold' /\ LostOnlyByClose'
  BY DEF IndInv, OneHolder, PortInv, PortHolds, WorkersHold, CallersHold,
     LostOnlyByClose, CloseCall
<1> QED BY <1>1, <1>2, <1>3, <1>4, <1>5 DEF IndInv, OneHolder

LEMMA CloseStatusInv == ASSUME IndInv, CloseStatus PROVE IndInv'
<1>1. TypeOK'
  BY PoolAssumption DEF IndInv, TypeOK, WorkerPlaces, InTaskExcute, OwnerPlaces,
     Workers, CloseStatus
<1>2. OwnerInv'
  BY PoolAssumption DEF IndInv, TypeOK, OwnerInv, Workers, CloseStatus
<1>3. PortInv'
  BY DEF IndInv, PortInv, CloseStatus
<1>4. VectorInv'
  BY DEF IndInv, TypeOK, VectorInv, CloseStatus
<1>5. LostOnlyByClose'
  BY DEF IndInv, LostOnlyByClose, CloseStatus
<1>6. ClosedForGood'
  BY DEF IndInv, ClosedForGood, CloseStatus
<1>7. PortHolds' /\ WorkersHold' /\ CallersHold'
  BY DEF IndInv, OneHolder, PortHolds, WorkersHold, CallersHold, CloseStatus
<1> QED BY <1>1, <1>2, <1>3, <1>4, <1>5, <1>6, <1>7 DEF IndInv, OneHolder

LEMMA ClosePostInv == ASSUME IndInv, ClosePost PROVE IndInv'
<1>1. /\ Len(queue) \in Nat
      /\ queue' \in Seq(Tasks \cup {Quit})
      /\ Len(queue') = Len(queue) + 1
      /\ \A i \in 1 .. Len(queue) : queue'[i] = queue[i]
      /\ queue'[Len(queue) + 1] = Quit
  BY AppendQueue DEF IndInv, TypeOK, ClosePost
<1>2. /\ OnePlace(queue')
      /\ \A t \in Tasks : InQueue(queue', t) <=> InQueue(queue, t) \/ t = Quit
  BY PoolAssumption, AppendHolds DEF IndInv, TypeOK, OneHolder, PortHolds, ClosePost
<1>3. TypeOK'
  BY <1>1 DEF IndInv, TypeOK, OwnerPlaces, ClosePost
<1>4. OwnerInv'
  BY DEF IndInv, OwnerInv, ClosePost
<1>5. PortInv'
  BY <1>1 DEF IndInv, OwnerInv, PortInv, ClosePost
<1>6. VectorInv'
  BY DEF IndInv, VectorInv, ClosePost
<1>7. PortHolds'
  BY PoolAssumption, <1>2 DEF IndInv, OneHolder, PortHolds, ClosePost
<1>8. ClosedForGood'
  BY DEF IndInv, ClosedForGood, ClosePost
<1>9. WorkersHold' /\ CallersHold' /\ LostOnlyByClose'
  BY DEF IndInv, OneHolder, WorkersHold, CallersHold, LostOnlyByClose, ClosePost
<1> QED BY <1>3, <1>4, <1>5, <1>6, <1>7, <1>8, <1>9 DEF IndInv, OneHolder

LEMMA CloseHandleInv == ASSUME IndInv, CloseHandle PROVE IndInv'
<1>1. TypeOK'
  BY DEF IndInv, TypeOK, OwnerPlaces, TaskStates, CloseHandle
<1>2. OwnerInv'
  BY DEF IndInv, OwnerInv, CloseHandle
<1>3. PortInv'
  BY DEF IndInv, PortInv, CloseHandle
<1>4. VectorInv'
  BY DEF IndInv, VectorInv, CloseHandle
<1>5. PortHolds'
  BY PoolAssumption DEF IndInv, TypeOK, OwnerInv, PortInv, OneHolder, PortHolds,
     InQueue, OnePlace, CloseHandle
<1>6. WorkersHold'
  BY DEF IndInv, OneHolder, WorkersHold, CloseHandle
<1>7. CallersHold'
  BY DEF IndInv, OneHolder, CallersHold, CloseHandle
<1>8. LostOnlyByClose'
  BY DEF IndInv, OwnerInv, LostOnlyByClose, CloseHandle
<1>9. ClosedForGood'
  BY DEF IndInv, ClosedForGood, CloseHandle
<1> QED BY <1>1, <1>2, <1>3, <1>4, <1>5, <1>6, <1>7, <1>8, <1>9 DEF IndInv, OneHolder

LEMMA CloseSetNullInv == ASSUME IndInv, CloseSetNull PROVE IndInv'
<1>1. TypeOK'
  BY DEF IndInv, TypeOK, OwnerPlaces, CloseSetNull
<1>2. OwnerInv'
  BY PoolAssumption DEF IndInv, TypeOK, OwnerInv, Workers, CloseSetNull
<1>3. PortInv'
  BY DEF IndInv, OwnerInv, PortInv, CloseSetNull
<1>4. VectorInv'
  BY PoolAssumption DEF IndInv, TypeOK, OwnerInv, VectorInv, Workers, CloseSetNull
<1>5. ClosedForGood'
  BY DEF IndInv, ClosedForGood, CloseSetNull
<1>6. PortHolds' /\ WorkersHold' /\ CallersHold' /\ LostOnlyByClose'
  BY DEF IndInv, OneHolder, PortHolds, WorkersHold, CallersHold, LostOnlyByClose,
     CloseSetNull
<1> QED BY <1>1, <1>2, <1>3, <1>4, <1>5, <1>6 DEF IndInv, OneHolder

LEMMA StopNoneInv == ASSUME IndInv, StopNone PROVE IndInv'
<1>1. TypeOK'
  BY DEF IndInv, TypeOK, OwnerPlaces, StopNone
<1>2. OwnerInv'
  BY DEF IndInv, OwnerInv, StopNone
<1>3. VectorInv'
  BY DEF IndInv, TypeOK, OwnerInv, VectorInv, StopNone
<1>4. ClosedForGood'
  BY DEF IndInv, TypeOK, OwnerInv, VectorInv, ClosedForGood, StopNone
<1>5. PortInv' /\ PortHolds' /\ WorkersHold' /\ CallersHold' /\ LostOnlyByClose'
  BY DEF IndInv, OneHolder, PortInv, PortHolds, WorkersHold, CallersHold,
     LostOnlyByClose, StopNone
<1> QED BY <1>1, <1>2, <1>3, <1>4, <1>5 DEF IndInv, OneHolder

(* The round of Close's loop that stopped the thread at index.             *)
LEMMA StopNextVector ==
    ASSUME IndInv, owner = "stop", m_vecThreads[index] = "thread",
           worker' = [worker EXCEPT ![index] = "dead"], StopNext
    PROVE  VectorInv'
<1>1. /\ index \in Workers
      /\ index \in Nat
      /\ nThreadCount \in Nat
      /\ worker \in [Workers -> WorkerPlaces]
      /\ m_vecThreads \in [Workers -> {"absent", "null", "thread"}]
      /\ \A w \in Workers : w < index => m_vecThreads[w] # "thread"
      /\ \A w \in Workers : m_vecThreads[w] # "thread" => worker[w] \in {"none", "dead"}
      /\ \A w \in Workers : m_vecThreads[w] # "absent"
      /\ \A w \in Workers : m_vecThreads[w] = "null" /\ w >= index => worker[w] = "none"
  BY PoolAssumption DEF IndInv, TypeOK, OwnerInv, VectorInv, Workers
<1>2. CASE index = nThreadCount
  <2>1. /\ owner' = "idle"
        /\ \A w \in Workers : m_vecThreads'[w] = "absent"
    BY <1>2 DEF StopNext
  <2>2. ASSUME NEW w \in Workers PROVE worker'[w] \in {"none", "dead"}
    <3>1. w = index \/ w < index
      BY <1>1, <1>2 DEF Workers
    <3> QED BY <1>1, <3>1
  <2> QED BY <2>1, <2>2 DEF VectorInv
<1>3. CASE index # nThreadCount
  <2>1. /\ owner' = "stop"
        /\ index' = index + 1
        /\ m_vecThreads' = [m_vecThreads EXCEPT ![index] = "null"]
    BY <1>3 DEF StopNext
  <2>2. \A w \in Workers : w < index + 1 <=> w < index \/ w = index
    BY <1>1 DEF Workers
  <2>3. \A w \in Workers : w >= index + 1 => w >= index /\ w # index
    BY <1>1 DEF Workers
  <2>4. \A w \in Workers :
            /\ m_vecThreads'[w] = IF w = index THEN "null" ELSE m_vecThreads[w]
            /\ worker'[w] = IF w = index THEN "dead" ELSE worker[w]
    BY <1>1, <2>1
  <2> QED BY <1>1, <2>1, <2>2, <2>3, <2>4 DEF VectorInv
<1> QED BY <1>2, <1>3

LEMMA StopJoinsInv == ASSUME IndInv, StopJoins PROVE IndInv'
<1>1. TypeOK'
  BY PoolAssumption DEF IndInv, TypeOK, WorkerPlaces, InTaskExcute, OwnerPlaces,
     TaskStates, Workers, OwnerInv, StopJoins, StopNext
<1>2. OwnerInv'
  BY PoolAssumption DEF IndInv, TypeOK, OwnerInv, Workers, StopJoins, StopNext
<1>3. PortInv'
  BY DEF IndInv, PortInv, StopJoins, StopNext
<1>4. VectorInv'
  BY StopNextVector DEF IndInv, TypeOK, StopJoins
<1>5. WorkersHold'
  BY DEF IndInv, OneHolder, WorkersHold, StopJoins, StopNext
<1>6. ClosedForGood'
  BY <1>4 DEF IndInv, OwnerInv, VectorInv, ClosedForGood, StopJoins, StopNext
<1>7. PortHolds' /\ CallersHold' /\ LostOnlyByClose'
  BY DEF IndInv, OneHolder, PortHolds, CallersHold, LostOnlyByClose, StopJoins, StopNext
<1> QED BY <1>1, <1>2, <1>3, <1>4, <1>5, <1>6, <1>7 DEF IndInv, OneHolder

LEMMA StopTerminatesInv == ASSUME IndInv, StopTerminates PROVE IndInv'
<1>1. index \in Workers /\ (current[index] \in Tasks => task[current[index]] = "running")
  BY DEF IndInv, TypeOK, OwnerInv, OneHolder, WorkersHold, StopTerminates
<1>2. TypeOK'
  BY PoolAssumption DEF IndInv, TypeOK, WorkerPlaces, InTaskExcute, OwnerPlaces,
     TaskStates, Workers, OwnerInv, StopTerminates, StopNext
<1>3. OwnerInv'
  BY PoolAssumption DEF IndInv, TypeOK, OwnerInv, Workers, StopTerminates, StopNext
<1>4. PortInv'
  BY DEF IndInv, PortInv, StopTerminates, StopNext
<1>5. VectorInv'
  BY StopNextVector DEF IndInv, TypeOK, StopTerminates
<1>6. PortHolds'
  BY <1>1 DEF IndInv, TypeOK, OneHolder, PortHolds, StopTerminates
<1>7. WorkersHold'
  BY PoolAssumption, <1>1 DEF IndInv, TypeOK, InTaskExcute, OneHolder, WorkersHold,
     StopTerminates
<1>8. CallersHold'
  BY <1>1 DEF IndInv, TypeOK, OneHolder, CallersHold, StopTerminates
<1>9. LostOnlyByClose'
  BY <1>1 DEF IndInv, TypeOK, OwnerInv, LostOnlyByClose, StopTerminates
<1>10. ClosedForGood'
  BY <1>5 DEF IndInv, OwnerInv, VectorInv, ClosedForGood, StopTerminates, StopNext
<1> QED BY <1>2, <1>3, <1>4, <1>5, <1>6, <1>7, <1>8, <1>9, <1>10 DEF IndInv, OneHolder

LEMMA StopCrashesInv == ASSUME IndInv, StopCrashes PROVE IndInv'
<1>1. TypeOK'
  BY DEF IndInv, TypeOK, OwnerPlaces, StopCrashes
<1>2. OwnerInv'
  BY DEF IndInv, OwnerInv, StopCrashes
<1>3. VectorInv'
  BY DEF IndInv, OwnerInv, VectorInv, StopCrashes
<1>4. ClosedForGood'
  BY DEF IndInv, ClosedForGood, StopCrashes
<1>5. PortInv' /\ PortHolds' /\ WorkersHold' /\ CallersHold' /\ LostOnlyByClose'
  BY DEF IndInv, OneHolder, PortInv, PortHolds, WorkersHold, CallersHold,
     LostOnlyByClose, StopCrashes
<1> QED BY <1>1, <1>2, <1>3, <1>4, <1>5 DEF IndInv, OneHolder

-----------------------------------------------------------------------------
(* The callers.                                                             *)

LEMMA AddTaskInv == ASSUME IndInv, NEW c \in Callers, NEW t \in Tasks, AddTask(c, t) PROVE IndInv'
<1>1. TypeOK'
  BY DEF IndInv, TypeOK, TaskStates, AddTask, Accepting
<1>2. PortHolds'
  BY DEF IndInv, TypeOK, OneHolder, PortHolds, AddTask, Accepting
<1>3. WorkersHold'
  BY DEF IndInv, TypeOK, OneHolder, WorkersHold, AddTask, Accepting
<1>4. CallersHold'
  BY DEF IndInv, TypeOK, OneHolder, CallersHold, AddTask, Accepting
<1>5. LostOnlyByClose'
  BY DEF IndInv, TypeOK, LostOnlyByClose, AddTask, Accepting
<1>6. OwnerInv' /\ PortInv' /\ VectorInv' /\ ClosedForGood'
  BY DEF IndInv, OneHolder, OwnerInv, PortInv, VectorInv, ClosedForGood, AddTask,
     Accepting
<1> QED BY <1>1, <1>2, <1>3, <1>4, <1>5, <1>6 DEF IndInv, OneHolder

LEMMA AddTaskPostInv == ASSUME IndInv, NEW c \in Callers, AddTaskPost(c) PROVE IndInv'
<1>1. /\ adding[c] \in Tasks
      /\ task[adding[c]] = "new"
      /\ ~InQueue(queue, adding[c])
      /\ \A w \in Workers : current[w] # adding[c]
  BY DEF IndInv, TypeOK, OneHolder, PortHolds, WorkersHold, CallersHold, AddTaskPost
<1> DEFINE appended == Append(queue, adding[c])
<1>2. /\ Len(queue) \in Nat
      /\ appended \in Seq(Tasks \cup {Quit})
      /\ Len(appended) = Len(queue) + 1
      /\ \A i \in 1 .. Len(queue) : appended[i] = queue[i]
      /\ appended[Len(queue) + 1] = adding[c]
  BY <1>1, AppendQueue DEF IndInv, TypeOK
<1>3. /\ OnePlace(appended)
      /\ \A t \in Tasks : InQueue(appended, t) <=> InQueue(queue, t) \/ t = adding[c]
  BY <1>1, AppendHolds DEF IndInv, TypeOK, OneHolder, PortHolds
<1>4. \/ m_hIocp = "open" /\ queue' = appended /\ task' = [task EXCEPT ![adding[c]] = "queued"]
      \/ m_hIocp # "open" /\ queue' = queue /\ task' = [task EXCEPT ![adding[c]] = "rejected"]
  BY DEF AddTaskPost
<1> HIDE DEF appended
<1>5. TypeOK'
  BY <1>1, <1>2, <1>4 DEF IndInv, TypeOK, TaskStates, AddTaskPost
<1>6. PortInv'
  BY PoolAssumption, <1>1, <1>2, <1>4 DEF IndInv, PortInv, AddTaskPost
<1>7. PortHolds'
  BY <1>1, <1>3, <1>4 DEF IndInv, TypeOK, OneHolder, PortHolds
<1>8. WorkersHold'
  BY <1>1, <1>4 DEF IndInv, TypeOK, OneHolder, WorkersHold, AddTaskPost
<1>9. CallersHold'
  BY PoolAssumption DEF IndInv, TypeOK, OneHolder, PortHolds, WorkersHold,
     CallersHold, AddTaskPost
<1>10. LostOnlyByClose'
  BY DEF IndInv, TypeOK, LostOnlyByClose, AddTaskPost
<1>11. OwnerInv' /\ VectorInv' /\ ClosedForGood'
  BY DEF IndInv, OneHolder, OwnerInv, VectorInv, ClosedForGood, AddTaskPost
<1> QED BY <1>5, <1>6, <1>7, <1>8, <1>9, <1>10, <1>11 DEF IndInv, OneHolder

-----------------------------------------------------------------------------
(* The workers.                                                             *)

LEMMA WhileTestInv == ASSUME IndInv, NEW w \in Workers, WhileTest(w) PROVE IndInv'
<1>1. TypeOK'
  BY DEF IndInv, TypeOK, WorkerPlaces, InTaskExcute, WhileTest, Goes
<1>2. PortInv'
  BY DEF IndInv, PortInv, WhileTest, Goes
<1>3. VectorInv'
  BY DEF IndInv, VectorInv, WhileTest, Goes
<1>4. WorkersHold'
  BY DEF IndInv, OneHolder, WorkersHold, WhileTest, Goes
<1>5. ClosedForGood'
  BY DEF IndInv, ClosedForGood, WhileTest, Goes
<1>6. OwnerInv' /\ PortHolds' /\ CallersHold' /\ LostOnlyByClose'
  BY DEF IndInv, OneHolder, OwnerInv, PortHolds, CallersHold, LostOnlyByClose,
     WhileTest, Goes
<1> QED BY <1>1, <1>2, <1>3, <1>4, <1>5, <1>6 DEF IndInv, OneHolder

LEMMA StatusTestInv == ASSUME IndInv, NEW w \in Workers, StatusTest(w) PROVE IndInv'
<1>1. TypeOK'
  BY DEF IndInv, TypeOK, WorkerPlaces, InTaskExcute, StatusTest, Goes
<1>2. PortInv'
  BY DEF IndInv, PortInv, StatusTest, Goes
<1>3. VectorInv'
  BY DEF IndInv, VectorInv, StatusTest, Goes
<1>4. WorkersHold'
  BY DEF IndInv, OneHolder, WorkersHold, StatusTest, Goes
<1>5. ClosedForGood'
  BY DEF IndInv, ClosedForGood, StatusTest, Goes
<1>6. OwnerInv' /\ PortHolds' /\ CallersHold' /\ LostOnlyByClose'
  BY DEF IndInv, OneHolder, OwnerInv, PortHolds, CallersHold, LostOnlyByClose,
     StatusTest, Goes
<1> QED BY <1>1, <1>2, <1>3, <1>4, <1>5, <1>6 DEF IndInv, OneHolder

LEMMA GetTaskInv == ASSUME IndInv, NEW w \in Workers, GetTask(w) PROVE IndInv'
<1>1. /\ Len(queue) \in Nat \ {0}
      /\ Head(queue) = queue[1]
      /\ Head(queue) \in Tasks \cup {Quit}
      /\ queue' \in Seq(Tasks \cup {Quit})
      /\ Len(queue') = Len(queue) - 1
      /\ \A i \in 1 .. Len(queue) - 1 : queue'[i] = queue[i + 1]
  BY TailQueue DEF IndInv, TypeOK, GetTask
<1>2. /\ OnePlace(queue')
      /\ \A t \in Tasks : InQueue(queue', t) <=> InQueue(queue, t) /\ t # Head(queue)
  BY TailHolds DEF IndInv, TypeOK, OneHolder, PortHolds, GetTask
<1>3. Head(queue) \in Tasks => task[Head(queue)] = "queued"
  BY <1>1 DEF IndInv, OneHolder, PortHolds, InQueue
<1>4. TypeOK'
  BY <1>1 DEF IndInv, TypeOK, WorkerPlaces, InTaskExcute, TaskStates, GetTask, Goes
<1>5. PortInv'
  BY <1>1 DEF IndInv, TypeOK, PortInv, GetTask, Goes
<1>6. VectorInv'
  BY DEF IndInv, VectorInv, GetTask, Goes
<1>7. PortHolds'
  BY PoolAssumption, <1>2 DEF IndInv, TypeOK, OneHolder, PortHolds, GetTask
<1>8. WorkersHold'
  BY PoolAssumption, <1>3 DEF IndInv, TypeOK, OneHolder, WorkersHold, GetTask, Goes
<1>9. CallersHold'
  BY <1>3 DEF IndInv, TypeOK, OneHolder, CallersHold, GetTask
<1>10. LostOnlyByClose'
  BY DEF IndInv, TypeOK, PortInv, LostOnlyByClose, GetTask, Goes
<1>11. ClosedForGood'
  BY DEF IndInv, ClosedForGood, GetTask, Goes
<1>12. OwnerInv'
  BY DEF IndInv, OneHolder, OwnerInv, GetTask, Goes
<1> QED BY <1>4, <1>5, <1>6, <1>7, <1>8, <1>9, <1>10, <1>11, <1>12 DEF IndInv, OneHolder

LEMMA GetQuitInv == ASSUME IndInv, NEW w \in Workers, GetQuit(w) PROVE IndInv'
<1>1. /\ Len(queue) \in Nat \ {0}
      /\ Head(queue) = queue[1]
      /\ Head(queue) \in Tasks \cup {Quit}
      /\ queue' \in Seq(Tasks \cup {Quit})
      /\ Len(queue') = Len(queue) - 1
      /\ \A i \in 1 .. Len(queue) - 1 : queue'[i] = queue[i + 1]
  BY TailQueue DEF IndInv, TypeOK, GetQuit
<1>2. /\ OnePlace(queue')
      /\ \A t \in Tasks : InQueue(queue', t) <=> InQueue(queue, t) /\ t # Head(queue)
  BY TailHolds DEF IndInv, TypeOK, OneHolder, PortHolds, GetQuit
<1>3. Head(queue) \in Tasks => task[Head(queue)] = "queued"
  BY <1>1 DEF IndInv, OneHolder, PortHolds, InQueue
<1>4. TypeOK'
  BY <1>1 DEF IndInv, TypeOK, WorkerPlaces, InTaskExcute, TaskStates, GetQuit, Goes
<1>5. PortInv'
  BY <1>1 DEF IndInv, TypeOK, PortInv, GetQuit, Goes
<1>6. VectorInv'
  BY DEF IndInv, VectorInv, GetQuit, Goes
<1>7. PortHolds'
  BY PoolAssumption, <1>2 DEF IndInv, TypeOK, OneHolder, PortHolds, GetQuit
<1>8. WorkersHold'
  BY PoolAssumption, <1>3 DEF IndInv, TypeOK, OneHolder, WorkersHold, GetQuit, Goes
<1>9. CallersHold'
  BY <1>3 DEF IndInv, TypeOK, OneHolder, CallersHold, GetQuit
<1>10. LostOnlyByClose'
  BY DEF IndInv, TypeOK, PortInv, LostOnlyByClose, GetQuit, Goes
<1>11. ClosedForGood'
  BY DEF IndInv, ClosedForGood, GetQuit, Goes
<1>12. OwnerInv'
  BY DEF IndInv, OneHolder, OwnerInv, GetQuit, Goes
<1> QED BY <1>4, <1>5, <1>6, <1>7, <1>8, <1>9, <1>10, <1>11, <1>12 DEF IndInv, OneHolder

LEMMA GetFailsInv == ASSUME IndInv, NEW w \in Workers, GetFails(w) PROVE IndInv'
<1>1. TypeOK'
  BY DEF IndInv, TypeOK, WorkerPlaces, InTaskExcute, GetFails, Goes
<1>2. PortInv'
  BY DEF IndInv, PortInv, GetFails, Goes
<1>3. VectorInv'
  BY DEF IndInv, VectorInv, GetFails, Goes
<1>4. WorkersHold'
  BY DEF IndInv, OneHolder, WorkersHold, GetFails, Goes
<1>5. ClosedForGood'
  BY DEF IndInv, ClosedForGood, GetFails, Goes
<1>6. OwnerInv' /\ PortHolds' /\ CallersHold' /\ LostOnlyByClose'
  BY DEF IndInv, OneHolder, OwnerInv, PortHolds, CallersHold, LostOnlyByClose,
     GetFails, Goes
<1> QED BY <1>1, <1>2, <1>3, <1>4, <1>5, <1>6 DEF IndInv, OneHolder

LEMMA RunEndsInv == ASSUME IndInv, NEW w \in Workers, RunEnds(w) PROVE IndInv'
<1>1. TypeOK'
  BY DEF IndInv, TypeOK, WorkerPlaces, InTaskExcute, TaskStates, RunEnds, Goes
<1>2. PortInv'
  BY DEF IndInv, PortInv, RunEnds, Goes
<1>3. VectorInv'
  BY DEF IndInv, VectorInv, RunEnds, Goes
<1>4. PortHolds'
  BY DEF IndInv, TypeOK, OneHolder, PortHolds, WorkersHold, RunEnds, Goes
<1>5. WorkersHold'
  BY PoolAssumption DEF IndInv, TypeOK, OwnerInv, VectorInv, OneHolder, WorkersHold,
     RunEnds, Goes
<1>6. CallersHold'
  BY DEF IndInv, TypeOK, OneHolder, WorkersHold, CallersHold, RunEnds, Goes
<1>7. LostOnlyByClose'
  BY DEF IndInv, LostOnlyByClose, RunEnds, Goes
<1>8. ClosedForGood'
  BY DEF IndInv, ClosedForGood, RunEnds, Goes
<1>9. OwnerInv'
  BY DEF IndInv, OneHolder, OwnerInv, RunEnds, Goes
<1> QED BY <1>1, <1>2, <1>3, <1>4, <1>5, <1>6, <1>7, <1>8, <1>9 DEF IndInv, OneHolder

LEMMA ClearIocpQueueInv == ASSUME IndInv, NEW w \in Workers, ClearIocpQueue(w) PROVE IndInv'
<1>1. /\ Len(queue) \in Nat \ {0}
      /\ Head(queue) = queue[1]
      /\ Head(queue) \in Tasks \cup {Quit}
      /\ queue' \in Seq(Tasks \cup {Quit})
      /\ Len(queue') = Len(queue) - 1
      /\ \A i \in 1 .. Len(queue) - 1 : queue'[i] = queue[i + 1]
  BY TailQueue DEF IndInv, TypeOK, ClearIocpQueue
<1>2. /\ OnePlace(queue')
      /\ \A t \in Tasks : InQueue(queue', t) <=> InQueue(queue, t) /\ t # Head(queue)
  BY TailHolds DEF IndInv, TypeOK, OneHolder, PortHolds, ClearIocpQueue
<1>3. Head(queue) \in Tasks => task[Head(queue)] = "queued"
  BY <1>1 DEF IndInv, OneHolder, PortHolds, InQueue
<1>4. TypeOK'
  BY <1>1 DEF IndInv, TypeOK, WorkerPlaces, InTaskExcute, TaskStates, ClearIocpQueue,
     Goes
<1>5. PortInv'
  BY <1>1 DEF IndInv, TypeOK, PortInv, ClearIocpQueue, Goes
<1>6. VectorInv'
  BY DEF IndInv, VectorInv, ClearIocpQueue, Goes
<1>7. PortHolds'
  BY PoolAssumption, <1>2 DEF IndInv, TypeOK, OneHolder, PortHolds, ClearIocpQueue
<1>8. WorkersHold'
  BY PoolAssumption, <1>3 DEF IndInv, TypeOK, OneHolder, WorkersHold, ClearIocpQueue,
     Goes
<1>9. CallersHold'
  BY <1>3 DEF IndInv, TypeOK, OneHolder, CallersHold, ClearIocpQueue
<1>10. LostOnlyByClose'
  BY DEF IndInv, TypeOK, PortInv, LostOnlyByClose, ClearIocpQueue, Goes
<1>11. ClosedForGood'
  BY DEF IndInv, ClosedForGood, ClearIocpQueue, Goes
<1>12. OwnerInv'
  BY DEF IndInv, OneHolder, OwnerInv, ClearIocpQueue, Goes
<1> QED BY <1>4, <1>5, <1>6, <1>7, <1>8, <1>9, <1>10, <1>11, <1>12 DEF IndInv, OneHolder

LEMMA ClearEndsInv == ASSUME IndInv, NEW w \in Workers, ClearEnds(w) PROVE IndInv'
<1>1. TypeOK'
  BY DEF IndInv, TypeOK, WorkerPlaces, InTaskExcute, ClearEnds, Goes
<1>2. PortInv'
  BY DEF IndInv, PortInv, ClearEnds, Goes
<1>3. VectorInv'
  BY DEF IndInv, VectorInv, ClearEnds, Goes
<1>4. WorkersHold'
  BY DEF IndInv, OneHolder, WorkersHold, ClearEnds, Goes
<1>5. ClosedForGood'
  BY DEF IndInv, ClosedForGood, ClearEnds, Goes
<1>6. OwnerInv' /\ PortHolds' /\ CallersHold' /\ LostOnlyByClose'
  BY DEF IndInv, OneHolder, OwnerInv, PortHolds, CallersHold, LostOnlyByClose,
     ClearEnds, Goes
<1> QED BY <1>1, <1>2, <1>3, <1>4, <1>5, <1>6 DEF IndInv, OneHolder

-----------------------------------------------------------------------------
(* The invariant, and what follows from it.                                *)

LEMMA InitInv == Init => IndInv
<1> SUFFICES ASSUME Init PROVE IndInv
  OBVIOUS
<1>1. TypeOK /\ queue = << >> /\ Len(queue) = 0
  BY PoolAssumption, EmptySeq
     DEF Init, TypeOK, WorkerPlaces, OwnerPlaces, TaskStates, Workers
<1>2. OwnerInv /\ PortInv /\ VectorInv
  BY <1>1 DEF Init, OwnerInv, PortInv, VectorInv
<1>3. OneHolder
  BY <1>1, PoolAssumption
     DEF Init, OneHolder, PortHolds, InQueue, OnePlace, WorkersHold, CallersHold
<1>4. LostOnlyByClose /\ ClosedForGood
  BY DEF Init, LostOnlyByClose, ClosedForGood
<1> QED BY <1>1, <1>2, <1>3, <1>4 DEF IndInv

LEMMA NextInv == IndInv /\ [Next]_vars => IndInv'
<1> SUFFICES ASSUME IndInv, [Next]_vars PROVE IndInv'
  OBVIOUS
<1>1. CASE StartSteps
  BY <1>1, StartInv, StartThreadInv, StartThreadFailsInv DEF StartSteps
<1>2. CASE CloseCall
  BY <1>2, CloseCallInv
<1>3. CASE CloseSteps
  BY <1>3, CloseStatusInv, ClosePostInv, CloseHandleInv, CloseSetNullInv,
     StopNoneInv, StopJoinsInv, StopTerminatesInv, StopCrashesInv DEF CloseSteps
<1>4. ASSUME NEW c \in Callers, AddTaskSteps(c) PROVE IndInv'
  BY <1>4, AddTaskInv, AddTaskPostInv DEF AddTaskSteps
<1>5. ASSUME NEW w \in Workers, TaskExcute(w) PROVE IndInv'
  BY <1>5, WhileTestInv, StatusTestInv, GetTaskInv, GetQuitInv, GetFailsInv,
     RunEndsInv, ClearIocpQueueInv, ClearEndsInv DEF TaskExcute
<1>6. CASE UNCHANGED vars
  BY <1>6 DEF vars, IndInv, TypeOK, OwnerInv, PortInv, VectorInv, OneHolder,
     PortHolds, WorkersHold, CallersHold, LostOnlyByClose, ClosedForGood
<1> QED BY <1>1, <1>2, <1>3, <1>4, <1>5, <1>6 DEF Next

(* IndInv holds in every reachable state.                                  *)
THEOREM Invariance == Spec => []IndInv
BY InitInv, NextInv, PTL DEF Spec

(* Every variable of the pool keeps its type.                              *)
THEOREM TypeCorrect == Spec => []TypeOK
<1>1. IndInv => TypeOK
  BY DEF IndInv
<1> QED BY <1>1, Invariance, PTL

(* A task has one holder at any time: no task is run twice, and none is    *)
(* deleted under the worker that runs it.                                  *)
THEOREM EveryTaskHasOneHolder == Spec => []OneHolder
<1>1. IndInv => OneHolder
  BY DEF IndInv
<1> QED BY <1>1, Invariance, PTL

(* No accepted task is lost before Close begins.                           *)
THEOREM NothingLostWhileOpen == Spec => []LostOnlyByClose
<1>1. IndInv => LostOnlyByClose
  BY DEF IndInv
<1> QED BY <1>1, Invariance, PTL

(* After Close no task runs, not even in a pool that is started again.     *)
THEOREM CloseIsFinal == Spec => []ClosedForGood
<1>1. IndInv => ClosedForGood
  BY DEF IndInv
<1> QED BY <1>1, Invariance, PTL

(* No thread of the pool is left when Close has ended, and Close meets a   *)
(* NULL thread only if Start failed to resume one.                         *)
THEOREM CloseStopsEveryThread == Spec => []CloseStopsAll
<1>1. IndInv => NoWorkerSurvivesClose
  BY DEF IndInv, VectorInv, NoWorkerSurvivesClose
<1>2. IndInv => CrashNeedsFailedStart
  BY PoolAssumption DEF IndInv, TypeOK, VectorInv, CrashNeedsFailedStart, Crashed, Workers
<1>3. IndInv => CloseStopsAll
  BY <1>1, <1>2 DEF CloseStopsAll
<1> QED BY <1>3, Invariance, PTL

-----------------------------------------------------------------------------
(* The pool implements module TaskExecutor.                                *)

(* No worker waits at an open port.                                        *)
NoTaker == m_hIocp # "open" \/ \A w \in Workers : worker[w] # "gqcs"

LEMMA PhaseMeaning ==
    ASSUME m_nStatus \in {0, 1}
    PROVE  /\ Phase = "open" <=> m_nStatus = 0
           /\ Phase = "closed" <=> m_nStatus = 1 /\ NoTaker
           /\ Phase = "closing" <=> m_nStatus = 1 /\ ~NoTaker
<1>1. CASE m_nStatus = 0
  BY <1>1 DEF Phase
<1>2. CASE m_nStatus = 1 /\ NoTaker
  BY <1>2 DEF Phase, NoTaker
<1>3. CASE m_nStatus = 1 /\ ~NoTaker
  BY <1>3 DEF Phase, NoTaker
<1> QED BY <1>1, <1>2, <1>3

(* Once no worker can take a task from a closing pool, none ever will.     *)
LEMMA NoTakerStays ==
    ASSUME IndInv, [Next]_vars, m_nStatus = 1
    PROVE  m_nStatus' = 1 /\ (NoTaker => NoTaker')
<1>1. CASE StartSteps
  BY <1>1 DEF IndInv, TypeOK, StartSteps, Start, StartThread, StartThreadFails, NoTaker
<1>2. CASE CloseCall
  BY <1>2 DEF CloseCall, NoTaker
<1>3. CASE CloseSteps
  BY <1>3 DEF IndInv, TypeOK, CloseSteps, CloseStatus, ClosePost, CloseHandle,
     CloseSetNull, StopNone, StopJoins, StopTerminates, StopCrashes, NoTaker
<1>4. ASSUME NEW c \in Callers, AddTaskSteps(c) PROVE m_nStatus' = 1 /\ (NoTaker => NoTaker')
  BY <1>4 DEF AddTaskSteps, AddTask, AddTaskPost, NoTaker
<1>5. ASSUME NEW w \in Workers, TaskExcute(w) PROVE m_nStatus' = 1 /\ (NoTaker => NoTaker')
  BY <1>5 DEF IndInv, TypeOK, TaskExcute, WhileTest, StatusTest, GetTask, GetQuit,
     GetFails, RunEnds, ClearIocpQueue, ClearEnds, Goes, NoTaker
<1>6. CASE UNCHANGED vars
  BY <1>6 DEF vars, NoTaker
<1> QED BY <1>1, <1>2, <1>3, <1>4, <1>5, <1>6 DEF Next

LEMMA PhaseStep ==
    ASSUME IndInv, IndInv', [Next]_vars
    PROVE  Phase' \in Executor!Later(Phase)
<1>1. m_nStatus \in {0, 1} /\ m_nStatus' \in {0, 1}
  BY DEF IndInv, TypeOK
<1>2. Phase' = "open" \/ Phase' = "closing" \/ Phase' = "closed"
  BY DEF Phase
<1>3. /\ Phase' = "open" <=> m_nStatus' = 0
      /\ Phase' = "closed" <=> m_nStatus' = 1 /\ NoTaker'
  <2>1. CASE m_nStatus' = 0
    BY <2>1 DEF Phase
  <2>2. CASE m_nStatus' = 1 /\ NoTaker'
    BY <2>2 DEF Phase, NoTaker
  <2>3. CASE m_nStatus' = 1 /\ ~NoTaker'
    BY <2>3 DEF Phase, NoTaker
  <2> QED BY <1>1, <2>1, <2>2, <2>3
<1>4. CASE m_nStatus = 0
  BY <1>2, <1>4, PhaseMeaning DEF Executor!Later, Executor!Phases
<1>5. CASE m_nStatus = 1
  BY <1>1, <1>2, <1>3, <1>5, PhaseMeaning, NoTakerStays DEF Executor!Later
<1> QED BY <1>1, <1>4, <1>5

(* The steps by which the state of a task changes.                         *)
LEMMA MoveStep ==
    ASSUME IndInv, [Next]_vars, NEW t \in Tasks, task'[t] # task[t]
    PROVE  \/ task[t] = "new" /\ task'[t] \in {"rejected", "queued"}
           \/ task[t] = "queued" /\ task'[t] = "running" /\ ~NoTaker
           \/ task[t] = "running" /\ task'[t] = "executed"
           \/ task[t] = "queued" /\ task'[t] \in {"cleared", "abandoned"} /\ m_nStatus = 1
           \/ task[t] = "running" /\ task'[t] = "cut" /\ m_nStatus = 1 /\ NoTaker
<1>1. CASE StartSteps
  BY <1>1 DEF StartSteps, Start, StartThread, StartThreadFails
<1>2. CASE CloseCall
  BY <1>2 DEF CloseCall
<1>3. CASE CloseSteps
  <2>1. CASE CloseHandle
    BY <2>1 DEF IndInv, TypeOK, OwnerInv, CloseHandle
  <2>2. CASE StopTerminates
    BY <2>2 DEF IndInv, TypeOK, OwnerInv, OneHolder, WorkersHold, StopTerminates, NoTaker
  <2>3. CASE ~CloseHandle /\ ~StopTerminates
    BY <1>3, <2>3 DEF CloseSteps, CloseStatus, ClosePost, CloseSetNull, StopNone,
       StopJoins, StopCrashes
  <2> QED BY <2>1, <2>2, <2>3
<1>4. ASSUME NEW c \in Callers, AddTaskSteps(c)
      PROVE  task[t] = "new" /\ task'[t] \in {"rejected", "queued"}
  BY <1>4 DEF IndInv, TypeOK, OneHolder, CallersHold, AddTaskSteps, AddTask, AddTaskPost
<1>5. ASSUME NEW w \in Workers, TaskExcute(w)
      PROVE  \/ task[t] = "queued" /\ task'[t] = "running" /\ ~NoTaker
             \/ task[t] = "running" /\ task'[t] = "executed"
             \/ task[t] = "queued" /\ task'[t] = "cleared" /\ m_nStatus = 1
  <2>1. queue # << >> /\ Head(queue) \in Tasks => task[Head(queue)] = "queued"
    BY TailQueue DEF IndInv, TypeOK, OneHolder, PortHolds, InQueue
  <2>2. CASE GetTask(w)
    BY <2>1, <2>2 DEF IndInv, TypeOK, GetTask, Goes, NoTaker
  <2>3. CASE RunEnds(w)
    BY <2>3 DEF IndInv, TypeOK, OneHolder, WorkersHold, RunEnds, Goes
  <2>4. CASE ClearIocpQueue(w)
    BY <2>1, <2>4 DEF IndInv, TypeOK, PortInv, ClearIocpQueue, Goes
  <2>5. CASE ~GetTask(w) /\ ~RunEnds(w) /\ ~ClearIocpQueue(w)
    BY <1>5, <2>5 DEF TaskExcute, WhileTest, StatusTest, GetQuit, GetFails, ClearEnds
  <2> QED BY <2>2, <2>3, <2>4, <2>5
<1>6. CASE UNCHANGED vars
  BY <1>6 DEF vars
<1> QED BY <1>1, <1>2, <1>3, <1>4, <1>5, <1>6 DEF Next

(* The pool, seen through Phase and Outcome, is a task executor: at most   *)
(* one run per task, no loss while it is open, no new run once closed.     *)
THEOREM PoolImplementsExecutor == Spec => ImplementsExecutor
<1> DEFINE states == {"new", "rejected", "accepted", "running", "executed", "discarded", "cut"}
           mapped == [t \in Tasks |-> Outcome(task[t])]
<1>1. Init => Executor!Init
  BY DEF Init, Executor!Init, Phase, Outcome
<1>2. IndInv /\ IndInv' /\ [Next]_vars => [Executor!Next]_(Executor!vars)
  <2> SUFFICES ASSUME IndInv, IndInv', [Next]_vars PROVE Executor!Next
    OBVIOUS
  <2>1. Phase' \in Executor!Later(Phase)
    BY PhaseStep
  <2>2. \A t \in Tasks : Outcome(task[t])' \in states
    BY DEF IndInv, TypeOK, TaskStates, Outcome
  <2>3. ASSUME NEW t \in Tasks, mapped'[t] # mapped[t]
        PROVE  << mapped[t], mapped'[t] >> \in Executor!Moves(Phase)
    <3>1. task'[t] # task[t]
      BY <2>3
    <3>2. \/ task[t] = "new" /\ task'[t] \in {"rejected", "queued"}
          \/ task[t] = "queued" /\ task'[t] = "running" /\ Phase # "closed"
          \/ task[t] = "running" /\ task'[t] = "executed"
          \/ task[t] = "queued" /\ task'[t] \in {"cleared", "abandoned"} /\ Phase # "open"
          \/ task[t] = "running" /\ task'[t] = "cut" /\ Phase = "closed"
      BY <3>1, MoveStep, PhaseMeaning DEF IndInv, TypeOK
    <3> QED BY <3>2 DEF Outcome, Executor!Moves
  <2> QED BY <2>1, <2>2, <2>3 DEF Executor!Next
<1>3. Spec => Executor!Spec
  BY <1>1, <1>2, Invariance, PTL DEF Spec, Executor!Spec
<1> QED BY <1>3 DEF ImplementsExecutor
=============================================================================
