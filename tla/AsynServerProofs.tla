--------------------------- MODULE AsynServerProofs ---------------------------
(***************************************************************************)
(* Proofs about module AsynServer, for any number of workers, clients and  *)
(* chunks: its invariants.                                                 *)
(***************************************************************************)
EXTENDS AsynServer, QueueLemmas, FiniteSetTheorems, TLAPS

LEMMA CpuCount == nCpuCount \in Nat \ {0}
BY ServerAssumption, FS_CardinalityType, FS_EmptySet DEF nCpuCount

LEMMA CompletionTypes ==
    /\ Quit \in Completion
    /\ \A type \in {"accept", "recv", "send"}, c \in Clients, k \in 0 .. MaxPackets, ok \in BOOLEAN :
           Completed(type, c, k, ok) \in Completion
    /\ 0 \in 0 .. MaxPackets
BY ServerAssumption DEF Completion, Completed, Quit

-----------------------------------------------------------------------------
(* Type correctness.                                                       *)

LEMMA AddTaskType ==
    ASSUME TypeOK, NEW t \in {"Accept", "ServerMain"}, AddTask(t)
    PROVE  tasks' \in Seq({"Accept", "ServerMain"})
<1>1. tasks \in Seq({"Accept", "ServerMain"})
  BY DEF TypeOK
<1>2. Append(tasks, t) \in Seq({"Accept", "ServerMain"})
  BY <1>1, AppendQueue
<1> QED BY <1>1, <1>2 DEF AddTask

LEMMA GoesType ==
    ASSUME TypeOK, NEW w \in Workers, NEW from, NEW to \in WorkerPlaces, Goes(w, from, to)
    PROVE  /\ worker' \in [Workers -> WorkerPlaces]
           /\ UNCHANGED << pool, m_socket, m_business, owner, index >>
BY DEF TypeOK, Goes, ownerVars

LEMMA RecvType ==
    ASSUME TypeOK, NEW c, Recv(c)
    PROVE  recvs' \in [Clients -> Nat]
<1> DEFINE n == IF conn[c] = "reset" THEN recvs[c] ELSE recvs[c] + 1
<1>1. recvs' = [recvs EXCEPT ![c] = n] /\ recvs \in [Clients -> Nat]
  BY DEF TypeOK, Recv
<1>2. ASSUME c \in Clients PROVE n \in Nat
  BY <1>1, <1>2
<1> HIDE DEF n
<1> QED BY <1>1, <1>2

LEMMA CompletesType ==
    ASSUME TypeOK, NEW e \in Completion, Completes(e)
    PROVE  /\ port' \in Seq(Completion)
           /\ UNCHANGED << m_socket, m_business, owner, index, m_mapClients, pool,
                           tasks, worker, hand, sent, told >>
BY AppendQueue DEF TypeOK, Completes, ownerVars, poolVars

LEMMA StartType == ASSUME TypeOK, Start PROVE TypeOK'
<1> USE DEF WorkerPlaces, OwnerPlaces, StartPlaces, kernelVars, poolVars
<1>1. CASE StartRun
  BY <1>1 DEF TypeOK, StartRun
<1>2. CASE StartAccept
  BY <1>2, AddTaskType DEF TypeOK, StartAccept
<1>3. CASE StartMain
  <2>1. index' \in 1 .. nCpuCount
    BY <1>3, CpuCount DEF TypeOK, StartMain
  <2> QED BY <1>3, <2>1, AddTaskType DEF TypeOK, StartMain
<1>4. CASE StartBusiness
  BY <1>4 DEF TypeOK, StartBusiness
<1> QED BY <1>1, <1>2, <1>3, <1>4 DEF Start

LEMMA CloseType == ASSUME TypeOK, Close \/ CloseSteps PROVE TypeOK'
<1> USE DEF WorkerPlaces, OwnerPlaces, ClosePlaces, kernelVars, poolVars
<1>1. CASE Close
  BY <1>1 DEF TypeOK, Close
<1>2. CASE ClosePost
  <2>1. port' \in Seq(Completion)
    BY <1>2, AppendQueue, CompletionTypes DEF TypeOK, ClosePost
  <2> QED BY <1>2, <2>1 DEF TypeOK, ClosePost
<1>3. CASE CloseTaskStatus
  BY <1>3 DEF TypeOK, CloseTaskStatus
<1>4. CASE CloseTaskQueue
  BY <1>4 DEF TypeOK, CloseTaskQueue
<1>5. CASE CloseTaskStop
  BY <1>5 DEF TypeOK, CloseTaskStop
<1>6. CASE CloseSocket
  BY <1>6 DEF TypeOK, CloseSocket, Connections
<1>7. CASE CloseHandle
  BY <1>7 DEF TypeOK, CloseHandle
<1> QED BY <1>1, <1>2, <1>3, <1>4, <1>5, <1>6, <1>7 DEF CloseSteps

LEMMA WorkerType == ASSUME TypeOK, NEW w \in Workers, Worker(w) PROVE TypeOK'
<1> USE DEF WorkerPlaces, InServerMain, kernelVars
<1>1. CASE TakeTask(w)
  <2>1. tasks' \in Seq({"Accept", "ServerMain"})
    BY <1>1, TailQueue DEF TypeOK, TakeTask
  <2> QED BY <1>1, <2>1, GoesType DEF TypeOK, TakeTask
<1>2. CASE Accept(w)
  BY <1>2, GoesType DEF TypeOK, Accept, Connections
<1>3. CASE GetCompletion(w)
  <2>1. port' \in Seq(Completion) /\ Head(port) \in Completion
    BY <1>3, TailQueue DEF TypeOK, GetCompletion
  <2>2. hand' \in [Workers -> Completion]
    BY <1>3, <2>1, CompletionTypes DEF TypeOK, GetCompletion
  <2> QED BY <1>3, <2>1, <2>2, GoesType DEF TypeOK, GetCompletion, Serves
<1>4. CASE GetFails(w)
  BY <1>4, GoesType DEF TypeOK, GetFails
<1>5. CASE NewAccept(w)
  BY <1>5, GoesType, AddTaskType DEF TypeOK, NewAccept
<1>6. CASE Register(w)
  BY <1>6, GoesType DEF TypeOK, Register
<1>7. CASE FirstRecv(w)
  <2>1. recvs' \in [Clients -> Nat]
    BY <1>7, RecvType DEF FirstRecv
  <2> QED BY <1>7, <2>1, GoesType DEF TypeOK, FirstRecv, Recv
<1>8. CASE Rearm(w)
  <2>1. recvs' \in [Clients -> Nat]
    BY <1>8, RecvType DEF Rearm
  <2> QED BY <1>8, <2>1, GoesType DEF TypeOK, Rearm, Recv
<1>9. ASSUME NEW from, NEW news \in Seq(0 .. MaxPackets), Tells(w, from, news)
      PROVE  TypeOK'
  <2>1. told' \in [Clients -> Seq(0 .. MaxPackets)]
    BY <1>9, ConcatProperties DEF TypeOK, Tells
  <2>2. hand' \in [Workers -> Completion]
    BY <1>9, CompletionTypes DEF TypeOK, Tells
  <2> QED BY <1>9, <2>1, <2>2, GoesType DEF TypeOK, Tells
<1>10. CASE ClientConnected(w) \/ ClientRecvData(w) \/ ClientSendDone(w)
  <2>1. /\ << >> \in Seq(0 .. MaxPackets) /\ << 0 >> \in Seq(0 .. MaxPackets)
        /\ hand[w].packet \in 0 .. MaxPackets
        /\ << hand[w].packet >> \in Seq(0 .. MaxPackets)
    BY ServerAssumption DEF TypeOK, Completion, Quit, Completed
  <2> QED BY <1>9, <1>10, <2>1 DEF ClientConnected, ClientRecvData, ClientSendDone
<1>11. CASE TestServing(w)
  BY <1>11, GoesType DEF TypeOK, TestServing
<1>12. CASE NextServerMain(w)
  BY <1>12, GoesType, AddTaskType DEF TypeOK, NextServerMain
<1> QED BY <1>1, <1>2, <1>3, <1>4, <1>5, <1>6, <1>7, <1>8, <1>10, <1>11, <1>12
        DEF Worker, ServerMain

LEMMA ClientType == ASSUME TypeOK, NEW c \in Clients, Business(c) \/ Kernel(c) PROVE TypeOK'
<1> USE DEF Connections
<1>1. CASE Send(c)
  <2>1. sent' \in [Clients -> 0 .. MaxSends]
    BY <1>1, ServerAssumption DEF TypeOK, Send
  <2>2. sends' \in [Clients -> Nat]
    BY <1>1 DEF TypeOK, Send
  <2> QED BY <1>1, <2>1, <2>2 DEF TypeOK, Send, ownerVars, poolVars
<1>2. CASE DelClient(c)
  BY <1>2 DEF TypeOK, DelClient, ownerVars, poolVars, kernelVars
<1>3. CASE PeerConnects(c)
  <2>1. Completed("accept", c, 0, TRUE) \in Completion
    BY CompletionTypes
  <2> QED BY <1>3, <2>1, CompletesType DEF TypeOK, PeerConnects
<1>4. CASE AcceptFails(c)
  <2>1. Completed("accept", c, 0, FALSE) \in Completion
    BY CompletionTypes
  <2> QED BY <1>4, <2>1, CompletesType DEF TypeOK, AcceptFails
<1>5. CASE RecvCompletes(c)
  <2>1. recvs' \in [Clients -> Nat]
    BY <1>5 DEF TypeOK, RecvCompletes
  <2>2. CASE /\ received[c] < MaxPackets
             /\ received' = [received EXCEPT ![c] = @ + 1]
             /\ Completes(Completed("recv", c, received[c] + 1, TRUE))
    <3>1. received[c] + 1 \in 0 .. MaxPackets
      BY <2>2, ServerAssumption DEF TypeOK
    <3>2. Completed("recv", c, received[c] + 1, TRUE) \in Completion
      BY <3>1, CompletionTypes
    <3>3. received' \in [Clients -> 0 .. MaxPackets]
      BY <2>2, <3>1 DEF TypeOK
    <3> QED BY <1>5, <2>1, <2>2, <3>2, <3>3, CompletesType DEF TypeOK, RecvCompletes
  <2>3. CASE /\ Completes(Completed("recv", c, 0, conn[c] = "eof"))
             /\ UNCHANGED received
    <3>1. (conn[c] = "eof") \in BOOLEAN
      OBVIOUS
    <3>2. Completed("recv", c, 0, conn[c] = "eof") \in Completion
      BY <3>1, CompletionTypes
    <3> QED BY <1>5, <2>1, <2>3, <3>2, CompletesType DEF TypeOK, RecvCompletes
  <2> QED BY <1>5, <2>2, <2>3 DEF RecvCompletes
<1>6. CASE SendCompletes(c)
  <2>1. sends' \in [Clients -> Nat]
    BY <1>6 DEF TypeOK, SendCompletes
  <2>2. (conn[c] # "reset") \in BOOLEAN
    OBVIOUS
  <2>3. Completed("send", c, 0, conn[c] # "reset") \in Completion
    BY <2>2, CompletionTypes
  <2> QED BY <1>6, <2>1, <2>3, CompletesType DEF TypeOK, SendCompletes
<1>7. CASE PeerEnds(c)
  BY <1>7 DEF TypeOK, PeerEnds, ownerVars, poolVars
<1> QED BY <1>1, <1>2, <1>3, <1>4, <1>5, <1>6, <1>7 DEF Business, Kernel

LEMMA InitType == Init => TypeOK
<1> SUFFICES ASSUME Init PROVE TypeOK
  OBVIOUS
<1>1. Quit \in Completion /\ 1 \in 1 .. nCpuCount /\ 0 \in 0 .. MaxPackets /\ 0 \in 0 .. MaxSends
  BY CpuCount, CompletionTypes, ServerAssumption
<1>2. /\ tasks \in Seq({"Accept", "ServerMain"}) /\ port \in Seq(Completion)
      /\ told \in [Clients -> Seq(0 .. MaxPackets)]
  BY DEF Init
<1> QED BY <1>1, <1>2 DEF Init, TypeOK, WorkerPlaces, InServerMain, OwnerPlaces, Connections

LEMMA NextType == TypeOK /\ [Next]_vars => TypeOK'
<1> SUFFICES ASSUME TypeOK, [Next]_vars PROVE TypeOK'
  OBVIOUS
<1>1. CASE UNCHANGED vars
  BY <1>1 DEF vars, TypeOK
<1> QED BY <1>1, StartType, CloseType, WorkerType, ClientType DEF Next

(* The variables of the server and the places of its threads have their    *)
(* types in every reachable state.                                         *)
THEOREM TypeCorrect == Spec => []TypeOK
BY InitType, NextType, PTL DEF Spec

-----------------------------------------------------------------------------
(* Which variables a step leaves alone.                                    *)

(* A worker moves itself, from a place in the pool, and no one else.       *)
LEMMA WorkerMoves ==
    ASSUME TypeOK, NEW w \in Workers, Worker(w)
    PROVE  /\ worker[w] \notin {"none", "gone"}
           /\ UNCHANGED << pool, m_socket, m_business, owner, index >>
           /\ ~Crashed
           /\ \A v \in Workers \ {w} : worker'[v] = worker[v]
           /\ worker'[w] = "crashed" => ~m_business
<1>1. ASSUME NEW from, NEW to, Goes(w, from, to)
      PROVE  /\ worker[w] = from /\ worker'[w] = to /\ ~Crashed
             /\ \A v \in Workers \ {w} : worker'[v] = worker[v]
             /\ UNCHANGED << pool, m_socket, m_business, owner, index >>
  BY <1>1 DEF TypeOK, Goes, ownerVars
<1>2. CASE TakeTask(w) \/ Accept(w)
  BY <1>1, <1>2 DEF TakeTask, Accept
<1>3. CASE GetCompletion(w) \/ GetFails(w)
  BY <1>1, <1>3 DEF GetCompletion, GetFails, Serves
<1>4. CASE NewAccept(w) \/ Register(w) \/ FirstRecv(w) \/ Rearm(w)
  BY <1>1, <1>4 DEF NewAccept, Register, FirstRecv, Rearm
<1>5. CASE ClientConnected(w) \/ ClientRecvData(w) \/ ClientSendDone(w)
  <2>1. ASSUME NEW from, NEW news, Tells(w, from, news)
        PROVE  /\ worker[w] = from /\ ~Crashed
               /\ worker'[w] = IF m_business THEN "again" ELSE "crashed"
               /\ \A v \in Workers \ {w} : worker'[v] = worker[v]
               /\ UNCHANGED << pool, m_socket, m_business, owner, index >>
    BY <2>1, <1>1 DEF Tells
  <2> QED BY <1>5, <2>1 DEF ClientConnected, ClientRecvData, ClientSendDone
<1>6. CASE TestServing(w) \/ NextServerMain(w)
  BY <1>1, <1>6 DEF TestServing, NextServerMain
<1> QED BY <1>2, <1>3, <1>4, <1>5, <1>6 DEF Worker, ServerMain

(* The business layer, the kernel and the peers run no worker.             *)
LEMMA ClientLeavesWorkers ==
    ASSUME NEW c \in Clients, Business(c) \/ Kernel(c)
    PROVE  UNCHANGED << m_socket, m_business, owner, index, pool, tasks, worker, hand, told >>
BY DEF Business, Kernel, Send, DelClient, PeerConnects, AcceptFails, RecvCompletes,
       SendCompletes, PeerEnds, Completes, ownerVars, poolVars

-----------------------------------------------------------------------------
(* Close closes the socket and the port after the workers.                 *)

LEMMA InitGone == Init => WorkersGoneFirst
BY DEF Init, WorkersGoneFirst

(* By itself inductive: a worker that is gone takes no step, and the owner *)
(* reaches "closesocket" only from CloseTaskStop.                          *)
LEMMA NextGone == TypeOK /\ WorkersGoneFirst /\ [Next]_vars => WorkersGoneFirst'
<1> SUFFICES ASSUME TypeOK, WorkersGoneFirst, [Next]_vars
             PROVE  WorkersGoneFirst'
  OBVIOUS
<1> USE DEF WorkersGoneFirst
<1>1. CASE UNCHANGED vars
  BY <1>1 DEF vars
<1>2. CASE Start
  BY <1>2 DEF Start, StartRun, StartAccept, StartMain, StartBusiness, poolVars
<1>3. CASE Close \/ CloseSteps
  <2>1. CASE Close \/ ClosePost \/ CloseTaskStatus \/ CloseTaskQueue
    BY <2>1 DEF Close, ClosePost, CloseTaskStatus, CloseTaskQueue, poolVars
  <2>2. CASE CloseTaskStop
    BY <2>2 DEF CloseTaskStop
  <2>3. CASE CloseSocket \/ CloseHandle
    BY <2>3 DEF CloseSocket, CloseHandle, poolVars
  <2> QED BY <1>3, <2>1, <2>2, <2>3 DEF CloseSteps
<1>4. ASSUME NEW w \in Workers, Worker(w)
      PROVE  WorkersGoneFirst'
  <2>1. worker[w] # "gone" /\ UNCHANGED owner
    BY <1>4, WorkerMoves
  <2> QED BY <2>1
<1>5. ASSUME NEW c \in Clients, Business(c) \/ Kernel(c)
      PROVE  WorkersGoneFirst'
  BY <1>5, ClientLeavesWorkers
<1> QED BY <1>1, <1>2, <1>3, <1>4, <1>5 DEF Next

(* When Close gets to closesocket(), and ever after, no worker is left.    *)
LEMMA ClosedAfterWorkers == Spec => []WorkersGoneFirst
BY InitType, NextType, InitGone, NextGone, PTL DEF Spec

-----------------------------------------------------------------------------
(* The null business layer.                                                *)

(* Once Start is through, workers that run have a business layer.          *)
BusinessInv ==
    /\ ~m_business /\ owner \notin StartPlaces => \A w \in Workers : worker[w] \in {"none", "gone"}
    /\ owner = "serving" => m_business

LEMMA InitBusiness == Init => BusinessInv /\ CrashOnlyWhileStarting
BY DEF Init, BusinessInv, CrashOnlyWhileStarting, Crashed

LEMMA NextBusiness ==
    TypeOK /\ BusinessInv /\ CrashOnlyWhileStarting /\ [Next]_vars
        => (BusinessInv /\ CrashOnlyWhileStarting)'
<1> SUFFICES ASSUME TypeOK, BusinessInv, CrashOnlyWhileStarting, [Next]_vars
             PROVE  BusinessInv' /\ CrashOnlyWhileStarting'
  OBVIOUS
<1> USE DEF BusinessInv, CrashOnlyWhileStarting, Crashed, StartPlaces
<1>1. CASE UNCHANGED vars
  BY <1>1 DEF vars
<1>2. CASE Start
  BY <1>2 DEF Start, StartRun, StartAccept, StartMain, StartBusiness, poolVars
<1>3. CASE Close \/ CloseSteps
  <2>1. CASE Close \/ ClosePost \/ CloseTaskStatus \/ CloseTaskQueue
    BY <2>1 DEF Close, ClosePost, CloseTaskStatus, CloseTaskQueue, poolVars
  <2>2. CASE CloseTaskStop
    BY <2>2 DEF CloseTaskStop
  <2>3. CASE CloseSocket \/ CloseHandle
    BY <2>3 DEF CloseSocket, CloseHandle, poolVars
  <2> QED BY <1>3, <2>1, <2>2, <2>3 DEF CloseSteps
<1>4. ASSUME NEW w \in Workers, Worker(w)
      PROVE  BusinessInv' /\ CrashOnlyWhileStarting'
  <2>1. /\ worker[w] \notin {"none", "gone"}
        /\ UNCHANGED << m_business, owner >>
        /\ ~Crashed
        /\ \A v \in Workers \ {w} : worker'[v] = worker[v]
        /\ worker'[w] = "crashed" => ~m_business
    BY <1>4, WorkerMoves
  <2> QED BY <2>1
<1>5. ASSUME NEW c \in Clients, Business(c) \/ Kernel(c)
      PROVE  BusinessInv' /\ CrashOnlyWhileStarting'
  BY <1>5, ClientLeavesWorkers
<1> QED BY <1>1, <1>2, <1>3, <1>4, <1>5 DEF Next

(* A connection that was served before StartBusiness is the only one that  *)
(* calls through a null pointer: later ones find the business layer.       *)
LEMMA CrashesOnlyWhileStarting == Spec => []CrashOnlyWhileStarting
BY InitType, NextType, InitBusiness, NextBusiness, PTL DEF Spec

(* Handlers run only while the server is up: not before there is a         *)
(* business layer, but for a client that connects during Start, and not    *)
(* after Close has begun to close what they use.                           *)
THEOREM ServesOnlyWhileUp == Spec => []ServesWhileUp
<1>1. CrashOnlyWhileStarting /\ WorkersGoneFirst => ServesWhileUp
  BY DEF ServesWhileUp
<1> QED BY <1>1, CrashesOnlyWhileStarting, ClosedAfterWorkers, PTL

-----------------------------------------------------------------------------
(* AddClient before the business layer.                                    *)

Known(c) == c \in Clients /\ m_mapClients[c] # "out"

(* What a worker has in hand, what the kernel receives for and what waits  *)
(* in the port is of a client AddClient was called for; a client before    *)
(* that has only its completed accept.                                     *)
KnownWorkers ==
    \A w \in Workers :
        /\ worker[w] \in {"newaccept", "register"} => hand[w].client \in Clients
        /\ worker[w] \in {"firstrecv", "connected", "rearm", "data"} => Known(hand[w].client)

KnownRecvs == \A c \in Clients : recvs[c] > 0 => Known(c)

KnownPort == \A i \in 1 .. Len(port) : port[i].type = "recv" => Known(port[i].client)

RegisterInv == KnownWorkers /\ KnownRecvs /\ KnownPort /\ RegisteredFirst

LEMMA InitRegister == Init => RegisterInv
BY DEF Init, RegisterInv, KnownWorkers, KnownRecvs, KnownPort, RegisteredFirst

(* The server never forgets that it called AddClient.                      *)
LEMMA KnownStays ==
    ASSUME TypeOK, NEW c, Known(c), [Next]_vars
    PROVE  Known(c)'
<1> USE DEF Known
<1>1. CASE UNCHANGED vars
  BY <1>1 DEF vars
<1>2. CASE Start \/ Close \/ CloseSteps
  BY <1>2 DEF Start, StartRun, StartAccept, StartMain, StartBusiness, Close, CloseSteps,
              ClosePost, CloseTaskStatus, CloseTaskQueue, CloseTaskStop, CloseSocket, CloseHandle
<1>3. ASSUME NEW w \in Workers, Worker(w)
      PROVE  Known(c)'
  <2>1. CASE Register(w)
    BY <2>1 DEF TypeOK, Register
  <2> QED BY <1>3, <2>1 DEF Worker, ServerMain, TakeTask, Accept, GetCompletion, GetFails,
                 NewAccept, FirstRecv, Rearm, ClientConnected, ClientRecvData,
                 ClientSendDone, Tells, TestServing, NextServerMain
<1>4. ASSUME NEW d \in Clients, Business(d) \/ Kernel(d)
      PROVE  Known(c)'
  <2>1. CASE DelClient(d)
    BY <2>1 DEF TypeOK, DelClient
  <2> QED BY <1>4, <2>1 DEF Business, Kernel, Send, PeerConnects, AcceptFails,
                 RecvCompletes, SendCompletes, PeerEnds, Completes
<1> QED BY <1>1, <1>2, <1>3, <1>4 DEF Next

LEMMA KnownOwner ==
    ASSUME TypeOK, RegisterInv, Start \/ Close \/ CloseSteps
    PROVE  RegisterInv'
<1>1. \A c : Known(c) => Known(c)'
  BY KnownStays DEF Next
<1> USE DEF RegisterInv
<1>2. KnownWorkers'
  BY <1>1 DEF KnownWorkers, Start, StartRun, StartAccept, StartMain, StartBusiness, Close,
              CloseSteps, ClosePost, CloseTaskStatus, CloseTaskQueue, CloseTaskStop,
              CloseSocket, CloseHandle, poolVars
<1>3. UNCHANGED << recvs, told >>
  BY DEF Start, StartRun, StartAccept, StartMain, StartBusiness, Close, CloseSteps, ClosePost,
         CloseTaskStatus, CloseTaskQueue, CloseTaskStop, CloseSocket, CloseHandle, kernelVars
<1>4. KnownPort'
  <2>1. CASE ClosePost
    <3>1. \A i \in 1 .. Len(port') : port'[i] = Quit \/ (i \in 1 .. Len(port) /\ port'[i] = port[i])
      BY <2>1, AppendQueue, CompletionTypes DEF ClosePost, TypeOK
    <3> QED BY <1>1, <3>1 DEF KnownPort, Quit, Completed
  <2>2. CASE CloseHandle
    BY <2>2 DEF CloseHandle, KnownPort
  <2>3. CASE UNCHANGED port
    BY <2>3, <1>1 DEF KnownPort
  <2> QED BY <2>1, <2>2, <2>3 DEF Start, StartRun, StartAccept, StartMain, StartBusiness,
             Close, CloseSteps, CloseTaskStatus, CloseTaskQueue, CloseTaskStop, CloseSocket
<1> QED BY <1>1, <1>2, <1>3, <1>4 DEF KnownRecvs, RegisteredFirst, Known

LEMMA KnownWorker ==
    ASSUME TypeOK, RegisterInv, NEW w \in Workers, Worker(w)
    PROVE  RegisterInv'
<1>1. \A c : Known(c) => Known(c)'
  BY KnownStays DEF Next
<1> USE DEF RegisterInv
<1>2. ASSUME NEW from, NEW to, Goes(w, from, to)
      PROVE  /\ worker[w] = from /\ worker'[w] = to
             /\ \A v \in Workers \ {w} : worker'[v] = worker[v]
  BY <1>2 DEF TypeOK, Goes
<1>3. ASSUME NEW c, Known(c), Recv(c)
      PROVE  KnownRecvs'
  BY <1>1, <1>3 DEF TypeOK, Recv, KnownRecvs, Known
<1>4. CASE TakeTask(w) \/ Accept(w) \/ GetFails(w) \/ NewAccept(w) \/ TestServing(w) \/ NextServerMain(w)
  <2>1. /\ UNCHANGED << recvs, told, port, hand, m_mapClients >>
        /\ worker[w] = "newaccept" \/ worker'[w] \notin {"register"}
        /\ worker'[w] \notin {"newaccept", "firstrecv", "connected", "rearm", "data"}
        /\ \A v \in Workers \ {w} : worker'[v] = worker[v]
    BY <1>2, <1>4 DEF TakeTask, Accept, GetFails, NewAccept, TestServing, NextServerMain, kernelVars
  <2> QED BY <2>1 DEF KnownWorkers, KnownRecvs, KnownPort, RegisteredFirst, Known
<1>5. CASE GetCompletion(w)
  <2> DEFINE e == Head(port)
  <2>1. /\ Len(port) \in Nat \ {0} /\ e \in Completion /\ e = port[1]
        /\ Len(port') = Len(port) - 1
        /\ \A i \in 1 .. Len(port) - 1 : port'[i] = port[i + 1]
    BY <1>5, TailQueue DEF GetCompletion, TypeOK
  <2>2. /\ worker'[w] = Serves(e)
        /\ \A v \in Workers \ {w} : worker'[v] = worker[v] /\ hand'[v] = hand[v]
        /\ hand'[w] = IF e.ok THEN e ELSE Quit
    BY <1>2, <1>5 DEF GetCompletion, TypeOK
  <2>3. UNCHANGED << recvs, told, m_mapClients >>
    BY <1>5 DEF GetCompletion, kernelVars
  <2>4. KnownPort'
    BY <2>1, <2>3 DEF KnownPort, Known
  <2>5. /\ worker'[w] = "newaccept" => hand'[w].client \in Clients
        /\ worker'[w] = "rearm" => Known(hand'[w].client)
        /\ worker'[w] \in {"again", "newaccept", "rearm", "senddone"}
    <3>1. 1 \in 1 .. Len(port)
      BY <2>1
    <3>2. e.type \in {"accept", "recv", "send", "quit"} /\ (e.type # "quit" => e.client \in Clients)
      BY <2>1 DEF Completion, Quit, Completed
    <3>3. e.type = "recv" => Known(e.client)
      BY <2>1, <3>1 DEF KnownPort
    <3> HIDE DEF e
    <3> QED BY <2>2, <3>2, <3>3 DEF Serves
  <2>6. KnownWorkers'
    BY <2>2, <2>3, <2>5 DEF KnownWorkers, Known
  <2> QED BY <2>3, <2>4, <2>6 DEF KnownRecvs, RegisteredFirst, Known
<1>6. CASE Register(w)
  <2>1. /\ worker[w] = "register" /\ worker'[w] = "firstrecv"
        /\ \A v \in Workers \ {w} : worker'[v] = worker[v]
        /\ UNCHANGED << recvs, told, port, hand >>
    BY <1>2, <1>6 DEF Register, kernelVars
  <2>2. Known(hand[w].client)'
    BY <1>6, <2>1 DEF Register, KnownWorkers, Known, TypeOK
  <2> QED BY <1>1, <2>1, <2>2 DEF KnownWorkers, KnownRecvs, KnownPort, RegisteredFirst, Known
<1>7. CASE FirstRecv(w) \/ Rearm(w)
  <2>1. /\ worker[w] \in {"firstrecv", "rearm"} /\ worker'[w] \in {"connected", "data"}
        /\ \A v \in Workers \ {w} : worker'[v] = worker[v]
        /\ Recv(hand[w].client)
        /\ UNCHANGED << told, port, hand, m_mapClients >>
    <3>1. CASE FirstRecv(w)
      BY <1>2, <3>1 DEF FirstRecv
    <3>2. CASE Rearm(w)
      BY <1>2, <3>2 DEF Rearm
    <3> QED BY <1>7, <3>1, <3>2
  <2>2. KnownRecvs'
    BY <1>3, <2>1 DEF KnownWorkers
  <2> QED BY <2>1, <2>2 DEF KnownWorkers, KnownPort, RegisteredFirst, Known
<1>8. CASE ClientConnected(w) \/ ClientRecvData(w) \/ ClientSendDone(w)
  <2>1. ASSUME NEW from, NEW news \in Seq(0 .. MaxPackets), Tells(w, from, news),
               news # << >> => Known(hand[w].client)
        PROVE  RegisterInv'
    <3>1. /\ worker'[w] \in {"again", "crashed"}
          /\ \A v \in Workers \ {w} : worker'[v] = worker[v] /\ hand'[v] = hand[v]
          /\ UNCHANGED << recvs, port, m_mapClients >>
      BY <1>2, <2>1 DEF Tells, TypeOK, kernelVars
    <3>2. KnownWorkers' /\ KnownRecvs' /\ KnownPort'
      BY <3>1 DEF KnownWorkers, KnownRecvs, KnownPort, Known
    <3>3. ASSUME NEW c \in Clients, told'[c] # << >>
          PROVE  m_mapClients[c] # "out"
      <4>1. CASE told'[c] = told[c]
        BY <3>3, <4>1 DEF RegisteredFirst
      <4>2. CASE told'[c] # told[c]
        <5>1. /\ hand[w].client = c /\ told'[c] = told[c] \o news
              /\ told[c] \in Seq(0 .. MaxPackets)
          BY <2>1, <4>2 DEF Tells, TypeOK
        <5>2. news # << >>
          BY <4>2, <5>1, ConcatEmptySeq
        <5> QED BY <2>1, <5>1, <5>2 DEF Known
      <4> QED BY <4>1, <4>2
    <3> QED BY <3>1, <3>2, <3>3 DEF RegisteredFirst
  <2>2. CASE ClientConnected(w)
    <3>1. worker[w] = "connected"
      BY <1>2, <2>2 DEF ClientConnected, Tells
    <3>2. << 0 >> \in Seq(0 .. MaxPackets)
      BY CompletionTypes
    <3> QED BY <2>1, <2>2, <3>1, <3>2 DEF ClientConnected, KnownWorkers
  <2>3. CASE ClientRecvData(w)
    <3> DEFINE k == hand[w].packet
    <3>1. worker[w] = "data"
      BY <1>2, <2>3 DEF ClientRecvData, Tells
    <3>2. k \in 0 .. MaxPackets
      BY ServerAssumption DEF TypeOK, Completion, Quit, Completed
    <3>3. (IF k = 0 THEN << >> ELSE << k >>) \in Seq(0 .. MaxPackets)
      <4> HIDE DEF k
      <4>1. << >> \in Seq(0 .. MaxPackets) /\ << k >> \in Seq(0 .. MaxPackets)
        BY <3>2
      <4> QED BY <4>1
    <3> QED BY <2>1, <2>3, <3>1, <3>3 DEF ClientRecvData, KnownWorkers
  <2>4. CASE ClientSendDone(w)
    <3>1. << >> \in Seq(0 .. MaxPackets)
      OBVIOUS
    <3> QED BY <2>1, <2>4, <3>1 DEF ClientSendDone
  <2> QED BY <1>8, <2>2, <2>3, <2>4
<1> QED BY <1>4, <1>5, <1>6, <1>7, <1>8 DEF Worker, ServerMain

LEMMA KnownClient ==
    ASSUME TypeOK, RegisterInv, NEW c \in Clients, Business(c) \/ Kernel(c)
    PROVE  RegisterInv'
<1>1. \A d : Known(d) => Known(d)'
  BY KnownStays DEF Next
<1>2. UNCHANGED << worker, hand, told >>
  BY ClientLeavesWorkers
<1> USE DEF RegisterInv
<1>3. KnownWorkers' /\ RegisteredFirst'
  BY <1>1, <1>2 DEF KnownWorkers, RegisteredFirst, Known
<1>4. KnownRecvs'
  <2>1. \A d \in Clients : recvs'[d] > 0 => recvs[d] > 0
    <3>1. CASE UNCHANGED recvs
      BY <3>1
    <3>2. CASE RecvCompletes(c)
      BY <3>2 DEF RecvCompletes, TypeOK
    <3> QED BY <3>1, <3>2 DEF Business, Kernel, Send, DelClient, PeerConnects, AcceptFails,
                  SendCompletes, PeerEnds, kernelVars
  <2> QED BY <1>1, <2>1 DEF KnownRecvs
<1>5. KnownPort'
  <2>1. ASSUME NEW e \in Completion, Completes(e), e.type = "recv" => Known(e.client)
        PROVE  KnownPort'
    <3>1. \A i \in 1 .. Len(port') : port'[i] = e \/ (i \in 1 .. Len(port) /\ port'[i] = port[i])
      BY <2>1, AppendQueue DEF Completes, TypeOK
    <3> QED BY <1>1, <2>1, <3>1 DEF KnownPort
  <2>2. CASE PeerConnects(c) \/ AcceptFails(c) \/ SendCompletes(c)
    <3>1. PICK type \in {"accept", "send"}, ok \in BOOLEAN : Completes(Completed(type, c, 0, ok))
      <4>1. (conn[c] # "reset") \in BOOLEAN
        OBVIOUS
      <4> QED BY <2>2, <4>1 DEF PeerConnects, AcceptFails, SendCompletes
    <3>2. Completed(type, c, 0, ok) \in Completion /\ Completed(type, c, 0, ok).type # "recv"
      BY CompletionTypes DEF Completed
    <3> QED BY <2>1, <3>1, <3>2
  <2>3. CASE RecvCompletes(c)
    <3>1. PICK k \in 0 .. MaxPackets, ok \in BOOLEAN : Completes(Completed("recv", c, k, ok))
      <4>1. (conn[c] = "eof") \in BOOLEAN /\ 0 \in 0 .. MaxPackets
        BY CompletionTypes
      <4>2. received[c] < MaxPackets => received[c] + 1 \in 0 .. MaxPackets
        BY ServerAssumption DEF TypeOK
      <4> QED BY <2>3, <4>1, <4>2 DEF RecvCompletes
    <3>2. Completed("recv", c, k, ok) \in Completion /\ Completed("recv", c, k, ok).client = c
      BY CompletionTypes DEF Completed
    <3>3. Known(c)
      BY <2>3 DEF RecvCompletes, KnownRecvs
    <3> QED BY <2>1, <3>1, <3>2, <3>3
  <2>4. CASE UNCHANGED port
    BY <1>1, <2>4 DEF KnownPort
  <2> QED BY <2>2, <2>3, <2>4 DEF Business, Kernel, Send, DelClient, PeerEnds
<1> QED BY <1>3, <1>4, <1>5

LEMMA NextRegister == TypeOK /\ RegisterInv /\ [Next]_vars => RegisterInv'
<1> SUFFICES ASSUME TypeOK, RegisterInv, [Next]_vars PROVE RegisterInv'
  OBVIOUS
<1>1. CASE UNCHANGED vars
  BY <1>1 DEF vars, RegisterInv, KnownWorkers, KnownRecvs, KnownPort, RegisteredFirst, Known
<1> QED BY <1>1, KnownOwner, KnownWorker, KnownClient DEF Next

(* The business layer is never told of a client before AddClient: its      *)
(* first question about the client is asked after the map was.             *)
THEOREM RegisteredBeforeTold == Spec => []RegisteredFirst
<1>1. RegisterInv => RegisteredFirst
  BY DEF RegisterInv
<1> QED BY <1>1, InitType, NextType, InitRegister, NextRegister, PTL DEF Spec

-----------------------------------------------------------------------------
(* One Accept at a time.                                                   *)

AtMostOne(S) == \A x, y \in S : x = y

(* The four places where the right to accept can be, and that at most one  *)
(* of them has it, once.                                                   *)
Exclusive ==
    /\ AtMostOne(AcceptTasks) /\ AtMostOne(AcceptWorkers)
    /\ AtMostOne(Armed) /\ AtMostOne(AcceptsDone)
    /\ AcceptTasks # {} => AcceptWorkers = {} /\ Armed = {} /\ AcceptsDone = {}
    /\ AcceptWorkers # {} => Armed = {} /\ AcceptsDone = {}
    /\ Armed # {} => AcceptsDone = {}

NoAccept == AcceptTasks = {} /\ AcceptWorkers = {} /\ Armed = {} /\ AcceptsDone = {}

Refused == \E c \in Clients : conn[c] = "refused"

AcceptInv ==
    /\ Exclusive
    /\ owner \in {"new", "accept"} => NoAccept
    /\ Serving /\ NoAccept => Refused

LEMMA TokensExclusive ==
    /\ Exclusive => \A x, y \in AcceptTokens : x = y
    /\ AcceptTokens = {} => NoAccept
<1>1. ASSUME Exclusive, NEW x \in AcceptTokens, NEW y \in AcceptTokens
      PROVE  x = y
  BY <1>1 DEF Exclusive, AtMostOne, AcceptTokens
<1>2. /\ \A i \in AcceptTasks : << "task", i >> \in AcceptTokens
      /\ \A w \in AcceptWorkers : << "worker", w >> \in AcceptTokens
      /\ \A c \in Armed : << "kernel", c >> \in AcceptTokens
      /\ \A i \in AcceptsDone : << "port", i >> \in AcceptTokens
  BY DEF AcceptTokens
<1> QED BY <1>1, <1>2 DEF NoAccept

LEMMA InitAccept == Init => AcceptInv
BY DEF Init, AcceptInv, Exclusive, AtMostOne, NoAccept, AcceptTasks, AcceptWorkers, Armed,
       AcceptsDone, Serving

(* What the queue operations do to the Accepts that wait.                  *)
LEMMA AddedTasks ==
    ASSUME TypeOK, NEW t \in {"Accept", "ServerMain"}, AddTask(t)
    PROVE  /\ t = "ServerMain" => AcceptTasks' = AcceptTasks
           /\ t = "Accept" => AtMostOne(AcceptTasks') \/ AcceptTasks # {}
           /\ t = "Accept" /\ pool = "running" => AcceptTasks' # {}
<1>1. CASE tasks' = Append(tasks, t) /\ tasks \in Seq({"Accept", "ServerMain"})
  <2>1. /\ Len(tasks) \in Nat /\ Len(tasks') = Len(tasks) + 1
        /\ \A i \in 1 .. Len(tasks) : tasks'[i] = tasks[i]
        /\ tasks'[Len(tasks) + 1] = t
    BY <1>1, AppendQueue
  <2> QED BY <2>1 DEF AcceptTasks, AtMostOne
<1>2. CASE UNCHANGED tasks /\ pool # "running"
  BY <1>2 DEF AcceptTasks, AtMostOne
<1> QED BY <1>1, <1>2 DEF AddTask, TypeOK

LEMMA TakenTasks ==
    ASSUME TypeOK, AtMostOne(AcceptTasks), tasks # << >>, tasks' = Tail(tasks)
    PROVE  /\ AtMostOne(AcceptTasks')
           /\ Head(tasks) = "Accept" => AcceptTasks # {} /\ AcceptTasks' = {}
           /\ Head(tasks) # "Accept" => (AcceptTasks' = {} <=> AcceptTasks = {})
<1>1. /\ Len(tasks) \in Nat \ {0} /\ Head(tasks) = tasks[1]
      /\ Len(tasks') = Len(tasks) - 1
      /\ \A i \in 1 .. Len(tasks) - 1 : tasks'[i] = tasks[i + 1]
  BY TailQueue DEF TypeOK
<1>2. \A i \in AcceptTasks' : i \in Nat \ {0} /\ i + 1 \in AcceptTasks
  BY <1>1 DEF AcceptTasks
<1>3. \A i \in AcceptTasks : i = 1 \/ i - 1 \in AcceptTasks'
  BY <1>1 DEF AcceptTasks
<1>4. 1 \in AcceptTasks <=> Head(tasks) = "Accept"
  BY <1>1 DEF AcceptTasks
<1>5. AtMostOne(AcceptTasks')
  BY <1>2 DEF AtMostOne
<1>6. Head(tasks) = "Accept" => AcceptTasks' = {}
  BY <1>2, <1>4 DEF AtMostOne
<1> QED BY <1>2, <1>3, <1>4, <1>5, <1>6

LEMMA TakenDone ==
    ASSUME TypeOK, AtMostOne(AcceptsDone), port # << >>, port' = Tail(port)
    PROVE  /\ Head(port) \in Completion
           /\ AtMostOne(AcceptsDone')
           /\ Head(port).type = "accept" /\ Head(port).ok => AcceptsDone # {} /\ AcceptsDone' = {}
           /\ ~(Head(port).type = "accept" /\ Head(port).ok) => (AcceptsDone' = {} <=> AcceptsDone = {})
<1>1. /\ Len(port) \in Nat \ {0} /\ Head(port) = port[1] /\ Head(port) \in Completion
      /\ Len(port') = Len(port) - 1
      /\ \A i \in 1 .. Len(port) - 1 : port'[i] = port[i + 1]
  BY TailQueue DEF TypeOK
<1>2. \A i \in AcceptsDone' : i \in Nat \ {0} /\ i + 1 \in AcceptsDone
  BY <1>1 DEF AcceptsDone
<1>3. \A i \in AcceptsDone : i = 1 \/ i - 1 \in AcceptsDone'
  BY <1>1 DEF AcceptsDone
<1>4. 1 \in AcceptsDone <=> Head(port).type = "accept" /\ Head(port).ok
  BY <1>1 DEF AcceptsDone
<1>5. AtMostOne(AcceptsDone')
  BY <1>2 DEF AtMostOne
<1>6. Head(port).type = "accept" /\ Head(port).ok => AcceptsDone' = {}
  BY <1>2, <1>4 DEF AtMostOne
<1> QED BY <1>1, <1>2, <1>3, <1>4, <1>5, <1>6

LEMMA AddedDone ==
    ASSUME TypeOK, NEW e \in Completion, port' = Append(port, e)
    PROVE  /\ ~(e.type = "accept" /\ e.ok) => AcceptsDone' = AcceptsDone
           /\ e.type = "accept" /\ e.ok => AcceptsDone' # {} /\ (AcceptsDone # {} \/ AtMostOne(AcceptsDone'))
<1>1. /\ Len(port) \in Nat /\ Len(port') = Len(port) + 1
      /\ \A i \in 1 .. Len(port) : port'[i] = port[i]
      /\ port'[Len(port) + 1] = e
  BY AppendQueue DEF TypeOK
<1> QED BY <1>1 DEF AcceptsDone, AtMostOne

LEMMA AcceptStart ==
    ASSUME TypeOK, AcceptInv, Start
    PROVE  AcceptInv'
<1> USE DEF AcceptInv, Exclusive, NoAccept
<1>1. UNCHANGED << conn, port >> /\ Armed' = Armed /\ AcceptsDone' = AcceptsDone
  BY DEF Start, StartRun, StartAccept, StartMain, StartBusiness, kernelVars, Armed, AcceptsDone
<1>2. CASE StartRun
  <2>1. AcceptWorkers' = {} /\ AcceptTasks' = {}
    BY <1>2 DEF StartRun, AcceptWorkers, AcceptTasks
  <2> QED BY <1>1, <1>2, <2>1 DEF StartRun, Serving, AtMostOne
<1>3. CASE StartAccept
  <2>1. AcceptWorkers' = AcceptWorkers /\ owner = "accept" /\ owner' \in {"main", "business"}
    BY <1>3 DEF StartAccept, AcceptWorkers
  <2>2. /\ AtMostOne(AcceptTasks')
        /\ pool' = "running" => AcceptTasks' # {}
    BY <1>3, <2>1, AddedTasks DEF StartAccept
  <2> QED BY <1>1, <2>1, <2>2 DEF Serving
<1>4. CASE StartMain \/ StartBusiness
  <2>1. /\ owner \in {"main", "business"} /\ owner' \in {"main", "business", "serving"}
        /\ UNCHANGED << worker, pool >>
    BY <1>4 DEF StartMain, StartBusiness, poolVars
  <2>2. AcceptTasks' = AcceptTasks
    BY <1>4, AddedTasks DEF StartMain, StartBusiness, poolVars, AcceptTasks
  <2>3. AcceptWorkers' = AcceptWorkers /\ (Serving' => Serving)
    BY <2>1 DEF AcceptWorkers, Serving, Crashed
  <2>4. Refused' = Refused
    BY <1>1 DEF Refused
  <2> QED BY <1>1, <2>1, <2>2, <2>3, <2>4
<1> QED BY <1>2, <1>3, <1>4 DEF Start

LEMMA AcceptClose ==
    ASSUME TypeOK, AcceptInv, Close \/ CloseSteps
    PROVE  AcceptInv'
<1>1. owner' \notin {"new", "accept"} /\ ~Serving'
  BY DEF Serving, Close, CloseSteps, ClosePost, CloseTaskStatus, CloseTaskQueue, CloseTaskStop,
         CloseSocket, CloseHandle
<1> USE DEF AcceptInv, Exclusive
<1>2. CASE ClosePost
  <2>1. AcceptsDone' = AcceptsDone
    BY <1>2, AddedDone, CompletionTypes DEF ClosePost, Quit, Completed
  <2>2. UNCHANGED << AcceptTasks, AcceptWorkers, Armed >>
    BY <1>2 DEF ClosePost, poolVars, kernelVars, AcceptTasks, AcceptWorkers, Armed
  <2> QED BY <1>1, <2>1, <2>2
<1>3. CASE Close \/ CloseTaskStatus
  <2>1. UNCHANGED << AcceptTasks, AcceptWorkers, Armed, AcceptsDone >>
    BY <1>3 DEF Close, CloseTaskStatus, poolVars, kernelVars, AcceptTasks, AcceptWorkers, Armed,
                AcceptsDone
  <2> QED BY <1>1, <2>1
<1>4. CASE CloseTaskQueue \/ CloseTaskStop \/ CloseSocket \/ CloseHandle
  <2>1. /\ AcceptTasks' = {} \/ AcceptTasks' = AcceptTasks
        /\ AcceptWorkers' = {} \/ AcceptWorkers' = AcceptWorkers
        /\ AcceptsDone' = {} \/ AcceptsDone' = AcceptsDone
    BY <1>4 DEF CloseTaskQueue, CloseTaskStop, CloseSocket, CloseHandle, poolVars, AcceptTasks,
                AcceptWorkers, AcceptsDone
  <2>2. Armed' = {} \/ Armed' = Armed
    BY <1>4 DEF CloseTaskQueue, CloseTaskStop, CloseSocket, CloseHandle, kernelVars, Armed, TypeOK
  <2> QED BY <1>1, <2>1, <2>2 DEF AtMostOne
<1> QED BY <1>2, <1>3, <1>4 DEF CloseSteps

LEMMA AcceptWorker ==
    ASSUME TypeOK, AcceptInv, NEW w \in Workers, Worker(w)
    PROVE  AcceptInv'
<1> USE DEF AcceptInv, Exclusive, NoAccept
<1>1. UNCHANGED owner /\ (Serving' => Serving)
  BY WorkerMoves DEF Serving
<1>2. ASSUME NEW from, NEW to, Goes(w, from, to)
      PROVE  /\ from \in {"accept", "newaccept"} <=> w \in AcceptWorkers
             /\ to \in {"accept", "newaccept"} <=> w \in AcceptWorkers'
             /\ AcceptWorkers' \ {w} = AcceptWorkers \ {w}
  BY <1>2 DEF TypeOK, Goes, AcceptWorkers
<1>3. CASE TakeTask(w)
  <2>1. /\ UNCHANGED << Armed, AcceptsDone, Refused >>
        /\ tasks # << >> /\ tasks' = Tail(tasks)
    BY <1>3 DEF TakeTask, kernelVars, Armed, AcceptsDone, Refused
  <2>2. /\ w \notin AcceptWorkers /\ AcceptWorkers' \ {w} = AcceptWorkers
        /\ w \in AcceptWorkers' <=> Head(tasks) = "Accept"
    BY <1>2, <1>3 DEF TakeTask
  <2>3. CASE Head(tasks) = "Accept"
    <3>1. AcceptTasks # {} /\ AcceptTasks' = {} /\ AcceptWorkers' = {w}
      BY <2>1, <2>2, <2>3, TakenTasks
    <3> QED BY <1>1, <2>1, <3>1 DEF AtMostOne
  <2>4. CASE Head(tasks) # "Accept"
    <3>1. /\ AcceptWorkers' = AcceptWorkers /\ AtMostOne(AcceptTasks')
          /\ AcceptTasks' = {} <=> AcceptTasks = {}
      BY <2>1, <2>2, <2>4, TakenTasks
    <3> QED BY <1>1, <2>1, <3>1
  <2> QED BY <2>3, <2>4
<1>4. CASE Accept(w)
  <2>1. w \in AcceptWorkers /\ AcceptWorkers' = {}
    <3>1. w \in AcceptWorkers /\ w \notin AcceptWorkers' /\ AcceptWorkers' \ {w} = AcceptWorkers \ {w}
      BY <1>2, <1>4 DEF Accept
    <3> QED BY <3>1 DEF AtMostOne
  <2>2. UNCHANGED << AcceptTasks, AcceptsDone >>
    BY <1>4 DEF Accept, AcceptTasks, AcceptsDone
  <2>3. PICK c \in Clients : conn' = [conn EXCEPT ![c] = "refused"] \/ conn' = [conn EXCEPT ![c] = "armed"]
    BY <1>4 DEF Accept
  <2>4. (Armed' = {c} \/ Armed' = {}) /\ (Armed' = {} => Refused')
    BY <2>1, <2>3 DEF Armed, Refused, TypeOK
  <2> QED BY <1>1, <2>1, <2>2, <2>4 DEF AtMostOne
<1>5. CASE GetCompletion(w)
  <2> DEFINE e == Head(port)
  <2>1. UNCHANGED << AcceptTasks, Armed, Refused >>
    BY <1>5 DEF GetCompletion, kernelVars, AcceptTasks, Armed, Refused
  <2>2. /\ e \in Completion /\ AtMostOne(AcceptsDone')
        /\ e.type = "accept" /\ e.ok => AcceptsDone # {} /\ AcceptsDone' = {}
        /\ ~(e.type = "accept" /\ e.ok) => (AcceptsDone' = {} <=> AcceptsDone = {})
    BY <1>5, TakenDone DEF GetCompletion
  <2>3. /\ w \notin AcceptWorkers /\ AcceptWorkers' \ {w} = AcceptWorkers
        /\ w \in AcceptWorkers' <=> Serves(e) \in {"accept", "newaccept"}
    BY <1>2, <1>5 DEF GetCompletion
  <2>4. Serves(e) \in {"accept", "newaccept"} <=> e.type = "accept" /\ e.ok
    BY <2>2 DEF Serves, Completion, Quit, Completed
  <2>5. CASE e.type = "accept" /\ e.ok
    <3>1. AcceptWorkers' = {w}
      BY <2>2, <2>3, <2>4, <2>5
    <3> QED BY <1>1, <2>1, <2>2, <2>5, <3>1 DEF AtMostOne
  <2>6. CASE ~(e.type = "accept" /\ e.ok)
    <3>1. AcceptWorkers' = AcceptWorkers
      BY <2>3, <2>4, <2>6
    <3> QED BY <1>1, <2>1, <2>2, <2>6, <3>1
  <2> QED BY <2>5, <2>6
<1>6. CASE NewAccept(w)
  <2>1. w \in AcceptWorkers /\ AcceptWorkers' = {}
    <3>1. w \in AcceptWorkers /\ w \notin AcceptWorkers' /\ AcceptWorkers' \ {w} = AcceptWorkers \ {w}
      BY <1>2, <1>6 DEF NewAccept
    <3> QED BY <3>1 DEF AtMostOne
  <2>2. UNCHANGED << Armed, AcceptsDone >>
    BY <1>6 DEF NewAccept, kernelVars, Armed, AcceptsDone
  <2>3. AtMostOne(AcceptTasks') /\ (pool = "running" => AcceptTasks' # {})
    BY <1>6, <2>1, AddedTasks DEF NewAccept
  <2>4. Serving' => pool = "running"
    BY <1>1 DEF Serving
  <2> QED BY <1>1, <2>1, <2>2, <2>3, <2>4 DEF AtMostOne
<1>7. CASE NextServerMain(w)
  <2>1. AcceptWorkers' = AcceptWorkers
    BY <1>2, <1>7 DEF NextServerMain
  <2>2. AcceptTasks' = AcceptTasks
    BY <1>7, AddedTasks DEF NextServerMain
  <2>3. UNCHANGED << Armed, AcceptsDone, Refused >>
    BY <1>7 DEF NextServerMain, kernelVars, Armed, AcceptsDone, Refused
  <2> QED BY <1>1, <2>1, <2>2, <2>3
<1>8. CASE GetFails(w) \/ Register(w) \/ FirstRecv(w) \/ Rearm(w) \/ ClientConnected(w)
           \/ ClientRecvData(w) \/ ClientSendDone(w) \/ TestServing(w)
  <2>1. AcceptWorkers' = AcceptWorkers
    <3>1. ASSUME NEW from, NEW to, Goes(w, from, to), from \notin {"accept", "newaccept"},
                 to \notin {"accept", "newaccept"}
          PROVE  AcceptWorkers' = AcceptWorkers
      BY <1>2, <3>1
    <3>2. ASSUME NEW from, NEW news, Tells(w, from, news), from \notin {"accept", "newaccept"}
          PROVE  AcceptWorkers' = AcceptWorkers
      BY <3>1, <3>2 DEF Tells
    <3>3. CASE GetFails(w) \/ Register(w) \/ TestServing(w)
      BY <3>1, <3>3 DEF GetFails, Register, TestServing
    <3>4. CASE FirstRecv(w) \/ Rearm(w)
      BY <3>1, <3>4 DEF FirstRecv, Rearm
    <3>5. CASE ClientConnected(w) \/ ClientRecvData(w) \/ ClientSendDone(w)
      BY <3>2, <3>5 DEF ClientConnected, ClientRecvData, ClientSendDone
    <3> QED BY <1>8, <3>3, <3>4, <3>5
  <2>2. UNCHANGED << tasks, port, conn >>
    BY <1>8 DEF GetFails, Register, FirstRecv, Rearm, Recv, ClientConnected, ClientRecvData,
                ClientSendDone, Tells, TestServing, kernelVars
  <2>3. UNCHANGED << AcceptTasks, Armed, AcceptsDone, Refused >>
    BY <2>2 DEF AcceptTasks, Armed, AcceptsDone, Refused
  <2> QED BY <1>1, <2>1, <2>3
<1> QED BY <1>3, <1>4, <1>5, <1>6, <1>7, <1>8 DEF Worker, ServerMain

LEMMA AcceptClient ==
    ASSUME TypeOK, AcceptInv, NEW c \in Clients, Business(c) \/ Kernel(c)
    PROVE  AcceptInv'
<1> USE DEF AcceptInv, Exclusive, NoAccept
<1>1. UNCHANGED << owner, AcceptTasks, AcceptWorkers >> /\ (Serving' => Serving)
  BY ClientLeavesWorkers DEF AcceptTasks, AcceptWorkers, Serving, Crashed
<1>2. ASSUME NEW e \in Completion, Completes(e)
      PROVE  /\ ~(e.type = "accept" /\ e.ok) => AcceptsDone' = AcceptsDone
             /\ e.type = "accept" /\ e.ok => AcceptsDone' # {} /\ (AcceptsDone # {} \/ AtMostOne(AcceptsDone'))
  BY <1>2, AddedDone DEF Completes
<1>3. CASE PeerConnects(c)
  <2>1. AcceptsDone' # {} /\ (AcceptsDone # {} \/ AtMostOne(AcceptsDone'))
    <3>1. Completed("accept", c, 0, TRUE) \in Completion
      BY CompletionTypes
    <3> QED BY <1>2, <1>3, <3>1 DEF PeerConnects, Completed
  <2>2. Armed # {} /\ Armed' = {}
    BY <1>3 DEF PeerConnects, Armed, AtMostOne, TypeOK
  <2> QED BY <1>1, <2>1, <2>2 DEF AtMostOne
<1>4. CASE AcceptFails(c)
  <2>1. AcceptsDone' = AcceptsDone
    <3>1. Completed("accept", c, 0, FALSE) \in Completion
      BY CompletionTypes
    <3> QED BY <1>2, <1>4, <3>1 DEF AcceptFails, Completed
  <2>2. Armed' = {} /\ Refused'
    BY <1>4 DEF AcceptFails, Armed, AtMostOne, Refused, TypeOK
  <2> QED BY <1>1, <2>1, <2>2 DEF AtMostOne
<1>5. CASE RecvCompletes(c) \/ SendCompletes(c)
  <2>1. PICK e \in Completion : Completes(e) /\ e.type # "accept"
    <3>1. CASE RecvCompletes(c)
      <4>1. /\ (conn[c] = "eof") \in BOOLEAN /\ 0 \in 0 .. MaxPackets
            /\ received[c] < MaxPackets => received[c] + 1 \in 0 .. MaxPackets
        BY CompletionTypes, ServerAssumption DEF TypeOK
      <4>2. PICK k \in 0 .. MaxPackets, ok \in BOOLEAN : Completes(Completed("recv", c, k, ok))
        BY <3>1, <4>1 DEF RecvCompletes
      <4> QED BY <4>2, CompletionTypes DEF Completed
    <3>2. CASE SendCompletes(c)
      <4>1. (conn[c] # "reset") \in BOOLEAN
        OBVIOUS
      <4>2. PICK ok \in BOOLEAN : Completes(Completed("send", c, 0, ok))
        BY <3>2, <4>1 DEF SendCompletes
      <4> QED BY <4>2, CompletionTypes DEF Completed
    <3> QED BY <1>5, <3>1, <3>2
  <2>2. AcceptsDone' = AcceptsDone
    BY <1>2, <2>1
  <2>3. UNCHANGED << Armed, Refused >>
    BY <1>5 DEF RecvCompletes, SendCompletes, Armed, Refused
  <2> QED BY <1>1, <2>2, <2>3
<1>6. CASE Send(c) \/ DelClient(c) \/ PeerEnds(c)
  <2>1. AcceptsDone' = AcceptsDone
    BY <1>6 DEF Send, DelClient, PeerEnds, AcceptsDone
  <2>2. Armed' = Armed /\ Refused' = Refused
    BY <1>6 DEF Send, DelClient, PeerEnds, kernelVars, Armed, Refused, TypeOK
  <2> QED BY <1>1, <2>1, <2>2
<1> QED BY <1>3, <1>4, <1>5, <1>6 DEF Business, Kernel

LEMMA NextAccept == TypeOK /\ AcceptInv /\ [Next]_vars => AcceptInv'
<1> SUFFICES ASSUME TypeOK, AcceptInv, [Next]_vars PROVE AcceptInv'
  OBVIOUS
<1>1. CASE UNCHANGED vars
  BY <1>1 DEF vars, AcceptInv, Exclusive, NoAccept, Refused, AcceptTasks, AcceptWorkers, Armed,
              AcceptsDone, Serving, Crashed
<1> QED BY <1>1, AcceptStart, AcceptClose, AcceptWorker, AcceptClient DEF Next

(* At most one Accept is under way, whatever the workers do with the       *)
(* completions; and the server that serves has one, until an AcceptEx has  *)
(* failed.                                                                 *)
THEOREM NeverTwoAccepts == Spec => []OneAccept
<1>1. AcceptInv => OneAccept
  BY TokensExclusive DEF AcceptInv, OneAccept, Refused
<1> QED BY <1>1, InitType, NextType, InitAccept, NextAccept, PTL DEF Spec

-----------------------------------------------------------------------------
(* What the workers have in hand.                                          *)

Handlers == {"newaccept", "register", "firstrecv", "connected", "rearm", "data", "senddone"}

Ended == owner \in {"closesocket", "closehandle", "closed"}

(* A worker has the completion in hand that its place in ServerMain is     *)
(* for, a good one, from GetQueuedCompletionStatus until OpOL is deleted.  *)
HandFits(w) ==
    /\ hand[w].ok
    /\ worker[w] \in {"newaccept", "register", "firstrecv", "connected"} => hand[w].type = "accept"
    /\ worker[w] \in {"rearm", "data"} => hand[w].type = "recv"
    /\ worker[w] = "senddone" => hand[w].type = "send"
    /\ worker[w] \notin Handlers \cup {"gone"} => hand[w] = Quit
    /\ worker[w] = "gone" => Ended
    /\ owner = "new" => worker[w] = "none"

HandInv == \A w \in Workers : HandFits(w)

LEMMA InitHand == Init => HandInv
BY DEF Init, HandInv, HandFits, Handlers, Quit, Completed

LEMMA HandWorker ==
    ASSUME TypeOK, HandInv, NEW w \in Workers, Worker(w)
    PROVE  /\ HandInv'
           /\ \A v \in Workers \ {w} : hand'[v] = hand[v] /\ worker'[v] = worker[v]
<1> USE DEF HandInv, HandFits, Handlers
<1>1. ASSUME NEW from, NEW to, Goes(w, from, to)
      PROVE  /\ worker[w] = from /\ worker'[w] = to
             /\ \A v \in Workers \ {w} : worker'[v] = worker[v]
             /\ Ended' = Ended
  BY <1>1 DEF TypeOK, Goes, ownerVars, Ended
<1>0. worker[w] # "none" /\ UNCHANGED owner
  BY WorkerMoves
<1>2. CASE TakeTask(w)
  BY <1>0, <1>1, <1>2 DEF TakeTask
<1>3. CASE Accept(w) \/ GetFails(w) \/ TestServing(w) \/ NextServerMain(w)
  BY <1>0, <1>1, <1>3 DEF Accept, GetFails, TestServing, NextServerMain
<1>4. CASE GetCompletion(w)
  <2> DEFINE e == Head(port)
  <2>1. /\ e \in Completion /\ worker'[w] = Serves(e) /\ worker[w] = "get"
        /\ \A v \in Workers \ {w} : worker'[v] = worker[v] /\ hand'[v] = hand[v]
        /\ Ended' = Ended
        /\ hand'[w] = IF e.ok THEN e ELSE Quit
    BY <1>1, <1>4, TailQueue DEF GetCompletion, TypeOK
  <2>2. /\ e.type \in {"accept", "recv", "send", "quit"}
        /\ e.type = "quit" => e = Quit
        /\ Quit.ok /\ Quit.type = "quit"
    BY <2>1 DEF Completion, Quit, Completed
  <2> HIDE DEF e
  <2>3. HandFits(w)'
    BY <1>0, <2>1, <2>2 DEF Serves
  <2> QED BY <1>0, <2>1, <2>3
<1>5. CASE NewAccept(w) \/ Register(w)
  BY <1>0, <1>1, <1>5 DEF NewAccept, Register
<1>6. CASE FirstRecv(w) \/ Rearm(w)
  BY <1>0, <1>1, <1>6 DEF FirstRecv, Rearm
<1>7. CASE ClientConnected(w) \/ ClientRecvData(w) \/ ClientSendDone(w)
  <2>1. ASSUME NEW from, NEW news, Tells(w, from, news), from \notin {"gone"}
        PROVE  /\ worker'[w] \in {"again", "crashed"} /\ hand'[w] = Quit
               /\ \A v \in Workers \ {w} : worker'[v] = worker[v] /\ hand'[v] = hand[v]
               /\ Ended' = Ended
    BY <1>1, <2>1 DEF Tells, TypeOK
  <2>2. /\ worker'[w] \in {"again", "crashed"} /\ hand'[w] = Quit
        /\ \A v \in Workers \ {w} : worker'[v] = worker[v] /\ hand'[v] = hand[v]
        /\ Ended' = Ended
    BY <1>7, <2>1 DEF ClientConnected, ClientRecvData, ClientSendDone
  <2>3. Quit.ok
    BY DEF Quit, Completed
  <2> QED BY <1>0, <2>2, <2>3
<1> HIDE DEF HandInv, HandFits, Handlers
<1> QED BY <1>2, <1>3, <1>4, <1>5, <1>6, <1>7 DEF Worker, ServerMain

LEMMA NextHand == TypeOK /\ HandInv /\ [Next]_vars => HandInv'
<1> SUFFICES ASSUME TypeOK, HandInv, [Next]_vars PROVE HandInv'
  OBVIOUS
<1> USE DEF HandInv, HandFits, Handlers, Ended
<1>1. CASE UNCHANGED vars
  BY <1>1 DEF vars
<1>2. CASE Start
  <2>1. CASE StartRun
    BY <2>1 DEF StartRun
  <2>2. CASE StartAccept \/ StartMain \/ StartBusiness
    BY <2>2 DEF StartAccept, StartMain, StartBusiness, poolVars
  <2> QED BY <1>2, <2>1, <2>2 DEF Start
<1>3. CASE Close \/ CloseSteps
  <2>1. CASE CloseTaskStop
    BY <2>1 DEF CloseTaskStop
  <2>2. CASE Close \/ ClosePost \/ CloseTaskStatus \/ CloseTaskQueue \/ CloseSocket \/ CloseHandle
    BY <2>2 DEF Close, ClosePost, CloseTaskStatus, CloseTaskQueue, CloseSocket, CloseHandle, poolVars
  <2> QED BY <1>3, <2>1, <2>2 DEF CloseSteps
<1>4. ASSUME NEW c \in Clients, Business(c) \/ Kernel(c)
      PROVE  HandInv'
  BY <1>4, ClientLeavesWorkers
<1> HIDE DEF HandInv, HandFits, Handlers, Ended
<1> QED BY <1>1, <1>2, <1>3, <1>4, HandWorker DEF Next

-----------------------------------------------------------------------------
(* The way of the news: from the kernel to the port, into the hands of a   *)
(* worker and to the business layer.                                       *)

Chunks == 0 .. MaxPackets

(* Completion e brings news k of client c: that it connected, for k = 0,   *)
(* or its chunk k.                                                         *)
Brings(e, c, k) ==
    /\ e.ok /\ e.client = c
    /\ IF k = 0 THEN e.type = "accept" ELSE e.type = "recv" /\ e.packet = k

(* The news of c that there have been.                                     *)
Came(c) == IF conn[c] \in {"open", "eof", "reset"} THEN 0 .. received[c] ELSE {}

Live == ~Ended /\ ~Crashed

Waits(c, k) == \E i \in 1 .. Len(port) : Brings(port[i], c, k)
Held(c, k) == \E w \in Workers : Brings(hand[w], c, k)

(* The kinds of steps, by what they do to the news.                        *)
SameNews == \A c \in Clients : Came(c)' = Came(c)

Quiet == UNCHANGED << port, hand, told >> /\ SameNews /\ (Live' => Live)

Posts(e) ==
    /\ port' = Append(port, e) /\ UNCHANGED << hand, told >>
    /\ Live' => Live
    /\ \A c \in Clients : Came(c)' = Came(c) \cup {k \in Chunks : Brings(e, c, k)}
    /\ \A c \in Clients, k \in Chunks : Brings(e, c, k) => \A l \in Came(c) : l < k

Takes(w) ==
    /\ port # << >> /\ port' = Tail(port)
    /\ hand[w] = Quit
    /\ hand' = [hand EXCEPT ![w] = IF Head(port).ok THEN Head(port) ELSE Quit]
    /\ UNCHANGED told /\ SameNews /\ (Live' => Live)

TellsOf(w, c, k) ==
    /\ \A d \in Clients, l \in Chunks : Brings(hand[w], d, l) <=> d = c /\ l = k
    /\ told' = [told EXCEPT ![c] = Append(@, k)]

TellsNothing(w) ==
    /\ \/ Crashed'
       \/ \A d \in Clients, l \in Chunks : ~Brings(hand[w], d, l)
    /\ UNCHANGED told

Passes(w) ==
    /\ worker[w] \in InServerMain /\ ~Crashed
    /\ hand' = [hand EXCEPT ![w] = Quit]
    /\ TellsNothing(w) \/ \E c \in Clients, k \in Chunks : TellsOf(w, c, k)
    /\ UNCHANGED port /\ SameNews /\ (Live' => Live)

Drops == port' = << >> /\ UNCHANGED << hand, told >> /\ SameNews /\ Ended'

NewsStep ==
    \/ Quiet \/ Drops
    \/ \E e \in Completion : Posts(e)
    \/ \E w \in Workers : Takes(w) \/ Passes(w)

(* Before a peer has connected, nothing has arrived from it; what failed   *)
(* has no data.                                                            *)
PortFits(i) == port[i].type = "recv" /\ ~port[i].ok => port[i].packet = 0

KernelInv ==
    /\ \A c \in Clients : conn[c] \notin {"open", "eof", "reset"} => received[c] = 0
    /\ \A i \in 1 .. Len(port) : PortFits(i)

LEMMA QuitBringsNothing == \A c, k : ~Brings(Quit, c, k)
BY DEF Quit, Completed, Brings

LEMMA NewsOwner ==
    ASSUME TypeOK, HandInv, Start \/ Close \/ CloseSteps
    PROVE  NewsStep
<1> USE DEF Live, Ended, Came, SameNews
<1>1. CASE Start
  <2>1. CASE StartRun
    <3>1. ~Ended /\ ~Crashed
      BY <2>1 DEF StartRun, HandInv, HandFits, Crashed
    <3> QED BY <2>1, <3>1 DEF StartRun, Quiet, kernelVars, NewsStep
  <2>2. CASE StartAccept \/ StartMain \/ StartBusiness
    <3>1. UNCHANGED << port, hand, told, conn, received, worker >> /\ ~Ended
      BY <2>2 DEF StartAccept, StartMain, StartBusiness, poolVars, kernelVars
    <3> QED BY <3>1 DEF Quiet, NewsStep, Crashed
  <2> QED BY <1>1, <2>1, <2>2 DEF Start
<1>2. CASE Close \/ CloseTaskStatus \/ CloseTaskQueue \/ CloseTaskStop
  <2>1. Quiet
    BY <1>2 DEF Close, CloseTaskStatus, CloseTaskQueue, CloseTaskStop, Quiet, poolVars, kernelVars
  <2> QED BY <2>1 DEF NewsStep
<1>3. CASE ClosePost
  <2>1. Posts(Quit)
    BY <1>3, QuitBringsNothing DEF ClosePost, Posts, poolVars, kernelVars
  <2> QED BY <2>1, CompletionTypes DEF NewsStep
<1>4. CASE CloseSocket
  <2>1. Quiet
    BY <1>4 DEF CloseSocket, Quiet, TypeOK, poolVars
  <2> QED BY <2>1 DEF NewsStep
<1>5. CASE CloseHandle
  <2>1. Drops
    BY <1>5 DEF CloseHandle, Drops, poolVars, kernelVars
  <2> QED BY <2>1 DEF NewsStep
<1> QED BY <1>1, <1>2, <1>3, <1>4, <1>5 DEF CloseSteps

LEMMA NewsWorker ==
    ASSUME TypeOK, HandInv, NEW w \in Workers, Worker(w)
    PROVE  NewsStep
<1>1. ~Crashed /\ (Ended' <=> Ended)
  BY WorkerMoves DEF Ended
<1>2. Live' => Live
  BY <1>1 DEF Live
<1>3. CASE TakeTask(w) \/ GetFails(w) \/ NewAccept(w) \/ Register(w) \/ TestServing(w) \/ NextServerMain(w)
  <2>1. UNCHANGED << port, hand, told, conn, received >>
    BY <1>3 DEF TakeTask, GetFails, NewAccept, Register, TestServing, NextServerMain, kernelVars
  <2> QED BY <1>2, <2>1 DEF NewsStep, Quiet, SameNews, Came
<1>4. CASE Accept(w)
  <2>1. UNCHANGED << port, hand, told, received >> /\ \A c \in Clients :
            conn'[c] = conn[c] \/ {conn[c], conn'[c]} \subseteq {"new", "refused", "armed"}
    BY <1>4 DEF Accept, TypeOK
  <2> QED BY <1>2, <2>1 DEF NewsStep, Quiet, SameNews, Came
<1>5. CASE FirstRecv(w) \/ Rearm(w)
  <2>1. UNCHANGED << port, hand, told, conn, received >>
    BY <1>5 DEF FirstRecv, Rearm, Recv
  <2> QED BY <1>2, <2>1 DEF NewsStep, Quiet, SameNews, Came
<1>6. CASE GetCompletion(w)
  <2>1. worker[w] = "get" /\ UNCHANGED << conn, received >>
    BY <1>6 DEF GetCompletion, Goes, kernelVars
  <2>2. hand[w] = Quit
    BY <2>1 DEF HandInv, HandFits, Handlers
  <2>3. Takes(w)
    BY <1>2, <1>6, <2>1, <2>2 DEF GetCompletion, Takes, SameNews, Came
  <2> QED BY <2>3 DEF NewsStep
<1>7. ASSUME NEW from, NEW news, Tells(w, from, news),
             from \in {"connected", "data", "senddone"},
             \/ news = << >> /\ \A d \in Clients, l \in Chunks : ~Brings(hand[w], d, l)
             \/ \E k \in Chunks :
                    /\ news = << k >> /\ hand[w].client \in Clients
                    /\ \A d \in Clients, l \in Chunks :
                           Brings(hand[w], d, l) <=> d = hand[w].client /\ l = k
      PROVE  NewsStep
  <2>1. /\ hand' = [hand EXCEPT ![w] = Quit] /\ UNCHANGED << port, conn, received >>
        /\ m_business => told' = [told EXCEPT ![hand[w].client] = @ \o news]
        /\ ~m_business => UNCHANGED told /\ worker'[w] = "crashed"
        /\ worker[w] \in InServerMain /\ ~Crashed
    BY <1>1, <1>7 DEF Tells, kernelVars, Goes, TypeOK, InServerMain
  <2>2. CASE ~m_business
    <3>1. TellsNothing(w)
      BY <2>1, <2>2 DEF TellsNothing, Crashed
    <3>2. Passes(w)
      BY <1>2, <2>1, <3>1 DEF Passes, SameNews, Came
    <3> QED BY <3>2 DEF NewsStep
  <2>3. CASE m_business /\ news = << >> /\ \A d \in Clients, l \in Chunks : ~Brings(hand[w], d, l)
    <3>1. told' = told
      <4>1. \A c \in Clients : told[c] \o news = told[c]
        BY <2>3, ConcatEmptySeq DEF TypeOK
      <4>2. told \in [Clients -> Seq(0 .. MaxPackets)]
        BY DEF TypeOK
      <4> QED BY <2>1, <2>3, <4>1, <4>2
    <3>2. Passes(w)
      BY <1>2, <2>1, <2>3, <3>1 DEF Passes, TellsNothing, SameNews, Came
    <3> QED BY <3>2 DEF NewsStep
  <2>4. ASSUME m_business, NEW k \in Chunks, news = << k >>, hand[w].client \in Clients,
               \A d \in Clients, l \in Chunks : Brings(hand[w], d, l) <=> d = hand[w].client /\ l = k
        PROVE  NewsStep
    <3> DEFINE c == hand[w].client
    <3>1. told[c] \o news = Append(told[c], k)
      BY <2>4, AppendIsConcat DEF TypeOK, Chunks
    <3>2. told' = [told EXCEPT ![c] = Append(@, k)]
      BY <2>1, <2>4, <3>1
    <3>3. TellsOf(w, c, k)
      BY <2>4, <3>2 DEF TellsOf
    <3>4. Passes(w)
      BY <1>2, <2>1, <2>4, <3>3 DEF Passes, SameNews, Came
    <3> QED BY <3>4 DEF NewsStep
  <2> QED BY <1>7, <2>2, <2>3, <2>4
<1>8. CASE ClientConnected(w) \/ ClientRecvData(w) \/ ClientSendDone(w)
  <2>0. /\ HandFits(w) /\ hand[w] \in Completion /\ 0 \in Chunks
    BY CompletionTypes DEF HandInv, TypeOK, Chunks
  <2>1. CASE ClientConnected(w)
    <3>1. worker[w] = "connected"
      BY <2>1 DEF ClientConnected, Tells, Goes
    <3>2. hand[w].type = "accept" /\ hand[w].ok /\ hand[w].client \in Clients
      BY <2>0, <3>1 DEF HandFits, Completion, Quit, Completed
    <3> QED BY <1>7, <2>0, <2>1, <3>2 DEF ClientConnected, Brings
  <2>2. CASE ClientRecvData(w)
    <3>1. worker[w] = "data"
      BY <2>2 DEF ClientRecvData, Tells, Goes
    <3>2. /\ hand[w].type = "recv" /\ hand[w].ok /\ hand[w].client \in Clients
          /\ hand[w].packet \in Chunks
      BY <2>0, <3>1 DEF HandFits, Completion, Quit, Completed, Chunks
    <3>3. CASE hand[w].packet = 0
      <4>1. \A d \in Clients, l \in Chunks : ~Brings(hand[w], d, l)
        BY <3>2, <3>3 DEF Brings
      <4> QED BY <1>7, <2>2, <3>3, <4>1 DEF ClientRecvData
    <3>4. CASE hand[w].packet # 0
      <4>1. \A d \in Clients, l \in Chunks :
                Brings(hand[w], d, l) <=> d = hand[w].client /\ l = hand[w].packet
        BY <3>2, <3>4 DEF Brings
      <4> QED BY <1>7, <2>2, <3>2, <3>4, <4>1 DEF ClientRecvData
    <3> QED BY <3>3, <3>4
  <2>3. CASE ClientSendDone(w)
    <3>1. worker[w] = "senddone"
      BY <2>3 DEF ClientSendDone, Tells, Goes
    <3>2. \A d \in Clients, l \in Chunks : ~Brings(hand[w], d, l)
      BY <2>0, <3>1 DEF HandFits, Brings
    <3> QED BY <1>7, <2>3, <3>2 DEF ClientSendDone
  <2> QED BY <1>8, <2>1, <2>2, <2>3
<1> QED BY <1>3, <1>4, <1>5, <1>6, <1>8 DEF Worker, ServerMain

LEMMA NewsClient ==
    ASSUME TypeOK, KernelInv, NEW c \in Clients, Business(c) \/ Kernel(c)
    PROVE  NewsStep
<1>1. UNCHANGED << hand, told, worker, owner >>
  BY ClientLeavesWorkers
<1>2. Live' = Live
  BY <1>1 DEF Live, Ended, Crashed
<1> USE DEF SameNews, Came
<1>3. ASSUME NEW e \in Completion, Completes(e), SameNews, ~e.ok \/ e.type = "send" \/ (e.type = "recv" /\ e.packet = 0)
      PROVE  NewsStep
  <2>1. \A d \in Clients, k \in Chunks : ~Brings(e, d, k)
    BY <1>3 DEF Brings
  <2>2. Posts(e)
    BY <1>1, <1>2, <1>3, <2>1 DEF Posts, Completes
  <2> QED BY <2>2 DEF NewsStep
<1>4. ASSUME NEW e \in Completion, NEW k \in Chunks, Completes(e), 
             \A d \in Clients, l \in Chunks : Brings(e, d, l) <=> d = c /\ l = k,
             Came(c)' = Came(c) \cup {k}, \A l \in Came(c) : l < k,
             \A d \in Clients \ {c} : Came(d)' = Came(d)
      PROVE  NewsStep
  <2>1. Posts(e)
    BY <1>1, <1>2, <1>4 DEF Posts, Completes
  <2> QED BY <2>1 DEF NewsStep
<1>5. CASE Send(c) \/ DelClient(c)
  <2>1. UNCHANGED << port, conn, received >>
    BY <1>5 DEF Send, DelClient, kernelVars
  <2> QED BY <1>1, <1>2, <2>1 DEF NewsStep, Quiet
<1>6. CASE PeerConnects(c)
  <2> DEFINE e == Completed("accept", c, 0, TRUE)
  <2>1. e \in Completion /\ 0 \in Chunks
    BY CompletionTypes DEF Chunks
  <2>2. \A d \in Clients, l \in Chunks : Brings(e, d, l) <=> d = c /\ l = 0
    BY DEF Brings, Completed
  <2>3. Came(c) = {} /\ Came(c)' = {0}
    <3>1. conn[c] = "armed" /\ conn'[c] = "open" /\ received'[c] = 0
      BY <1>6 DEF PeerConnects, TypeOK, KernelInv
    <3>2. 0 .. 0 = {0}
      OBVIOUS
    <3> QED BY <3>1, <3>2
  <2>4. \A d \in Clients \ {c} : Came(d)' = Came(d)
    BY <1>6 DEF PeerConnects, TypeOK
  <2> QED BY <1>4, <1>6, <2>1, <2>2, <2>3, <2>4 DEF PeerConnects
<1>7. CASE AcceptFails(c)
  <2> DEFINE e == Completed("accept", c, 0, FALSE)
  <2>1. e \in Completion /\ ~e.ok
    BY CompletionTypes DEF Completed
  <2>2. SameNews
    BY <1>7 DEF AcceptFails, TypeOK
  <2> QED BY <1>3, <1>7, <2>1, <2>2 DEF AcceptFails
<1>8. CASE RecvCompletes(c)
  <2>1. CASE /\ conn[c] = "open" /\ received[c] < MaxPackets
             /\ received' = [received EXCEPT ![c] = @ + 1]
             /\ Completes(Completed("recv", c, received[c] + 1, TRUE))
    <3> DEFINE k == received[c] + 1
               e == Completed("recv", c, k, TRUE)
    <3>1. k \in Chunks /\ k # 0 /\ received[c] \in Nat
      BY <2>1, ServerAssumption DEF TypeOK, Chunks
    <3>2. e \in Completion
      BY <3>1, CompletionTypes DEF Chunks
    <3>3. \A d \in Clients, l \in Chunks : Brings(e, d, l) <=> d = c /\ l = k
      BY <3>1 DEF Brings, Completed
    <3>4. Came(c) = 0 .. received[c] /\ Came(c)' = 0 .. k
      BY <1>8, <2>1 DEF RecvCompletes, TypeOK
    <3>5. 0 .. k = 0 .. received[c] \cup {k}
      BY <3>1
    <3>6. \A d \in Clients \ {c} : Came(d)' = Came(d)
      BY <1>8, <2>1 DEF RecvCompletes, TypeOK
    <3>7. \A l \in Came(c) : l < k
      BY <3>1, <3>4
    <3> QED BY <1>4, <2>1, <3>1, <3>2, <3>3, <3>4, <3>5, <3>6, <3>7
  <2>2. CASE Completes(Completed("recv", c, 0, conn[c] = "eof")) /\ UNCHANGED received
    <3> DEFINE e == Completed("recv", c, 0, conn[c] = "eof")
    <3>1. (conn[c] = "eof") \in BOOLEAN /\ 0 \in 0 .. MaxPackets
      BY CompletionTypes
    <3>2. e \in Completion /\ e.type = "recv" /\ e.packet = 0
      BY <3>1, CompletionTypes DEF Completed
    <3>3. SameNews
      BY <1>8, <2>2 DEF RecvCompletes
    <3> QED BY <1>3, <2>2, <3>2, <3>3
  <2> QED BY <1>8, <2>1, <2>2 DEF RecvCompletes
<1>9. CASE SendCompletes(c)
  <2> DEFINE e == Completed("send", c, 0, conn[c] # "reset")
  <2>1. (conn[c] # "reset") \in BOOLEAN /\ 0 \in 0 .. MaxPackets
    BY CompletionTypes
  <2>2. e \in Completion /\ e.type = "send"
    BY <2>1, CompletionTypes DEF Completed
  <2>3. SameNews
    BY <1>9 DEF SendCompletes
  <2> QED BY <1>3, <1>9, <2>2, <2>3 DEF SendCompletes
<1>10. CASE PeerEnds(c)
  <2>1. UNCHANGED << port, received >> /\ SameNews
    BY <1>10 DEF PeerEnds, TypeOK
  <2> QED BY <1>1, <1>2, <2>1 DEF NewsStep, Quiet
<1> QED BY <1>5, <1>6, <1>7, <1>8, <1>9, <1>10 DEF Business, Kernel

LEMMA NewsSteps == TypeOK /\ HandInv /\ KernelInv /\ [Next]_vars => NewsStep
<1> SUFFICES ASSUME TypeOK, HandInv, KernelInv, [Next]_vars PROVE NewsStep
  OBVIOUS
<1>1. CASE UNCHANGED vars
  BY <1>1 DEF vars, NewsStep, Quiet, SameNews, Came, Live, Ended, Crashed
<1> QED BY <1>1, NewsOwner, NewsWorker, NewsClient DEF Next

LEMMA InitKernel == Init => KernelInv
BY DEF Init, KernelInv

LEMMA NextKernel == TypeOK /\ KernelInv /\ [Next]_vars => KernelInv'
<1> SUFFICES ASSUME TypeOK, KernelInv, [Next]_vars PROVE KernelInv'
  OBVIOUS
<1> DEFINE Unmet == \A c \in Clients : conn[c] \notin {"open", "eof", "reset"} => received[c] = 0
           Good(e) == e.type = "recv" /\ ~e.ok => e.packet = 0
<1>1. ASSUME NEW e \in Completion, port' = Append(port, e), Good(e)
      PROVE  (\A i \in 1 .. Len(port) : PortFits(i))'
  <2>1. \A i \in 1 .. Len(port') : port'[i] = e \/ (i \in 1 .. Len(port) /\ port'[i] = port[i])
    BY <1>1, AppendQueue DEF TypeOK
  <2> QED BY <1>1, <2>1 DEF KernelInv, PortFits
<1>2. ASSUME port' = port
      PROVE  (\A i \in 1 .. Len(port) : PortFits(i))'
  BY <1>2 DEF KernelInv, PortFits
<1>3. ASSUME UNCHANGED << conn, received >>
      PROVE  Unmet'
  BY <1>3 DEF KernelInv
<1>4. CASE UNCHANGED vars
  BY <1>2, <1>3, <1>4 DEF vars, KernelInv
<1>5. CASE Start
  <2>1. UNCHANGED << port, conn, received >>
    BY <1>5 DEF Start, StartRun, StartAccept, StartMain, StartBusiness, kernelVars
  <2> QED BY <1>2, <1>3, <2>1 DEF KernelInv
<1>6. CASE Close \/ CloseSteps
  <2>1. CASE ClosePost
    <3>1. UNCHANGED << conn, received >> /\ port' = Append(port, Quit) /\ Good(Quit)
      BY <2>1 DEF ClosePost, kernelVars, Quit, Completed
    <3> QED BY <1>1, <1>3, <3>1, CompletionTypes DEF KernelInv
  <2>2. CASE Close \/ CloseTaskStatus \/ CloseTaskQueue \/ CloseTaskStop
    <3>1. UNCHANGED << port, conn, received >>
      BY <2>2 DEF Close, CloseTaskStatus, CloseTaskQueue, CloseTaskStop, kernelVars
    <3> QED BY <1>2, <1>3, <3>1 DEF KernelInv
  <2>3. CASE CloseSocket
    <3>1. port' = port /\ Unmet'
      BY <2>3 DEF CloseSocket, TypeOK, KernelInv
    <3> QED BY <1>2, <3>1 DEF KernelInv
  <2>4. CASE CloseHandle
    BY <2>4 DEF CloseHandle, kernelVars, KernelInv
  <2> QED BY <1>6, <2>1, <2>2, <2>3, <2>4 DEF CloseSteps
<1>7. ASSUME NEW w \in Workers, Worker(w)
      PROVE  KernelInv'
  <2>1. CASE GetCompletion(w)
    <3>1. UNCHANGED << conn, received >> /\ port # << >> /\ port' = Tail(port)
      BY <2>1 DEF GetCompletion, kernelVars
    <3>2. (\A i \in 1 .. Len(port) : PortFits(i))'
      <4>1. \A i \in 1 .. Len(port') : i + 1 \in 1 .. Len(port) /\ port'[i] = port[i + 1]
        BY <3>1, TailQueue DEF TypeOK
      <4> QED BY <4>1 DEF KernelInv, PortFits
    <3> QED BY <1>3, <3>1, <3>2 DEF KernelInv
  <2>2. CASE Accept(w)
    <3>1. port' = port /\ Unmet'
      BY <2>2 DEF Accept, TypeOK, KernelInv
    <3> QED BY <1>2, <3>1 DEF KernelInv
  <2>3. CASE UNCHANGED << port, conn, received >>
    BY <1>2, <1>3, <2>3 DEF KernelInv
  <2> QED BY <1>7, <2>1, <2>2, <2>3 DEF Worker, ServerMain, TakeTask, GetFails, NewAccept, Register,
             FirstRecv, Rearm, Recv, ClientConnected, ClientRecvData, ClientSendDone, Tells,
             TestServing, NextServerMain, kernelVars
<1>8. ASSUME NEW c \in Clients, Business(c) \/ Kernel(c)
      PROVE  KernelInv'
  <2>1. Unmet'
    BY <1>8 DEF Business, Kernel, Send, DelClient, PeerConnects, AcceptFails, RecvCompletes,
                SendCompletes, PeerEnds, kernelVars, TypeOK, KernelInv
  <2>2. port' = port \/ \E e \in Completion : port' = Append(port, e) /\ Good(e)
    <3>1. CASE Send(c) \/ DelClient(c) \/ PeerEnds(c)
      BY <3>1 DEF Send, DelClient, PeerEnds
    <3>2. CASE PeerConnects(c) \/ AcceptFails(c) \/ SendCompletes(c)
      <4>1. PICK type \in {"accept", "send"}, ok \in BOOLEAN : Completes(Completed(type, c, 0, ok))
        <5>1. (conn[c] # "reset") \in BOOLEAN
          OBVIOUS
        <5> QED BY <3>2, <5>1 DEF PeerConnects, AcceptFails, SendCompletes
      <4> QED BY <4>1, CompletionTypes DEF Completes, Completed
    <3>3. CASE RecvCompletes(c)
      <4>1. PICK k \in 0 .. MaxPackets, ok \in BOOLEAN :
                Completes(Completed("recv", c, k, ok)) /\ (~ok => k = 0)
        <5>1. (conn[c] = "eof") \in BOOLEAN /\ 0 \in 0 .. MaxPackets
          BY CompletionTypes
        <5>2. received[c] < MaxPackets => received[c] + 1 \in 0 .. MaxPackets
          BY ServerAssumption DEF TypeOK
        <5> QED BY <3>3, <5>1, <5>2 DEF RecvCompletes
      <4> QED BY <4>1, CompletionTypes DEF Completes, Completed
    <3> QED BY <1>8, <3>1, <3>2, <3>3 DEF Business, Kernel
  <2> QED BY <1>1, <1>2, <2>1, <2>2 DEF KernelInv
<1> QED BY <1>4, <1>5, <1>6, <1>7, <1>8 DEF Next

(* News waits in the port in the order it came, and what was taken out is  *)
(* older than what waits.                                                  *)
InOrder(c) ==
    /\ \A i, j \in 1 .. Len(port), k, l \in Chunks :
           Brings(port[i], c, k) /\ Brings(port[j], c, l) /\ i < j => k < l
    /\ \A k, l \in Chunks : Waits(c, k) /\ (Held(c, l) \/ l \in ToldOf(c)) => l < k

HeldOnce(c) ==
    \A k \in Chunks :
        /\ \A v, w \in Workers : Brings(hand[v], c, k) /\ Brings(hand[w], c, k) => v = w
        /\ Held(c, k) => k \notin ToldOf(c)

OnlyArrived(c) ==
    \A k \in Chunks : Waits(c, k) \/ Held(c, k) \/ k \in ToldOf(c) => k \in Came(c)

NothingLost(c) ==
    Live => \A k \in Came(c) : Waits(c, k) \/ Held(c, k) \/ k \in ToldOf(c)

NewsInv ==
    \A c \in Clients : /\ InOrder(c) /\ HeldOnce(c) /\ Distinct(told[c])
                       /\ OnlyArrived(c) /\ NothingLost(c)

LEMMA InitNews == Init => NewsInv
<1> SUFFICES ASSUME Init, NEW c \in Clients
             PROVE  InOrder(c) /\ HeldOnce(c) /\ Distinct(told[c]) /\ OnlyArrived(c) /\ NothingLost(c)
  BY DEF NewsInv
<1>1. port = << >> /\ told[c] = << >> /\ conn[c] = "new" /\ \A w \in Workers : hand[w] = Quit
  BY DEF Init
<1>2. \A k : ~Waits(c, k) /\ ~Held(c, k)
  BY <1>1, QuitBringsNothing DEF Waits, Held
<1>3. Came(c) = {} /\ ToldOf(c) = {} /\ Distinct(told[c])
  BY <1>1 DEF Came, ToldOf, Distinct
<1> QED BY <1>1, <1>2, <1>3, QuitBringsNothing DEF InOrder, HeldOnce, OnlyArrived, NothingLost

(* A completion brings one thing at most.                                  *)
LEMMA BringsOne ==
    ASSUME NEW e, NEW c, NEW d, NEW k, NEW l, Brings(e, c, k), Brings(e, d, l)
    PROVE  c = d /\ k = l
BY DEF Brings

LEMMA NewsTypes ==
    ASSUME TypeOK, NEW c \in Clients
    PROVE  /\ told[c] \in Seq(Chunks) /\ ToldOf(c) = Packets(told[c]) /\ ToldOf(c) \subseteq Chunks
           /\ Chunks \subseteq Nat /\ Came(c) \subseteq Chunks
           /\ port \in Seq(Completion)
           /\ \A w \in Workers : hand[w] \in Completion
<1>1. told[c] \in Seq(Chunks) /\ port \in Seq(Completion) /\ \A w \in Workers : hand[w] \in Completion
  BY DEF TypeOK, Chunks
<1>2. ToldOf(c) = Packets(told[c])
  BY DEF ToldOf, Packets
<1>3. ToldOf(c) \subseteq Chunks
  BY <1>1, <1>2, LenProperties DEF Packets
<1>4. Chunks \subseteq Nat /\ Came(c) \subseteq Chunks
  BY ServerAssumption DEF Chunks, Came, TypeOK
<1> QED BY <1>1, <1>2, <1>3, <1>4

LEMMA QuietNews == ASSUME TypeOK, NewsInv, Quiet PROVE NewsInv'
<1> SUFFICES ASSUME NEW c \in Clients
             PROVE  (InOrder(c) /\ HeldOnce(c) /\ Distinct(told[c]) /\ OnlyArrived(c) /\ NothingLost(c))'
  BY DEF NewsInv
<1>1. UNCHANGED << port, hand, told >> /\ Came(c)' = Came(c) /\ (Live' => Live)
  BY DEF Quiet, SameNews
<1>2. /\ \A k : Waits(c, k)' = Waits(c, k) /\ Held(c, k)' = Held(c, k)
      /\ ToldOf(c)' = ToldOf(c) /\ Distinct(told[c])' = Distinct(told[c])
  BY <1>1 DEF Waits, Held, ToldOf, Distinct
<1>3. InOrder(c) /\ HeldOnce(c) /\ Distinct(told[c]) /\ OnlyArrived(c) /\ NothingLost(c)
  BY DEF NewsInv
<1>4. InOrder(c)'
  BY <1>1, <1>2, <1>3 DEF InOrder
<1>5. HeldOnce(c)'
  BY <1>1, <1>2, <1>3 DEF HeldOnce
<1> QED BY <1>1, <1>2, <1>3, <1>4, <1>5 DEF OnlyArrived, NothingLost

LEMMA DropsNews == ASSUME TypeOK, NewsInv, Drops PROVE NewsInv'
<1> SUFFICES ASSUME NEW c \in Clients
             PROVE  (InOrder(c) /\ HeldOnce(c) /\ Distinct(told[c]) /\ OnlyArrived(c) /\ NothingLost(c))'
  BY DEF NewsInv
<1>1. port' = << >> /\ UNCHANGED << hand, told >> /\ Came(c)' = Came(c) /\ ~Live'
  BY DEF Drops, SameNews, Live
<1>2. /\ \A k : ~Waits(c, k)' /\ Held(c, k)' = Held(c, k)
      /\ ToldOf(c)' = ToldOf(c) /\ Distinct(told[c])' = Distinct(told[c])
  BY <1>1 DEF Waits, Held, ToldOf, Distinct
<1>3. HeldOnce(c) /\ Distinct(told[c]) /\ OnlyArrived(c)
  BY DEF NewsInv
<1>4. InOrder(c)'
  BY <1>1, <1>2 DEF InOrder
<1>5. HeldOnce(c)'
  BY <1>1, <1>2, <1>3 DEF HeldOnce
<1> QED BY <1>1, <1>2, <1>3, <1>4, <1>5 DEF OnlyArrived, NothingLost

LEMMA PostsNews == ASSUME TypeOK, NewsInv, NEW e \in Completion, Posts(e) PROVE NewsInv'
<1> SUFFICES ASSUME NEW c \in Clients
             PROVE  (InOrder(c) /\ HeldOnce(c) /\ Distinct(told[c]) /\ OnlyArrived(c) /\ NothingLost(c))'
  BY DEF NewsInv
<1>1. /\ UNCHANGED << hand, told >> /\ (Live' => Live)
      /\ Came(c)' = Came(c) \cup {k \in Chunks : Brings(e, c, k)}
      /\ \A k \in Chunks : Brings(e, c, k) => \A l \in Came(c) : l < k
  BY DEF Posts
<1>2. /\ Len(port) \in Nat /\ Len(port') = Len(port) + 1
      /\ \A i \in 1 .. Len(port) : port'[i] = port[i]
      /\ port'[Len(port) + 1] = e
  BY AppendQueue, NewsTypes DEF Posts
<1>3. /\ \A k : Held(c, k)' = Held(c, k)
      /\ ToldOf(c)' = ToldOf(c) /\ Distinct(told[c])' = Distinct(told[c])
  BY <1>1 DEF Held, ToldOf, Distinct
<1>4. \A k : Waits(c, k)' <=> Waits(c, k) \/ Brings(e, c, k)
  BY <1>2 DEF Waits
<1>5. InOrder(c) /\ HeldOnce(c) /\ Distinct(told[c]) /\ OnlyArrived(c) /\ NothingLost(c)
  BY DEF NewsInv
<1>6. InOrder(c)'
  <2>1. ASSUME NEW i \in 1 .. Len(port'), NEW j \in 1 .. Len(port'), NEW k \in Chunks, NEW l \in Chunks,
               Brings(port'[i], c, k), Brings(port'[j], c, l), i < j
        PROVE  k < l
    <3>1. i \in 1 .. Len(port) /\ Brings(port[i], c, k)
      BY <1>2, <2>1
    <3>2. CASE j \in 1 .. Len(port)
      BY <1>2, <1>5, <2>1, <3>1, <3>2 DEF InOrder
    <3>3. CASE j = Len(port) + 1
      <4>1. k \in Came(c)
        BY <1>5, <3>1 DEF OnlyArrived, Waits
      <4> QED BY <1>1, <1>2, <2>1, <3>3, <4>1
    <3> QED BY <1>2, <3>2, <3>3
  <2>2. ASSUME NEW k \in Chunks, NEW l \in Chunks, Waits(c, k)', (Held(c, l) \/ l \in ToldOf(c))'
        PROVE  l < k
    <3>1. Held(c, l) \/ l \in ToldOf(c)
      BY <1>3, <2>2
    <3>2. CASE Waits(c, k)
      BY <1>5, <3>1, <3>2 DEF InOrder
    <3>3. CASE Brings(e, c, k)
      <4>1. l \in Came(c)
        BY <1>5, <3>1 DEF OnlyArrived
      <4> QED BY <1>1, <3>3, <4>1
    <3> QED BY <1>4, <2>2, <3>2, <3>3
  <2> QED BY <2>1, <2>2 DEF InOrder
<1>7. HeldOnce(c)'
  BY <1>1, <1>3, <1>5 DEF HeldOnce
<1>8. OnlyArrived(c)'
  BY <1>1, <1>3, <1>4, <1>5 DEF OnlyArrived
<1>9. NothingLost(c)'
  BY <1>1, <1>3, <1>4, <1>5 DEF NothingLost
<1> QED BY <1>3, <1>5, <1>6, <1>7, <1>8, <1>9

LEMMA TakesNews == ASSUME TypeOK, NewsInv, NEW w \in Workers, Takes(w) PROVE NewsInv'
<1> SUFFICES ASSUME NEW c \in Clients
             PROVE  (InOrder(c) /\ HeldOnce(c) /\ Distinct(told[c]) /\ OnlyArrived(c) /\ NothingLost(c))'
  BY DEF NewsInv
<1> DEFINE e == Head(port)
<1>1. told' = told /\ Came(c)' = Came(c) /\ (Live' => Live) /\ hand[w] = Quit
  BY DEF Takes, SameNews
<1>2. /\ Len(port) \in Nat \ {0} /\ Len(port') = Len(port) - 1 /\ e = port[1]
      /\ \A i \in 1 .. Len(port') : i + 1 \in 1 .. Len(port) /\ port'[i] = port[i + 1]
  BY TailQueue, NewsTypes DEF Takes
<1>3. /\ \A v \in Workers \ {w} : hand'[v] = hand[v]
      /\ \A k : ~Brings(hand[w], c, k)
      /\ \A k : Brings(hand'[w], c, k) <=> Brings(e, c, k)
  <2>1. /\ \A v \in Workers \ {w} : hand'[v] = hand[v]
        /\ hand'[w] = IF e.ok THEN e ELSE Quit
    BY DEF Takes, TypeOK
  <2> QED BY <1>1, <2>1, QuitBringsNothing DEF Brings
<1>4. \A k : Held(c, k)' <=> Held(c, k) \/ Brings(e, c, k)
  BY <1>3 DEF Held
<1>5. \A k : Waits(c, k) <=> Waits(c, k)' \/ Brings(e, c, k)
  <2>1. ASSUME NEW i \in 1 .. Len(port), i # 1
        PROVE  i - 1 \in 1 .. Len(port') /\ port'[i - 1] = port[i]
    BY <1>2, <2>1
  <2>2. 1 \in 1 .. Len(port)
    BY <1>2
  <2> HIDE DEF e
  <2> QED BY <1>2, <2>1, <2>2 DEF Waits
<1>6. ToldOf(c)' = ToldOf(c) /\ Distinct(told[c])' = Distinct(told[c])
  BY <1>1 DEF ToldOf, Distinct
<1>7. InOrder(c) /\ HeldOnce(c) /\ Distinct(told[c]) /\ OnlyArrived(c) /\ NothingLost(c)
  BY DEF NewsInv
<1> HIDE DEF e
<1>8. InOrder(c)'
  <2>1. ASSUME NEW i \in 1 .. Len(port'), NEW j \in 1 .. Len(port'), NEW k \in Chunks, NEW l \in Chunks,
               Brings(port'[i], c, k), Brings(port'[j], c, l), i < j
        PROVE  k < l
    <3>1. i + 1 \in 1 .. Len(port) /\ j + 1 \in 1 .. Len(port) /\ i + 1 < j + 1
      BY <1>2, <2>1
    <3> QED BY <1>2, <1>7, <2>1, <3>1 DEF InOrder
  <2>2. ASSUME NEW k \in Chunks, NEW l \in Chunks, Waits(c, k)', (Held(c, l) \/ l \in ToldOf(c))'
        PROVE  l < k
    <3>1. CASE Held(c, l) \/ l \in ToldOf(c)
      BY <1>5, <1>7, <2>2, <3>1 DEF InOrder
    <3>2. CASE Brings(e, c, l)
      <4>1. PICK i \in 1 .. Len(port') : Brings(port'[i], c, k)
        BY <2>2 DEF Waits
      <4>2. 1 \in 1 .. Len(port) /\ i + 1 \in 1 .. Len(port) /\ 1 < i + 1 /\ Brings(port[i + 1], c, k)
        BY <1>2, <4>1
      <4> QED BY <1>2, <1>7, <3>2, <4>2 DEF InOrder
    <3> QED BY <1>4, <1>6, <2>2, <3>1, <3>2
  <2> QED BY <2>1, <2>2 DEF InOrder
<1>9. HeldOnce(c)'
  <2> SUFFICES ASSUME NEW k \in Chunks
               PROVE  /\ \A u, v \in Workers : Brings(hand'[u], c, k) /\ Brings(hand'[v], c, k) => u = v
                      /\ Held(c, k)' => k \notin ToldOf(c)'
    BY DEF HeldOnce
  <2>1. CASE Brings(e, c, k)
    <3>1. Waits(c, k) /\ k \in Nat
      BY <1>5, <2>1, NewsTypes
    <3>2. ~Held(c, k) /\ k \notin ToldOf(c)
      BY <1>7, <3>1 DEF InOrder
    <3> QED BY <1>3, <1>6, <3>2 DEF Held
  <2>2. CASE ~Brings(e, c, k)
    <3>1. \A v \in Workers : Brings(hand'[v], c, k) => Brings(hand[v], c, k)
      BY <1>3, <2>2
    <3> QED BY <1>4, <1>6, <1>7, <2>2, <3>1 DEF HeldOnce
  <2> QED BY <2>1, <2>2
<1>10. OnlyArrived(c)'
  BY <1>1, <1>4, <1>5, <1>6, <1>7 DEF OnlyArrived
<1>11. NothingLost(c)'
  BY <1>1, <1>4, <1>5, <1>6, <1>7 DEF NothingLost
<1> QED BY <1>6, <1>7, <1>8, <1>9, <1>10, <1>11

LEMMA PassesNews == ASSUME TypeOK, NewsInv, NEW w \in Workers, Passes(w) PROVE NewsInv'
<1> SUFFICES ASSUME NEW c \in Clients
             PROVE  (InOrder(c) /\ HeldOnce(c) /\ Distinct(told[c]) /\ OnlyArrived(c) /\ NothingLost(c))'
  BY DEF NewsInv
<1>1. port' = port /\ Came(c)' = Came(c) /\ (Live' => Live)
  BY DEF Passes, SameNews
<1>2. \A k : Waits(c, k)' = Waits(c, k)
  BY <1>1 DEF Waits
<1>3. /\ \A v \in Workers \ {w} : hand'[v] = hand[v]
      /\ \A k : ~Brings(hand'[w], c, k)
  BY QuitBringsNothing DEF Passes, TypeOK
<1>4. \A v \in Workers, k \in Chunks : Brings(hand'[v], c, k) => Brings(hand[v], c, k) /\ v # w
  BY <1>3
<1>5. InOrder(c) /\ HeldOnce(c) /\ Distinct(told[c]) /\ OnlyArrived(c) /\ NothingLost(c)
  BY DEF NewsInv
<1> DEFINE Told == /\ \A k \in ToldOf(c)' : k \in ToldOf(c) \/ Brings(hand[w], c, k)
                   /\ ToldOf(c) \subseteq ToldOf(c)'
                   /\ Distinct(told'[c])
                   /\ Live' => \A k \in Chunks : Brings(hand[w], c, k) => k \in ToldOf(c)'
<1>6. Told
  <2>1. CASE TellsNothing(w)
    <3>1. told' = told /\ (Live' => \A k \in Chunks : ~Brings(hand[w], c, k))
      BY <2>1 DEF TellsNothing, Live
    <3> QED BY <1>5, <3>1 DEF ToldOf
  <2>2. ASSUME NEW d \in Clients, NEW l \in Chunks, TellsOf(w, d, l)
        PROVE  Told
    <3>1. CASE d # c
      <4>1. told'[c] = told[c] /\ \A k \in Chunks : ~Brings(hand[w], c, k)
        BY <2>2, <3>1 DEF TellsOf, TypeOK
      <4> QED BY <1>5, <4>1 DEF ToldOf
    <3>2. CASE d = c
      <4>1. told'[c] = Append(told[c], l) /\ \A k \in Chunks : Brings(hand[w], c, k) <=> k = l
        BY <2>2, <3>2 DEF TellsOf, TypeOK
      <4>2. ToldOf(c)' = Packets(told'[c]) /\ ToldOf(c) = Packets(told[c])
        BY DEF ToldOf, Packets
      <4>3. ToldOf(c)' = ToldOf(c) \cup {l}
        BY <4>1, <4>2, NewsTypes, AppendPackets
      <4>4. l \notin ToldOf(c)
        BY <1>5, <4>1 DEF HeldOnce, Held
      <4>5. Distinct(told'[c])
        BY <1>5, <4>1, <4>2, <4>4, NewsTypes, AppendPackets
      <4> QED BY <4>1, <4>3, <4>5
    <3> QED BY <3>1, <3>2
  <2> QED BY <2>1, <2>2 DEF Passes
<1>7. \A k \in Chunks : /\ (Held(c, k) \/ k \in ToldOf(c))' => Held(c, k) \/ k \in ToldOf(c)
                        /\ Live' /\ (Held(c, k) \/ k \in ToldOf(c)) => (Held(c, k) \/ k \in ToldOf(c))'
  <2>1. ASSUME NEW k \in Chunks, Held(c, k), Live'
        PROVE  Held(c, k)' \/ k \in ToldOf(c)'
    BY <1>3, <1>6, <2>1 DEF Held
  <2> QED BY <1>4, <1>6, <2>1 DEF Held
<1>8. InOrder(c)'
  BY <1>1, <1>2, <1>5, <1>7 DEF InOrder
<1>9. HeldOnce(c)'
  <2> SUFFICES ASSUME NEW k \in Chunks
               PROVE  /\ \A u, v \in Workers : Brings(hand'[u], c, k) /\ Brings(hand'[v], c, k) => u = v
                      /\ Held(c, k)' => k \notin ToldOf(c)'
    BY DEF HeldOnce
  <2>1. \A u, v \in Workers : Brings(hand'[u], c, k) /\ Brings(hand'[v], c, k) => u = v
    BY <1>4, <1>5 DEF HeldOnce
  <2>2. ASSUME NEW v \in Workers, Brings(hand'[v], c, k)
        PROVE  k \notin ToldOf(c)'
    BY <1>4, <1>5, <1>6, <2>2 DEF HeldOnce, Held
  <2> QED BY <2>1, <2>2 DEF Held
<1>10. OnlyArrived(c)'
  BY <1>1, <1>2, <1>5, <1>7 DEF OnlyArrived
<1>11. NothingLost(c)'
  BY <1>1, <1>2, <1>5, <1>7, NewsTypes DEF NothingLost
<1> QED BY <1>6, <1>8, <1>9, <1>10, <1>11

LEMMA NextNews == TypeOK /\ HandInv /\ KernelInv /\ NewsInv /\ [Next]_vars => NewsInv'
BY NewsSteps, QuietNews, DropsNews, PostsNews, TakesNews, PassesNews DEF NewsStep

-----------------------------------------------------------------------------
(* How many ServerMains there are.                                         *)

MainTasks == Where(tasks, {"ServerMain"})
MainWorkers == {w \in Workers : worker[w] \in InServerMain}
Mains == Cardinality(MainTasks) + Cardinality(MainWorkers)

(* The pool always has a worker that is in no ServerMain.                  *)
MainBound ==
    IF owner \in {"new", "accept"} THEN 0
    ELSE IF owner = "main" THEN index - 1 ELSE nCpuCount - 1

MainInv ==
    /\ Mains \leq MainBound
    /\ owner = "main" => index < nCpuCount
    /\ owner \in {"new", "accept"} => index = 1

LEMMA MainTypes ==
    ASSUME TypeOK
    PROVE  /\ IsFiniteSet(MainWorkers) /\ Cardinality(MainWorkers) \in Nat
           /\ Cardinality(MainTasks) \in Nat
           /\ index \in Nat /\ nCpuCount \in Nat \ {0} /\ MainBound \in Int
<1>1. Cardinality(MainTasks) \in Nat
  BY WhereFinite DEF TypeOK, MainTasks
<1>2. MainWorkers \in SUBSET Workers /\ IsFiniteSet(Workers)
  BY ServerAssumption DEF MainWorkers
<1>3. IsFiniteSet(MainWorkers) /\ Cardinality(MainWorkers) \in Nat
  BY <1>2, FS_Subset, FS_CardinalityType
<1>4. index \in Nat /\ nCpuCount \in Nat \ {0}
  BY CpuCount DEF TypeOK
<1> QED BY <1>1, <1>3, <1>4 DEF MainBound

LEMMA InitMains == Init => MainInv
<1> SUFFICES ASSUME Init PROVE MainInv
  OBVIOUS
<1>1. MainTasks = {} /\ MainWorkers = {}
  BY DEF Init, MainTasks, MainWorkers, Where, InServerMain
<1> QED BY <1>1, FS_EmptySet DEF Init, MainInv, Mains, MainBound

(* What the queue operations do to the ServerMains that wait.              *)
LEMMA AddedMains ==
    ASSUME TypeOK, NEW t \in {"Accept", "ServerMain"}, AddTask(t)
    PROVE  /\ t = "Accept" => Cardinality(MainTasks)' = Cardinality(MainTasks)
           /\ Cardinality(MainTasks)' \in {Cardinality(MainTasks), Cardinality(MainTasks) + 1}
<1>1. tasks \in Seq({"Accept", "ServerMain"})
  BY DEF TypeOK
<1>2. CASE tasks' = Append(tasks, t)
  <2>1. /\ t \notin {"ServerMain"} => Cardinality(MainTasks)' = Cardinality(MainTasks)
        /\ t \in {"ServerMain"} => Cardinality(MainTasks)' = Cardinality(MainTasks) + 1
    BY <1>1, <1>2, AppendCount DEF MainTasks
  <2> QED BY <2>1
<1>3. CASE tasks' = tasks
  BY <1>3 DEF MainTasks
<1> QED BY <1>2, <1>3 DEF AddTask

LEMMA GoesMains ==
    ASSUME TypeOK, NEW w \in Workers, NEW from, NEW to, Goes(w, from, to)
    PROVE  /\ (from \in InServerMain <=> to \in InServerMain)
                  => Cardinality(MainWorkers)' = Cardinality(MainWorkers)
           /\ from \in InServerMain /\ to \notin InServerMain
                  => Cardinality(MainWorkers)' = Cardinality(MainWorkers) - 1
           /\ from \notin InServerMain /\ to \in InServerMain
                  => Cardinality(MainWorkers)' = Cardinality(MainWorkers) + 1
           /\ UNCHANGED << owner, index >>
<1>1. /\ worker[w] = from /\ worker'[w] = to
      /\ \A v \in Workers \ {w} : worker'[v] = worker[v]
      /\ UNCHANGED << owner, index >>
  BY DEF TypeOK, Goes, ownerVars
<1>2. IsFiniteSet(MainWorkers) /\ Cardinality(MainWorkers) \in Nat
  BY MainTypes
<1>3. CASE from \in InServerMain <=> to \in InServerMain
  BY <1>1, <1>3 DEF MainWorkers
<1>4. CASE from \in InServerMain /\ to \notin InServerMain
  <2>1. w \in MainWorkers /\ MainWorkers' = MainWorkers \ {w}
    BY <1>1, <1>4 DEF MainWorkers
  <2> QED BY <1>1, <1>2, <1>4, <2>1, FS_RemoveElement
<1>5. CASE from \notin InServerMain /\ to \in InServerMain
  <2>1. w \notin MainWorkers /\ MainWorkers' = MainWorkers \cup {w}
    BY <1>1, <1>5 DEF MainWorkers
  <2> QED BY <1>1, <1>2, <1>5, <2>1, FS_AddElement
<1> QED BY <1>1, <1>3, <1>4, <1>5

LEMMA FewerMains ==
    ASSUME TypeOK, MainWorkers' = {} \/ MainWorkers' = MainWorkers
    PROVE  Cardinality(MainWorkers)' \leq Cardinality(MainWorkers)
<1>1. Cardinality(MainWorkers) \in Nat
  BY MainTypes
<1>2. CASE MainWorkers' = {}
  BY <1>1, <1>2, FS_EmptySet
<1>3. CASE MainWorkers' = MainWorkers
  BY <1>1, <1>3
<1> QED BY <1>2, <1>3

LEMMA NextMains == TypeOK /\ TypeOK' /\ MainInv /\ [Next]_vars => MainInv'
<1> SUFFICES ASSUME TypeOK, TypeOK', MainInv, [Next]_vars PROVE MainInv'
  OBVIOUS
<1>0. /\ Cardinality(MainWorkers) \in Nat /\ Cardinality(MainTasks) \in Nat
      /\ index \in Nat /\ nCpuCount \in Nat \ {0}
      /\ Cardinality(MainWorkers)' \in Nat /\ Cardinality(MainTasks)' \in Nat
  <2>1. Cardinality(MainTasks)' \in Nat
    BY WhereFinite DEF TypeOK, MainTasks
  <2>2. MainWorkers' \in SUBSET Workers /\ IsFiniteSet(Workers)
    BY ServerAssumption DEF MainWorkers
  <2>3. Cardinality(MainWorkers)' \in Nat
    BY <2>2, FS_Subset, FS_CardinalityType
  <2> QED BY <2>1, <2>3, MainTypes
<1> USE DEF MainInv, Mains, MainBound
<1>1. CASE UNCHANGED vars
  BY <1>1 DEF vars, MainTasks, MainWorkers
<1>2. CASE Start
  <2>1. CASE StartRun
    <3>1. Cardinality(MainWorkers)' \leq Cardinality(MainWorkers)
      <4>1. MainWorkers' = {} \/ MainWorkers' = MainWorkers
        BY <2>1 DEF StartRun, MainWorkers, InServerMain
      <4> QED BY <4>1, FewerMains
    <3>2. Cardinality(MainTasks)' = Cardinality(MainTasks)
      BY <2>1 DEF StartRun, MainTasks
    <3> QED BY <1>0, <2>1, <3>1, <3>2 DEF StartRun
  <2>2. CASE StartAccept
    <3>1. Cardinality(MainTasks)' = Cardinality(MainTasks)
      BY <2>2, AddedMains DEF StartAccept
    <3>2. Cardinality(MainWorkers)' = Cardinality(MainWorkers)
      BY <2>2 DEF StartAccept, MainWorkers
    <3> QED BY <1>0, <2>2, <3>1, <3>2 DEF StartAccept
  <2>3. CASE StartMain
    <3>1. Cardinality(MainTasks)' \leq Cardinality(MainTasks) + 1
      BY <1>0, <2>3, AddedMains DEF StartMain
    <3>2. Cardinality(MainWorkers)' = Cardinality(MainWorkers)
      BY <2>3 DEF StartMain, MainWorkers
    <3> QED BY <1>0, <2>3, <3>1, <3>2 DEF StartMain
  <2>4. CASE StartBusiness
    BY <1>0, <2>4 DEF StartBusiness, poolVars, MainTasks, MainWorkers
  <2> QED BY <1>2, <2>1, <2>2, <2>3, <2>4 DEF Start
<1>3. CASE Close \/ CloseSteps
  <2>1. Cardinality(MainWorkers)' \leq Cardinality(MainWorkers)
    <3>1. MainWorkers' = {} \/ MainWorkers' = MainWorkers
      <4>1. CASE CloseTaskStop
        BY <4>1 DEF CloseTaskStop, MainWorkers, InServerMain
      <4>2. CASE UNCHANGED worker
        BY <4>2 DEF MainWorkers
      <4> QED BY <1>3, <4>1, <4>2 DEF Close, CloseSteps, ClosePost, CloseTaskStatus, CloseTaskQueue,
                 CloseSocket, CloseHandle, poolVars
    <3> QED BY <3>1, FewerMains
  <2>2. Cardinality(MainTasks)' \leq Cardinality(MainTasks)
    <3>1. MainTasks' = {} \/ MainTasks' = MainTasks
      <4>1. CASE CloseTaskQueue
        BY <4>1 DEF CloseTaskQueue, MainTasks, Where
      <4>2. CASE UNCHANGED tasks
        BY <4>2 DEF MainTasks
      <4> QED BY <1>3, <4>1, <4>2 DEF Close, CloseSteps, ClosePost, CloseTaskStatus, CloseTaskStop,
                 CloseSocket, CloseHandle, poolVars
    <3>2. Cardinality({}) = 0
      BY FS_EmptySet
    <3> QED BY <1>0, <3>1, <3>2
  <2>3. owner' \notin {"new", "accept", "main"} /\ UNCHANGED index
    BY <1>3 DEF Close, CloseSteps, ClosePost, CloseTaskStatus, CloseTaskQueue, CloseTaskStop,
                CloseSocket, CloseHandle
  <2>4. MainBound \leq nCpuCount - 1
    BY <1>0
  <2> QED BY <1>0, <2>1, <2>2, <2>3, <2>4
<1>4. ASSUME NEW w \in Workers, Worker(w)
      PROVE  MainInv'
  <2>1. UNCHANGED << owner, index >>
    BY <1>4, WorkerMoves
  <2>2. ASSUME Cardinality(MainTasks)' + Cardinality(MainWorkers)'
                   \leq Cardinality(MainTasks) + Cardinality(MainWorkers)
        PROVE  MainInv'
    BY <1>0, <2>1, <2>2
  <2> USE DEF InServerMain
  <2>3. CASE TakeTask(w)
    <3>1. /\ tasks \in Seq({"Accept", "ServerMain"}) /\ tasks # << >> /\ tasks' = Tail(tasks)
          /\ Head(tasks) \in {"Accept", "ServerMain"}
      BY <2>3, TailQueue DEF TakeTask, TypeOK
    <3>2. CASE Head(tasks) = "Accept"
      <4>1. Cardinality(MainTasks)' = Cardinality(MainTasks)
        BY <3>1, <3>2, TailCount DEF MainTasks
      <4>2. Cardinality(MainWorkers)' = Cardinality(MainWorkers)
        BY <2>3, <3>2, GoesMains DEF TakeTask
      <4> QED BY <1>0, <2>2, <4>1, <4>2
    <3>3. CASE Head(tasks) = "ServerMain"
      <4>1. Cardinality(MainTasks)' = Cardinality(MainTasks) - 1
        BY <3>1, <3>3, TailCount DEF MainTasks
      <4>2. Cardinality(MainWorkers)' = Cardinality(MainWorkers) + 1
        BY <2>3, <3>3, GoesMains DEF TakeTask
      <4> QED BY <1>0, <2>2, <4>1, <4>2
    <3> QED BY <3>1, <3>2, <3>3
  <2>4. CASE NextServerMain(w)
    <3>1. Cardinality(MainTasks)' \in {Cardinality(MainTasks), Cardinality(MainTasks) + 1}
      BY <2>4, AddedMains DEF NextServerMain
    <3>2. Cardinality(MainWorkers)' = Cardinality(MainWorkers) - 1
      BY <2>4, GoesMains DEF NextServerMain
    <3> QED BY <1>0, <2>2, <3>1, <3>2
  <2>5. CASE NewAccept(w)
    <3>1. Cardinality(MainTasks)' = Cardinality(MainTasks)
      BY <2>5, AddedMains DEF NewAccept
    <3>2. Cardinality(MainWorkers)' = Cardinality(MainWorkers)
      BY <2>5, GoesMains DEF NewAccept
    <3> QED BY <1>0, <2>2, <3>1, <3>2
  <2>6. ASSUME UNCHANGED tasks, NEW from, NEW to, Goes(w, from, to),
               to \in InServerMain => from \in InServerMain
        PROVE  MainInv'
    <3>1. Cardinality(MainTasks)' = Cardinality(MainTasks)
      BY <2>6 DEF MainTasks
    <3>2. Cardinality(MainWorkers)' \leq Cardinality(MainWorkers)
      <4> HIDE DEF InServerMain
      <4> QED BY <1>0, <2>6, GoesMains
    <3> QED BY <1>0, <2>2, <3>1, <3>2
  <2>7. CASE Accept(w) \/ GetFails(w) \/ Register(w) \/ TestServing(w)
    BY <2>6, <2>7 DEF Accept, GetFails, Register, TestServing
  <2>8. CASE FirstRecv(w) \/ Rearm(w)
    BY <2>6, <2>8 DEF FirstRecv, Rearm
  <2>9. CASE GetCompletion(w)
    BY <2>6, <2>9 DEF GetCompletion
  <2>10. CASE ClientConnected(w) \/ ClientRecvData(w) \/ ClientSendDone(w)
    <3>1. ASSUME NEW from, NEW news, Tells(w, from, news), from \in InServerMain
          PROVE  MainInv'
      BY <2>6, <3>1 DEF Tells
    <3> QED BY <2>10, <3>1 DEF ClientConnected, ClientRecvData, ClientSendDone
  <2> HIDE DEF MainInv, Mains, MainBound
  <2> QED BY <1>4, <2>3, <2>4, <2>5, <2>7, <2>8, <2>9, <2>10 DEF Worker, ServerMain
<1>5. ASSUME NEW c \in Clients, Business(c) \/ Kernel(c)
      PROVE  MainInv'
  <2>1. UNCHANGED << tasks, worker, owner, index >>
    BY <1>5, ClientLeavesWorkers
  <2> QED BY <2>1 DEF MainTasks, MainWorkers
<1> HIDE DEF MainInv, Mains, MainBound
<1> QED BY <1>1, <1>2, <1>3, <1>4, <1>5 DEF Next

-----------------------------------------------------------------------------
(* Everything is delivered, once and nearly in order.                      *)

LEMMA InitLate == Init => ReorderBounded
BY DEF Init, ReorderBounded, ToldOf

(* The moment worker w tells the business layer of k: what came before k   *)
(* and was not told yet is in the hands of the other ServerMains.          *)
LEMMA LateWhenTold ==
    ASSUME TypeOK, HandInv, KernelInv, NewsInv, MainInv, WorkersGoneFirst,
           NEW w \in Workers, worker[w] \in InServerMain, ~Crashed,
           NEW c \in Clients, NEW k \in Chunks, Brings(hand[w], c, k)
    PROVE  Cardinality((0 .. k - 1) \ ToldOf(c)) \leq nCpuCount - 2
<1> DEFINE M == (0 .. k - 1) \ ToldOf(c)
           W == MainWorkers \ {w}
           h == [v \in Workers |-> IF hand[v].type = "accept" THEN 0 ELSE hand[v].packet]
<1>1. ~Ended /\ Live
  BY DEF WorkersGoneFirst, Ended, Live, InServerMain
<1>2. InOrder(c) /\ OnlyArrived(c) /\ NothingLost(c) /\ Chunks \subseteq Nat
  BY NewsTypes DEF NewsInv
<1>3. k \in Came(c) /\ Held(c, k)
  BY <1>2 DEF Held, OnlyArrived
<1>4. ASSUME NEW l \in M
      PROVE  \E v \in W : h[v] = l
  <2>1. l \in Came(c) /\ l \in Chunks /\ l < k
    <3>1. received[c] \in Nat /\ k \in 0 .. received[c] /\ Came(c) = 0 .. received[c]
      BY <1>3 DEF Came, TypeOK
    <3>2. l \in 0 .. k - 1 /\ k \in Nat
      BY <1>2
    <3>3. l \in Came(c) /\ l < k
      BY <3>1, <3>2
    <3> QED BY <3>3, NewsTypes
  <2>2. Waits(c, l) \/ Held(c, l)
    BY <1>1, <1>2, <2>1 DEF NothingLost
  <2>3. ~Waits(c, l)
    BY <1>2, <1>3, <2>1 DEF InOrder
  <2>4. PICK v \in Workers : Brings(hand[v], c, l)
    BY <2>2, <2>3 DEF Held
  <2>5. v # w
    BY <1>2, <2>1, <2>4, BringsOne
  <2>6. hand[v] # Quit
    BY <2>4, QuitBringsNothing
  <2>7. worker[v] \in Handlers
    BY <1>1, <2>6 DEF HandInv, HandFits
  <2>8. v \in W
    BY <2>5, <2>7 DEF MainWorkers, Handlers, InServerMain
  <2>9. h[v] = l
    BY <2>4 DEF Brings
  <2> QED BY <2>8, <2>9
<1>5. /\ Cardinality(W) = Cardinality(MainWorkers) - 1 /\ IsFiniteSet(W)
      /\ Cardinality(MainWorkers) \in Nat /\ Cardinality(MainTasks) \in Nat
      /\ index \in Nat /\ nCpuCount \in Nat \ {0}
  BY MainTypes, FS_RemoveElement DEF MainWorkers
<1>6. Cardinality(MainWorkers) \leq nCpuCount - 1
  BY <1>5 DEF MainInv, Mains, MainBound
<1>7. Cardinality(M) \in Nat /\ Cardinality(M) \leq Cardinality(W)
  <2> HIDE DEF M, W, h
  <2> QED BY <1>4, <1>5, HeldByFew
<1> HIDE DEF M, W
<1>8. Cardinality(M) \leq nCpuCount - 2
  BY <1>5, <1>6, <1>7
<1> QED BY <1>8 DEF M

LEMMA NextLate ==
    TypeOK /\ HandInv /\ KernelInv /\ NewsInv /\ MainInv /\ WorkersGoneFirst /\ ReorderBounded
        /\ [Next]_vars => ReorderBounded'
<1> SUFFICES ASSUME TypeOK, HandInv, KernelInv, NewsInv, MainInv, WorkersGoneFirst, ReorderBounded,
                    [Next]_vars,
                    NEW c \in Clients, NEW k \in ToldOf(c)'
             PROVE  Cardinality((0 .. k - 1) \ ToldOf(c)') \leq nCpuCount - 2
  BY DEF ReorderBounded
<1>1. ASSUME NEW n \in Int, ToldOf(c) \subseteq ToldOf(c)',
             Cardinality((0 .. n - 1) \ ToldOf(c)) \leq nCpuCount - 2
      PROVE  Cardinality((0 .. n - 1) \ ToldOf(c)') \leq nCpuCount - 2
  <2> DEFINE A == (0 .. n - 1) \ ToldOf(c)
             B == (0 .. n - 1) \ ToldOf(c)'
  <2>1. IsFiniteSet(0 .. n - 1)
    BY FS_Interval
  <2>2. IsFiniteSet(A)
    BY <2>1, FS_Difference
  <2>3. B \in SUBSET A
    BY <1>1
  <2> HIDE DEF A, B
  <2>4. Cardinality(B) \leq Cardinality(A) /\ Cardinality(A) \in Nat /\ Cardinality(B) \in Nat
    BY <2>2, <2>3, FS_Subset, FS_CardinalityType
  <2>5. Cardinality(A) \leq nCpuCount - 2 /\ nCpuCount \in Nat
    BY <1>1, CpuCount DEF A
  <2>6. Cardinality(B) \leq nCpuCount - 2
    BY <2>4, <2>5
  <2> QED BY <2>6 DEF B
<1>2. CASE told' = told
  BY <1>2 DEF ReorderBounded, ToldOf
<1>3. ASSUME NEW w \in Workers, Passes(w), NEW d \in Clients, NEW l \in Chunks, TellsOf(w, d, l)
      PROVE  Cardinality((0 .. k - 1) \ ToldOf(c)') \leq nCpuCount - 2
  <2>1. CASE c # d
    <3>1. told'[c] = told[c]
      BY <1>3, <2>1 DEF TellsOf, TypeOK
    <3> QED BY <3>1 DEF ReorderBounded, ToldOf
  <2>2. CASE c = d
    <3>1. told'[c] = Append(told[c], l) /\ Brings(hand[w], c, l)
      BY <1>3, <2>2 DEF TellsOf, TypeOK
    <3>2. ToldOf(c)' = Packets(told'[c]) /\ ToldOf(c) = Packets(told[c])
      BY DEF ToldOf, Packets
    <3>3. ToldOf(c)' = ToldOf(c) \cup {l}
      BY <3>1, <3>2, NewsTypes, AppendPackets
    <3>4. l \in Int /\ ToldOf(c) \subseteq Int
      BY NewsTypes
    <3>5. CASE k \in ToldOf(c)
      <4>1. Cardinality((0 .. k - 1) \ ToldOf(c)) \leq nCpuCount - 2
        BY <3>5 DEF ReorderBounded
      <4> QED BY <1>1, <3>3, <3>4, <3>5, <4>1
    <3>6. CASE k = l
      <4>1. worker[w] \in InServerMain /\ ~Crashed
        BY <1>3 DEF Passes
      <4>2. Cardinality((0 .. l - 1) \ ToldOf(c)) \leq nCpuCount - 2
        BY <3>1, <4>1, LateWhenTold
      <4> QED BY <1>1, <3>3, <3>4, <3>6, <4>2
    <3> QED BY <3>3, <3>5, <3>6
  <2> QED BY <2>1, <2>2
<1>4. NewsStep
  BY NewsSteps
<1> QED BY <1>2, <1>3, <1>4 DEF NewsStep, Quiet, Drops, Posts, Takes, Passes, TellsNothing

LEMMA NewsToldOnce == TypeOK /\ HandInv /\ KernelInv /\ NewsInv => ToldOnce
<1> SUFFICES ASSUME TypeOK, HandInv, KernelInv, NewsInv, NEW c \in Clients
             PROVE  /\ Len(told[c]) = Cardinality(ToldOf(c))
                    /\ (InHand(c) \cup InPort(c)) \cap ToldOf(c) \subseteq {0}
                    /\ Serving => 1 .. received[c] \subseteq ToldOf(c) \cup InHand(c) \cup InPort(c)
  BY DEF ToldOnce
<1>1. InOrder(c) /\ HeldOnce(c) /\ Distinct(told[c]) /\ NothingLost(c)
  BY DEF NewsInv
<1>2. /\ told[c] \in Seq(Chunks) /\ ToldOf(c) = Packets(told[c]) /\ ToldOf(c) \subseteq Chunks
      /\ Chunks \subseteq Nat /\ port \in Seq(Completion) /\ \A w \in Workers : hand[w] \in Completion
  BY NewsTypes
<1>3. DOMAIN port = 1 .. Len(port) /\ \A i \in 1 .. Len(port) : port[i] \in Completion
  BY <1>2, LenProperties
<1>4. Len(told[c]) = Cardinality(ToldOf(c))
  BY <1>1, <1>2, DistinctCount
<1>5. ASSUME NEW x \in InHand(c), x # 0
      PROVE  x \notin ToldOf(c)
  <2>1. PICK w \in Workers : /\ worker[w] \in {"rearm", "data"} /\ hand[w].client = c
                             /\ hand[w].packet = x
    BY DEF InHand
  <2>2. Brings(hand[w], c, x)
    BY <1>5, <2>1 DEF HandInv, HandFits, Brings
  <2> QED BY <1>1, <1>2, <2>2 DEF HeldOnce, Held
<1>6. ASSUME NEW x \in InPort(c), x # 0
      PROVE  x \notin ToldOf(c)
  <2>1. PICK i \in 1 .. Len(port) : port[i].type = "recv" /\ port[i].client = c /\ port[i].packet = x
    BY <1>3 DEF InPort
  <2>2. Brings(port[i], c, x)
    <3>1. port[i].ok \in BOOLEAN /\ PortFits(i)
      BY <1>3, <2>1 DEF KernelInv, Completion, Quit, Completed
    <3> QED BY <1>6, <2>1, <3>1 DEF Brings, PortFits
  <2>3. ASSUME x \in ToldOf(c)
        PROVE  FALSE
    <3>1. x \in Chunks /\ x \in Nat /\ Waits(c, x)
      BY <1>2, <2>2, <2>3 DEF Waits
    <3>2. x < x
      BY <1>1, <2>3, <3>1 DEF InOrder
    <3> QED BY <3>1, <3>2
  <2> QED BY <2>3
<1>7. ASSUME Serving, NEW k \in 1 .. received[c]
      PROVE  k \in ToldOf(c) \cup InHand(c) \cup InPort(c)
  <2>1. k \in Came(c) /\ k \in Chunks /\ k # 0
    <3>1. received[c] \in Nat /\ received[c] \leq MaxPackets /\ received[c] # 0
      BY ServerAssumption DEF TypeOK
    <3>2. conn[c] \in {"open", "eof", "reset"}
      BY <3>1 DEF KernelInv
    <3> QED BY <3>1, <3>2, ServerAssumption DEF Came, Chunks
  <2>2. ~Ended /\ Live
    BY <1>7 DEF Serving, Live, Ended
  <2>3. CASE Waits(c, k)
    <3>1. PICK i \in 1 .. Len(port) : Brings(port[i], c, k)
      BY <2>3 DEF Waits
    <3>2. i \in DOMAIN port /\ port[i].type = "recv" /\ port[i].client = c /\ port[i].packet = k
      BY <1>3, <2>1, <3>1 DEF Brings
    <3> QED BY <3>2 DEF InPort
  <2>4. CASE Held(c, k)
    <3>1. PICK w \in Workers : Brings(hand[w], c, k)
      BY <2>4 DEF Held
    <3>2. hand[w].type = "recv" /\ hand[w].client = c /\ hand[w].packet = k /\ hand[w] # Quit
      BY <2>1, <3>1, QuitBringsNothing DEF Brings
    <3>3. worker[w] \in {"rearm", "data"}
      BY <2>2, <3>2 DEF HandInv, HandFits, Handlers
    <3> QED BY <3>2, <3>3 DEF InHand
  <2> QED BY <1>1, <2>1, <2>2, <2>3, <2>4 DEF NothingLost
<1> QED BY <1>4, <1>5, <1>6, <1>7

(* The business layer is told of each connection and of each chunk at most *)
(* once, nothing is lost while the server runs, and never more than        *)
(* nCpuCount - 2 chunks of a client are overtaken: for any number of       *)
(* workers, clients and chunks, in whatever order the workers go on.       *)
THEOREM DeliversOnce == Spec => []DeliveredOnce
<1> DEFINE Inv == /\ TypeOK /\ WorkersGoneFirst /\ HandInv /\ KernelInv /\ NewsInv
                  /\ MainInv /\ ReorderBounded
<1>1. Init => Inv
  BY InitType, InitGone, InitHand, InitKernel, InitNews, InitMains, InitLate
<1>2. Inv /\ [Next]_vars => Inv'
  BY NextType, NextGone, NextHand, NextKernel, NextNews, NextMains, NextLate
<1>3. Inv => DeliveredOnce
  BY NewsToldOnce DEF DeliveredOnce
<1> QED BY <1>1, <1>2, <1>3, PTL DEF Spec

-----------------------------------------------------------------------------
(* One WSARecv at a time.                                                  *)

(* The completions whose handler will call Recv of c.                      *)
Rearms(c) == {e \in Completion : e.type \in {"accept", "recv"} /\ e.ok /\ e.client = c}

(* The three places where the right to receive from c can be.              *)
OneOf(c) ==
    /\ recvs[c] \leq 1 /\ AtMostOne(RecvWorkers(c)) /\ AtMostOne(RecvsDone(c))
    /\ recvs[c] > 0 => RecvWorkers(c) = {} /\ RecvsDone(c) = {}
    /\ RecvWorkers(c) # {} => RecvsDone(c) = {}

NoRecv(c) == recvs[c] = 0 /\ RecvWorkers(c) = {} /\ RecvsDone(c) = {}

RecvInvOf(c) ==
    /\ OneOf(c)
    /\ conn[c] \notin {"open", "eof", "reset"} => NoRecv(c)
    /\ ~Ended /\ conn[c] \in {"open", "eof"} => ~NoRecv(c)

RecvInv == \A c \in Clients : RecvInvOf(c)

LEMMA InitRecv == Init => RecvInv
BY DEF Init, RecvInv, RecvInvOf, OneOf, NoRecv, AtMostOne, RecvWorkers, RecvsDone

LEMMA RecvsWhere ==
    ASSUME TypeOK, NEW c
    PROVE  RecvsDone(c) = Where(port, Rearms(c))
<1>1. \A i \in 1 .. Len(port) : port[i] \in Completion
  BY LenProperties DEF TypeOK
<1> QED BY <1>1 DEF RecvsDone, Where, Rearms

LEMMA AddedRecvs ==
    ASSUME TypeOK, TypeOK', NEW c, NEW e \in Completion, port' = Append(port, e)
    PROVE  /\ e \notin Rearms(c) => RecvsDone(c)' = RecvsDone(c)
           /\ e \in Rearms(c) => RecvsDone(c)' # {}
           /\ e \in Rearms(c) /\ RecvsDone(c) = {} => AtMostOne(RecvsDone(c)')
<1>1. port \in Seq(Completion) /\ RecvsDone(c) = Where(port, Rearms(c))
  BY RecvsWhere DEF TypeOK
<1>2. \A i \in 1 .. Len(port') : port'[i] \in Completion
  BY LenProperties DEF TypeOK
<1>3. RecvsDone(c)' = Where(Append(port, e), Rearms(c))
  BY <1>2 DEF RecvsDone, Where, Rearms
<1> QED BY <1>1, <1>3, AppendWhere DEF AtMostOne, AtMostOneOf

LEMMA TakenRecvs ==
    ASSUME TypeOK, TypeOK', NEW c, port # << >>, port' = Tail(port), AtMostOne(RecvsDone(c))
    PROVE  /\ AtMostOne(RecvsDone(c)')
           /\ Head(port) \in Rearms(c) => RecvsDone(c) # {} /\ RecvsDone(c)' = {}
           /\ Head(port) \notin Rearms(c) => (RecvsDone(c)' = {} <=> RecvsDone(c) = {})
<1>1. port \in Seq(Completion) /\ RecvsDone(c) = Where(port, Rearms(c))
  BY RecvsWhere DEF TypeOK
<1>2. \A i \in 1 .. Len(port') : port'[i] \in Completion
  BY LenProperties DEF TypeOK
<1>3. RecvsDone(c)' = Where(Tail(port), Rearms(c))
  BY <1>2 DEF RecvsDone, Where, Rearms
<1> QED BY <1>1, <1>3, TailWhere DEF AtMostOne, AtMostOneOf

(* A step that changes none of it.                                         *)
SameRecvs(c) ==
    /\ recvs'[c] = recvs[c] /\ RecvWorkers(c)' = RecvWorkers(c) /\ RecvsDone(c)' = RecvsDone(c)
    /\ Ended => Ended'
    /\ conn'[c] \in {"open", "eof"} => conn[c] \in {"open", "eof"}
    /\ conn[c] \in {"open", "eof", "reset"} => conn'[c] \in {"open", "eof", "reset"}

LEMMA StaysRecvs ==
    ASSUME NEW c, RecvInvOf(c), SameRecvs(c)
    PROVE  RecvInvOf(c)'
BY DEF RecvInvOf, OneOf, NoRecv, SameRecvs

LEMMA RecvOwner ==
    ASSUME TypeOK, TypeOK', HandInv, RecvInv, Start \/ Close \/ CloseSteps
    PROVE  RecvInv'
<1> SUFFICES ASSUME NEW c \in Clients PROVE RecvInvOf(c)'
  BY DEF RecvInv
<1>1. RecvInvOf(c)
  BY DEF RecvInv
<1>2. CASE StartRun
  <2>1. owner = "new" /\ UNCHANGED << recvs, port, conn, hand >> /\ ~Ended
    BY <1>2 DEF StartRun, kernelVars, Ended
  <2>2. RecvWorkers(c)' = {} /\ RecvWorkers(c) = {} /\ RecvsDone(c)' = RecvsDone(c)
    BY <1>2, <2>1 DEF StartRun, RecvWorkers, RecvsDone, HandInv, HandFits
  <2> QED BY <1>1, <2>1, <2>2, StaysRecvs DEF SameRecvs
<1>3. CASE StartAccept \/ StartMain \/ StartBusiness \/ Close \/ CloseTaskStatus \/ CloseTaskQueue
  <2>1. UNCHANGED << recvs, port, conn, hand, worker >> /\ ~Ended
    BY <1>3 DEF StartAccept, StartMain, StartBusiness, Close, CloseTaskStatus, CloseTaskQueue,
                kernelVars, poolVars, Ended
  <2> QED BY <1>1, <2>1, StaysRecvs DEF SameRecvs, RecvWorkers, RecvsDone
<1>4. CASE ClosePost
  <2>1. UNCHANGED << recvs, conn, hand, worker >> /\ port' = Append(port, Quit) /\ ~Ended
    BY <1>4 DEF ClosePost, kernelVars, poolVars, Ended
  <2>2. Quit \notin Rearms(c)
    BY DEF Rearms, Quit, Completed
  <2>3. RecvsDone(c)' = RecvsDone(c)
    BY <2>1, <2>2, AddedRecvs, CompletionTypes
  <2> QED BY <1>1, <2>1, <2>3, StaysRecvs DEF SameRecvs, RecvWorkers
<1>5. CASE CloseTaskStop
  <2>1. UNCHANGED << recvs, port, conn >> /\ Ended'
    BY <1>5 DEF CloseTaskStop, kernelVars, Ended
  <2>2. RecvWorkers(c)' = {} /\ RecvsDone(c)' = RecvsDone(c)
    BY <1>5, <2>1 DEF CloseTaskStop, RecvWorkers, RecvsDone
  <2> QED BY <1>1, <2>1, <2>2 DEF RecvInvOf, OneOf, NoRecv, AtMostOne
<1>6. CASE CloseSocket
  <2>1. UNCHANGED << recvs, port, hand, worker >> /\ Ended' /\ 
        (conn'[c] = conn[c] \/ {conn[c], conn'[c]} \subseteq {"armed", "refused"})
    BY <1>6 DEF CloseSocket, poolVars, Ended, TypeOK
  <2> QED BY <1>1, <2>1, StaysRecvs DEF SameRecvs, RecvWorkers, RecvsDone
<1>7. CASE CloseHandle
  <2>1. UNCHANGED << recvs, conn, hand, worker >> /\ port' = << >> /\ Ended'
    BY <1>7 DEF CloseHandle, kernelVars, poolVars, Ended
  <2>2. RecvWorkers(c)' = RecvWorkers(c) /\ RecvsDone(c)' = {}
    BY <2>1 DEF RecvWorkers, RecvsDone
  <2> QED BY <1>1, <2>1, <2>2 DEF RecvInvOf, OneOf, NoRecv, AtMostOne
<1> QED BY <1>2, <1>3, <1>4, <1>5, <1>6, <1>7 DEF Start, CloseSteps

LEMMA RecvWorker ==
    ASSUME TypeOK, TypeOK', HandInv, HandInv', RecvInv, NEW w \in Workers, Worker(w)
    PROVE  RecvInv'
<1> SUFFICES ASSUME NEW c \in Clients PROVE RecvInvOf(c)'
  BY DEF RecvInv
<1> DEFINE P == {"newaccept", "register", "firstrecv", "rearm"}
<1>1. RecvInvOf(c) /\ (Ended' <=> Ended)
  BY WorkerMoves DEF RecvInv, Ended
<1>2. \A v \in Workers \ {w} : worker'[v] = worker[v] /\ hand'[v] = hand[v]
  BY HandWorker
<1>3. RecvWorkers(c)' \ {w} = RecvWorkers(c) \ {w}
  BY <1>2 DEF RecvWorkers
<1>4. ASSUME UNCHANGED << recvs, port, hand >>, worker'[w] \in P <=> worker[w] \in P,
             conn'[c] \in {"open", "eof"} <=> conn[c] \in {"open", "eof"},
             conn[c] \in {"open", "eof", "reset"} <=> conn'[c] \in {"open", "eof", "reset"}
      PROVE  RecvInvOf(c)'
  <2>1. RecvWorkers(c)' = RecvWorkers(c) /\ RecvsDone(c)' = RecvsDone(c)
    BY <1>2, <1>4 DEF RecvWorkers, RecvsDone
  <2> QED BY <1>1, <1>4, <2>1, StaysRecvs DEF SameRecvs
<1>5. ASSUME NEW from, NEW to, Goes(w, from, to)
      PROVE  worker[w] = from /\ worker'[w] = to
  BY <1>5 DEF Goes, TypeOK
<1>6. CASE TakeTask(w) \/ GetFails(w) \/ NewAccept(w) \/ Register(w) \/ TestServing(w) \/ NextServerMain(w)
  <2>1. UNCHANGED << recvs, port, hand, conn >> /\ (worker'[w] \in P <=> worker[w] \in P)
    BY <1>5, <1>6 DEF TakeTask, GetFails, NewAccept, Register, TestServing, NextServerMain, kernelVars
  <2> QED BY <1>4, <2>1
<1>7. CASE Accept(w)
  <2>1. UNCHANGED << recvs, port, hand >> /\ (worker'[w] \in P <=> worker[w] \in P)
    BY <1>5, <1>7 DEF Accept
  <2>2. conn'[c] = conn[c] \/ {conn[c], conn'[c]} \subseteq {"new", "refused", "armed"}
    BY <1>7 DEF Accept, TypeOK
  <2> QED BY <1>4, <2>1, <2>2
<1>8. CASE FirstRecv(w) \/ Rearm(w)
  <2>1. /\ worker[w] \in {"firstrecv", "rearm"} /\ worker'[w] \in {"connected", "data"}
        /\ Recv(hand[w].client) /\ UNCHANGED << port, hand >>
    <3>1. CASE FirstRecv(w)
      BY <1>5, <3>1 DEF FirstRecv
    <3>2. CASE Rearm(w)
      BY <1>5, <3>2 DEF Rearm
    <3> QED BY <1>8, <3>1, <3>2
  <2>2. RecvsDone(c)' = RecvsDone(c) /\ conn' = conn
    BY <2>1 DEF Recv, RecvsDone
  <2>3. CASE hand[w].client = c
    <3>1. w \in RecvWorkers(c) /\ RecvWorkers(c)' = {}
      <4>1. w \in RecvWorkers(c) /\ w \notin RecvWorkers(c)'
        BY <2>1, <2>3 DEF RecvWorkers
      <4> QED BY <1>1, <1>3, <4>1 DEF RecvInvOf, OneOf, AtMostOne
    <3>2. recvs[c] = 0 /\ recvs'[c] = IF conn[c] = "reset" THEN 0 ELSE 1
      <4>1. recvs[c] \in Nat /\ recvs[c] = 0
        BY <1>1, <3>1 DEF RecvInvOf, OneOf, TypeOK
      <4> QED BY <2>1, <2>3, <4>1 DEF Recv, TypeOK
    <3> QED BY <1>1, <2>2, <3>1, <3>2 DEF RecvInvOf, OneOf, NoRecv, AtMostOne
  <2>4. CASE hand[w].client # c
    <3>1. RecvWorkers(c)' = RecvWorkers(c)
      <4>1. w \notin RecvWorkers(c) /\ w \notin RecvWorkers(c)'
        BY <2>1, <2>4 DEF RecvWorkers
      <4> QED BY <1>3, <4>1
    <3>2. recvs'[c] = recvs[c]
      BY <2>1, <2>4 DEF Recv, TypeOK
    <3> QED BY <1>1, <2>2, <3>1, <3>2, StaysRecvs DEF SameRecvs
  <2> QED BY <2>3, <2>4
<1>9. CASE GetCompletion(w)
  <2> DEFINE e == Head(port)
  <2>1. /\ UNCHANGED << recvs, conn >> /\ port # << >> /\ port' = Tail(port)
        /\ worker[w] = "get" /\ worker'[w] = Serves(e)
        /\ hand'[w] = IF e.ok THEN e ELSE Quit
    BY <1>5, <1>9 DEF GetCompletion, kernelVars, TypeOK
  <2>2. e \in Completion
    BY <2>1, TailQueue DEF TypeOK
  <2>3. w \notin RecvWorkers(c)
    BY <2>1 DEF RecvWorkers
  <2>4. w \in RecvWorkers(c)' <=> e \in Rearms(c)
    <3>1. e.type \in {"accept", "recv", "send", "quit"} /\ (e.type = "quit" => e = Quit)
      BY <2>2 DEF Completion, Quit, Completed
    <3> HIDE DEF e
    <3> QED BY <2>1, <2>2, <3>1 DEF RecvWorkers, Rearms, Serves, Quit, Completed
  <2>5. /\ AtMostOne(RecvsDone(c)')
        /\ e \in Rearms(c) => RecvsDone(c) # {} /\ RecvsDone(c)' = {}
        /\ e \notin Rearms(c) => (RecvsDone(c)' = {} <=> RecvsDone(c) = {})
    BY <1>1, <2>1, TakenRecvs DEF RecvInvOf, OneOf
  <2>6. CASE e \in Rearms(c)
    <3>1. RecvWorkers(c)' = {w}
      <4>1. RecvWorkers(c) = {}
        BY <1>1, <2>5, <2>6 DEF RecvInvOf, OneOf
      <4> QED BY <1>3, <2>4, <2>6, <4>1
    <3> QED BY <1>1, <2>1, <2>5, <2>6, <3>1 DEF RecvInvOf, OneOf, NoRecv, AtMostOne
  <2>7. CASE e \notin Rearms(c)
    <3>1. RecvWorkers(c)' = RecvWorkers(c)
      BY <1>3, <2>3, <2>4, <2>7
    <3> QED BY <1>1, <2>1, <2>5, <2>7, <3>1 DEF RecvInvOf, OneOf, NoRecv
  <2> QED BY <2>6, <2>7
<1>10. CASE ClientConnected(w) \/ ClientRecvData(w) \/ ClientSendDone(w)
  <2>1. ASSUME NEW from, NEW news, Tells(w, from, news), from \notin P
        PROVE  /\ UNCHANGED << recvs, port, conn >>
               /\ worker[w] \notin P /\ worker'[w] \notin P
    <3>1. worker[w] = from /\ worker'[w] = IF m_business THEN "again" ELSE "crashed"
      BY <1>5, <2>1 DEF Tells
    <3> QED BY <2>1, <3>1 DEF Tells, kernelVars
  <2>2. UNCHANGED << recvs, port, conn >> /\ worker[w] \notin P /\ worker'[w] \notin P
    BY <1>10, <2>1 DEF ClientConnected, ClientRecvData, ClientSendDone
  <2>3. RecvWorkers(c)' = RecvWorkers(c) /\ RecvsDone(c)' = RecvsDone(c)
    BY <1>3, <2>2 DEF RecvWorkers, RecvsDone
  <2> QED BY <1>1, <2>2, <2>3, StaysRecvs DEF SameRecvs
<1> QED BY <1>6, <1>7, <1>8, <1>9, <1>10 DEF Worker, ServerMain

LEMMA RecvClient ==
    ASSUME TypeOK, TypeOK', RecvInv, NEW d \in Clients, Business(d) \/ Kernel(d)
    PROVE  RecvInv'
<1> SUFFICES ASSUME NEW c \in Clients PROVE RecvInvOf(c)'
  BY DEF RecvInv
<1>1. RecvInvOf(c) /\ UNCHANGED << worker, hand, owner >>
  BY ClientLeavesWorkers DEF RecvInv
<1>2. RecvWorkers(c)' = RecvWorkers(c) /\ (Ended' <=> Ended)
  BY <1>1 DEF RecvWorkers, Ended
<1>3. CASE Send(d) \/ DelClient(d) \/ PeerEnds(d)
  <2>1. UNCHANGED << port, recvs >>
    BY <1>3 DEF Send, DelClient, PeerEnds, kernelVars
  <2>2. /\ conn'[c] \in {"open", "eof"} => conn[c] \in {"open", "eof"}
        /\ conn[c] \in {"open", "eof", "reset"} => conn'[c] \in {"open", "eof", "reset"}
    BY <1>3 DEF Send, DelClient, PeerEnds, kernelVars, TypeOK
  <2> QED BY <1>1, <1>2, <2>1, <2>2, StaysRecvs DEF SameRecvs, RecvsDone
<1>4. ASSUME NEW e \in Completion, Completes(e)
      PROVE  /\ e \notin Rearms(c) => RecvsDone(c)' = RecvsDone(c)
             /\ e \in Rearms(c) => RecvsDone(c)' # {}
             /\ e \in Rearms(c) /\ RecvsDone(c) = {} => AtMostOne(RecvsDone(c)')
  BY <1>4, AddedRecvs DEF Completes
<1>5. CASE PeerConnects(d)
  <2> DEFINE e == Completed("accept", d, 0, TRUE)
  <2>1. e \in Completion /\ (e \in Rearms(c) <=> c = d) /\ Completes(e)
    BY <1>5, CompletionTypes DEF PeerConnects, Rearms, Completed
  <2>2. recvs' = recvs /\ (c # d => conn'[c] = conn[c]) /\ conn[d] = "armed" /\ conn'[d] = "open"
    BY <1>5 DEF PeerConnects, TypeOK
  <2> HIDE DEF e
  <2>3. CASE c = d
    BY <1>1, <1>2, <1>4, <2>1, <2>2, <2>3 DEF RecvInvOf, OneOf, NoRecv, AtMostOne
  <2>4. CASE c # d
    BY <1>1, <1>2, <1>4, <2>1, <2>2, <2>4, StaysRecvs DEF SameRecvs
  <2> QED BY <2>3, <2>4
<1>6. CASE AcceptFails(d)
  <2> DEFINE e == Completed("accept", d, 0, FALSE)
  <2>1. e \in Completion /\ e \notin Rearms(c) /\ Completes(e)
    BY <1>6, CompletionTypes DEF AcceptFails, Rearms, Completed
  <2>2. recvs' = recvs /\ (conn'[c] = conn[c] \/ {conn[c], conn'[c]} \subseteq {"armed", "refused"})
    BY <1>6 DEF AcceptFails, TypeOK
  <2> HIDE DEF e
  <2> QED BY <1>1, <1>2, <1>4, <2>1, <2>2, StaysRecvs DEF SameRecvs
<1>7. CASE SendCompletes(d)
  <2> DEFINE e == Completed("send", d, 0, conn[d] # "reset")
  <2>1. e \in Completion /\ e \notin Rearms(c)
    <3>1. (conn[d] # "reset") \in BOOLEAN
      OBVIOUS
    <3> QED BY <3>1, CompletionTypes DEF Rearms, Completed
  <2>2. UNCHANGED << recvs, conn >> /\ Completes(e)
    BY <1>7 DEF SendCompletes
  <2> HIDE DEF e
  <2> QED BY <1>1, <1>2, <1>4, <2>1, <2>2, StaysRecvs DEF SameRecvs
<1>8. CASE RecvCompletes(d)
  <2>1. PICK e \in Completion : /\ Completes(e) /\ (e \in Rearms(c) => c = d)
                                /\ c = d /\ conn[c] \in {"open", "eof"} => e \in Rearms(c)
    <3>1. CASE conn[d] = "open" /\ received[d] < MaxPackets /\ Completes(Completed("recv", d, received[d] + 1, TRUE))
      <4>1. received[d] + 1 \in 0 .. MaxPackets
        <5>1. received[d] \in 0 .. MaxPackets /\ received[d] < MaxPackets /\ MaxPackets \in Nat
          BY <3>1, ServerAssumption DEF TypeOK
        <5> QED BY <5>1
      <4> QED BY <3>1, <4>1, CompletionTypes DEF Rearms, Completed
    <3>2. CASE Completes(Completed("recv", d, 0, conn[d] = "eof")) /\ conn[d] \in {"eof", "reset"}
      <4>1. (conn[d] = "eof") \in BOOLEAN /\ 0 \in 0 .. MaxPackets
        BY CompletionTypes
      <4> QED BY <3>2, <4>1, CompletionTypes DEF Rearms, Completed
    <3> QED BY <1>8, <3>1, <3>2 DEF RecvCompletes
  <2>2. /\ conn' = conn /\ recvs[d] > 0 /\ recvs'[d] = recvs[d] - 1 /\ recvs[d] \in Nat
        /\ c # d => recvs'[c] = recvs[c]
    BY <1>8 DEF RecvCompletes, TypeOK
  <2>3. CASE c = d
    <3>1. recvs'[c] = 0 /\ RecvWorkers(c) = {} /\ RecvsDone(c) = {}
      BY <1>1, <2>2, <2>3 DEF RecvInvOf, OneOf
    <3> QED BY <1>1, <1>2, <1>4, <2>1, <2>2, <2>3, <3>1 DEF RecvInvOf, OneOf, NoRecv, AtMostOne
  <2>4. CASE c # d
    BY <1>1, <1>2, <1>4, <2>1, <2>2, <2>4, StaysRecvs DEF SameRecvs
  <2> QED BY <2>3, <2>4
<1> QED BY <1>3, <1>5, <1>6, <1>7, <1>8 DEF Business, Kernel

LEMMA NextRecv == TypeOK /\ HandInv /\ RecvInv /\ [Next]_vars => RecvInv'
<1> SUFFICES ASSUME TypeOK, HandInv, RecvInv, [Next]_vars PROVE RecvInv'
  OBVIOUS
<1>1. TypeOK' /\ HandInv'
  BY NextType, NextHand
<1>2. CASE UNCHANGED vars
  BY <1>2 DEF vars, RecvInv, RecvInvOf, OneOf, NoRecv, AtMostOne, RecvWorkers, RecvsDone, Ended
<1> QED BY <1>1, <1>2, RecvOwner, RecvWorker, RecvClient DEF Next

(* Never more than one WSARecv of a client is under way, so that TCP's     *)
(* order is the order of the completions; and a connected client always    *)
(* has one, or a handler that is going to call Recv.                       *)
THEOREM NeverTwoRecvs == Spec => []OneRecv
<1>1. TypeOK /\ RecvInv => OneRecv
  <2> SUFFICES ASSUME TypeOK, RecvInv, NEW c \in Clients
               PROVE  /\ \A x, y \in RecvTokens(c) : x = y
                      /\ Serving /\ conn[c] \in {"open", "eof"} => RecvTokens(c) # {}
    BY DEF OneRecv
  <2>1. RecvInvOf(c) /\ recvs[c] \in Nat
    BY DEF RecvInv, TypeOK
  <2>2. \A i, j \in 1 .. recvs[c] : i = j
    BY <2>1 DEF RecvInvOf, OneOf
  <2>3. recvs[c] = 0 => 1 .. recvs[c] = {}
    BY <2>1
  <2>4. recvs[c] # 0 => recvs[c] > 0 /\ 1 \in 1 .. recvs[c]
    BY <2>1
  <2>5. \A x, y \in RecvTokens(c) : x = y
    BY <2>1, <2>2, <2>3, <2>4 DEF RecvTokens, RecvInvOf, OneOf, AtMostOne
  <2>6. ASSUME RecvTokens(c) = {}
        PROVE  NoRecv(c)
    <3>1. /\ \A i \in 1 .. recvs[c] : << "kernel", i >> \in RecvTokens(c)
          /\ \A w \in RecvWorkers(c) : << "worker", w >> \in RecvTokens(c)
          /\ \A i \in RecvsDone(c) : << "port", i >> \in RecvTokens(c)
      BY DEF RecvTokens
    <3> QED BY <2>4, <2>6, <3>1 DEF NoRecv
  <2>7. Serving => ~Ended
    BY DEF Serving, Ended
  <2> QED BY <2>1, <2>5, <2>6, <2>7 DEF RecvInvOf
<1> QED BY <1>1, InitType, NextType, InitHand, NextHand, InitRecv, NextRecv, PTL DEF Spec
=============================================================================
