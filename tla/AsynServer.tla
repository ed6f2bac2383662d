------------------------------ MODULE AsynServer ------------------------------
(***************************************************************************)
(* The socket server (AsynServer and AsynClient in AsynchronousModel.cpp): *)
(* its operations Accept and ServerMain are tasks of a thread pool; each   *)
(* ServerMain takes one completion from the server's I/O completion port,  *)
(* serves it, and queues the next ServerMain.                              *)
(*                                                                         *)
(* The pool is the one of module ThreadPool, seen as TaskExecutor promises *)
(* it: a queue that accepts tasks until it closes, and workers that Close  *)
(* leaves in no task.  The client map is the registry of ClientRegistry.   *)
(* The kernel (sockets, the completion port) and the peers are external:   *)
(* an operation that was started completes at some time, with or without   *)
(* success, and completions are taken in the order they arrived.           *)
(*                                                                         *)
(* A client is the AsynClient of one Accept.  What a peer sends arrives in *)
(* chunks 1, 2, ..., one per completed WSARecv; chunk 0 is no data.        *)
(***************************************************************************)
EXTENDS Naturals, Sequences, FiniteSets

CONSTANTS
    MaxAccepts,     \* bound: how often Accept is run
    Workers,        \* the threads of m_Task, one per CPU
    MaxPackets,     \* bound: chunks that arrive from one peer
    MaxSends        \* bound: calls of AsynClient::Send for one client

ASSUME ServerAssumption ==
    /\ IsFiniteSet(Workers) /\ Workers # {}
    /\ MaxAccepts \in Nat
    /\ MaxPackets \in Nat
    /\ MaxSends \in Nat

Clients == 1 .. MaxAccepts          \* the AsynClient objects in their order
NoClient == 0
nCpuCount == Cardinality(Workers)   \* CTaskActuator::GetCpuCount

(* A completion: ok is the result of GetQueuedCompletionStatus.            *)
Completed(type, c, packet, ok) ==
    [type |-> type, client |-> c, packet |-> packet, ok |-> ok]

(* What Close posts; also what a worker has in hand that serves nothing.   *)
Quit == Completed("quit", NoClient, 0, TRUE)

Completion == [type : {"accept", "recv", "send"}, client : Clients,
               packet : 0 .. MaxPackets, ok : BOOLEAN] \cup {Quit}

VARIABLES
    m_socket,      \* "open", or "INVALID" once Close has taken it
    m_business,    \* TRUE once Start has set the business layer
    m_mapClients,  \* per client: "out", "in", "lost" (the post failed), "deleted"
    pool,          \* m_Task: "none", "running", "closing", "closed"
    tasks,         \* the tasks that wait in m_Task
    port,          \* the completions that wait in m_iocp
    worker,        \* where each worker of m_Task stands
    hand,          \* the completion each worker serves
    conn,          \* the connection of each client
    recvs, sends,  \* WSARecv and WSASend operations the kernel has of a client
    received,      \* chunks that arrived from each peer
    sent,          \* calls of Send for each client
    owner, index,  \* where the owner stands in Start or Close; the loop of Start
    told           \* ghost: what the business layer was told of each client:
                   \*   0 for ClientConnected, k for ClientRecvData of chunk k

kernelVars == << conn, recvs, sends, received, sent >>
poolVars == << pool, tasks, worker, hand >>
ownerVars == << m_socket, m_business, owner, index >>
vars == << m_socket, m_business, m_mapClients, pool, tasks, port, worker, hand,
           conn, recvs, sends, received, sent, owner, index, told >>

-----------------------------------------------------------------------------
InServerMain == {"get", "newaccept", "register", "firstrecv", "connected",
                 "rearm", "data", "senddone", "again", "addmain"}
WorkerPlaces == InServerMain \cup {"none", "idle", "accept", "gone", "crashed"}

StartPlaces == {"accept", "main", "business"}
ClosePlaces == {"post", "status", "queue", "stop", "closesocket", "closehandle"}
OwnerPlaces == StartPlaces \cup ClosePlaces \cup {"new", "serving", "closed"}

(* "new" before Accept; "armed" while AcceptEx waits for a peer; "refused" *)
(* when it failed; then "open" until the peer ends its stream ("eof") or   *)
(* resets the connection ("reset").                                        *)
Connections == {"new", "armed", "refused", "open", "eof", "reset"}

TypeOK ==
    /\ m_socket \in {"open", "INVALID"}
    /\ m_business \in BOOLEAN
    /\ m_mapClients \in [Clients -> {"out", "in", "lost", "deleted"}]
    /\ pool \in {"none", "running", "closing", "closed"}
    /\ tasks \in Seq({"Accept", "ServerMain"})
    /\ port \in Seq(Completion)
    /\ worker \in [Workers -> WorkerPlaces]
    /\ hand \in [Workers -> Completion]
    /\ conn \in [Clients -> Connections]
    /\ recvs \in [Clients -> Nat]
    /\ sends \in [Clients -> Nat]
    /\ received \in [Clients -> 0 .. MaxPackets]
    /\ sent \in [Clients -> 0 .. MaxSends]
    /\ owner \in OwnerPlaces
    /\ index \in 1 .. nCpuCount
    /\ told \in [Clients -> Seq(0 .. MaxPackets)]

(* The constructor, when the socket and the port could be made.            *)
Init ==
    /\ m_socket = "open"
    /\ m_business = FALSE
    /\ m_mapClients = [c \in Clients |-> "out"]
    /\ pool = "none"
    /\ tasks = << >>
    /\ port = << >>
    /\ worker = [w \in Workers |-> "none"]
    /\ hand = [w \in Workers |-> Quit]
    /\ conn = [c \in Clients |-> "new"]
    /\ recvs = [c \in Clients |-> 0] /\ sends = [c \in Clients |-> 0]
    /\ received = [c \in Clients |-> 0] /\ sent = [c \in Clients |-> 0]
    /\ owner = "new"
    /\ index = 1
    /\ told = [c \in Clients |-> << >>]

(* A call through the null business layer ends the process.                *)
Crashed == \E w \in Workers : worker[w] = "crashed"

(* m_Task.AddTask: refused once the pool is closing, unless it was called  *)
(* before.                                                                 *)
AddTask(t) ==
    \/ pool \in {"running", "closing"} /\ tasks' = Append(tasks, t)
    \/ pool # "running" /\ UNCHANGED tasks

-----------------------------------------------------------------------------
(* The owner: Start.                                                       *)

(* m_Task.Run(): when it fails, Start goes on all the same, with a pool    *)
(* that refuses every task.                                                *)
StartRun ==
    /\ owner = "new"
    /\ \/ /\ pool' = "running"
          /\ worker' = [w \in Workers |-> "idle"]
       \/ /\ pool' = "closed"
          /\ UNCHANGED worker
    /\ owner' = "accept"
    /\ UNCHANGED << m_socket, m_business, m_mapClients, tasks, port, hand,
                    kernelVars, index, told >>

(* Mutant: Start queues two Accepts.                                       *)
StartAcceptTwice ==
    /\ owner = "accept"
    /\ tasks' = IF pool = "running" THEN tasks \o << "Accept", "Accept" >> ELSE tasks
    /\ owner' = IF nCpuCount > 1 THEN "main" ELSE "business"
    /\ UNCHANGED << m_socket, m_business, m_mapClients, pool, port, worker,
                    hand, kernelVars, index, told >>

StartAccept ==
    /\ owner = "accept"
    /\ AddTask("Accept")
    /\ owner' = IF nCpuCount > 1 THEN "main" ELSE "business"
    /\ UNCHANGED << m_socket, m_business, m_mapClients, pool, port, worker,
                    hand, kernelVars, index, told >>

(* Mutant: the loop of Start begins at 0.                                  *)
StartMainFromZero ==
    /\ ~Crashed
    /\ owner = "main"
    /\ AddTask("ServerMain")
    /\ IF index < nCpuCount
       THEN index' = index + 1 /\ UNCHANGED owner
       ELSE owner' = "business" /\ UNCHANGED index
    /\ UNCHANGED << m_socket, m_business, m_mapClients, pool, port, worker,
                    hand, kernelVars, told >>

(* One round of the loop, for i = index: one ServerMain less than there    *)
(* are workers.                                                            *)
StartMain ==
    /\ ~Crashed
    /\ owner = "main"
    /\ AddTask("ServerMain")
    /\ IF index + 1 < nCpuCount
       THEN index' = index + 1 /\ UNCHANGED owner
       ELSE owner' = "business" /\ UNCHANGED index
    /\ UNCHANGED << m_socket, m_business, m_mapClients, pool, port, worker,
                    hand, kernelVars, told >>

(* m_business = business, after the tasks were queued.                     *)
StartBusiness ==
    /\ ~Crashed
    /\ owner = "business"
    /\ m_business' = TRUE
    /\ owner' = "serving"
    /\ UNCHANGED << m_socket, m_mapClients, poolVars, port, kernelVars, index,
                    told >>

-----------------------------------------------------------------------------
(* The owner: Close.  A second Close, of the destructor for one, finds     *)
(* nothing to close.                                                       *)

(* Takes the handles out of m_socket and m_iocp, which from then on are    *)
(* both INVALID to the workers that look.                                  *)
Close ==
    /\ ~Crashed
    /\ owner \in {"new", "serving"}
    /\ m_socket' = "INVALID"
    /\ owner' = "post"
    /\ UNCHANGED << m_business, m_mapClients, poolVars, port, kernelVars, index,
                    told >>

(* One empty completion, for one of the workers.                           *)
ClosePost ==
    /\ ~Crashed
    /\ owner = "post"
    /\ port' = Append(port, Quit)
    /\ owner' = "status"
    /\ UNCHANGED << m_socket, m_business, m_mapClients, poolVars, kernelVars,
                    index, told >>

(* m_Task.Close(), in three steps: tasks are refused; the queue goes; the  *)
(* workers have ended, by themselves or terminated where they are.         *)
CloseTaskStatus ==
    /\ ~Crashed
    /\ owner = "status"
    /\ pool' = IF pool = "running" THEN "closing" ELSE "closed"
    /\ owner' = "queue"
    /\ UNCHANGED << m_socket, m_business, m_mapClients, tasks, port, worker,
                    hand, kernelVars, index, told >>

CloseTaskQueue ==
    /\ ~Crashed
    /\ owner = "queue"
    /\ pool' = "closed"
    /\ tasks' = << >>
    /\ owner' = "stop"
    /\ UNCHANGED << m_socket, m_business, m_mapClients, port, worker, hand,
                    kernelVars, index, told >>

(* Mutant: workers in the middle of a ServerMain are left alone.           *)
CloseTaskStopLeaves ==
    /\ ~Crashed
    /\ owner = "stop"
    /\ worker' = [w \in Workers |->
                     IF worker[w] \in InServerMain THEN worker[w] ELSE "gone"]
    /\ owner' = "closesocket"
    /\ UNCHANGED << m_socket, m_business, m_mapClients, pool, tasks, port, hand,
                    kernelVars, index, told >>

CloseTaskStop ==
    /\ ~Crashed
    /\ owner = "stop"
    /\ worker' = [w \in Workers |-> "gone"]
    /\ owner' = "closesocket"
    /\ UNCHANGED << m_socket, m_business, m_mapClients, pool, tasks, port, hand,
                    kernelVars, index, told >>

(* closesocket(s): an AcceptEx that waits fails; nobody serves that.       *)
CloseSocket ==
    /\ owner = "closesocket"
    /\ conn' = [c \in Clients |-> IF conn[c] = "armed" THEN "refused" ELSE conn[c]]
    /\ owner' = "closehandle"
    /\ UNCHANGED << m_socket, m_business, m_mapClients, poolVars, port, recvs,
                    sends, received, sent, index, told >>

(* CloseHandle(h): the completions that wait go with the port.             *)
CloseHandle ==
    /\ owner = "closehandle"
    /\ port' = << >>
    /\ owner' = "closed"
    /\ UNCHANGED << m_socket, m_business, m_mapClients, poolVars, kernelVars,
                    index, told >>

-----------------------------------------------------------------------------
(* A worker: taking a task, and Accept.                                    *)

(* A step of worker w from one place to another that leaves the pool, its  *)
(* completion, the owner and the handles alone.                            *)
Goes(w, from, to) ==
    /\ ~Crashed
    /\ worker[w] = from
    /\ worker' = [worker EXCEPT ![w] = to]
    /\ UNCHANGED << pool, ownerVars >>

TakeTask(w) ==
    /\ pool \in {"running", "closing"}
    /\ tasks # << >>
    /\ Goes(w, "idle", IF Head(tasks) = "Accept" THEN "accept" ELSE "get")
    /\ tasks' = Tail(tasks)
    /\ UNCHANGED << m_mapClients, port, hand, kernelVars, told >>

(* Accept: a new client, and AcceptEx for it, which fails at once when     *)
(* m_socket is taken, or for a reason of its own.  The task ends.          *)
Accept(w) ==
    /\ Goes(w, "accept", "idle")
    /\ \E c \in Clients :
           /\ conn[c] = "new"
           /\ \A d \in 1 .. c - 1 : conn[d] # "new"
           /\ \/ conn' = [conn EXCEPT ![c] = "refused"]
              \/ m_socket = "open" /\ conn' = [conn EXCEPT ![c] = "armed"]
    /\ UNCHANGED << m_mapClients, tasks, port, hand, recvs, sends, received,
                    sent, told >>

-----------------------------------------------------------------------------
(* A worker: ServerMain.                                                   *)

(* Where a worker goes on with completion e: one that failed, and the one  *)
(* without OVERLAPPED that Close posts, are skipped.                       *)
Serves(e) ==
    IF ~e.ok \/ e.type = "quit" THEN "again"
    ELSE IF e.type = "accept" THEN "newaccept"
    ELSE IF e.type = "recv" THEN "rearm"
    ELSE "senddone"

GetCompletion(w) ==
    /\ port # << >>
    /\ Goes(w, "get", Serves(Head(port)))
    /\ port' = Tail(port)
    /\ hand' = [hand EXCEPT ![w] = IF Head(port).ok THEN Head(port) ELSE Quit]
    /\ UNCHANGED << m_mapClients, tasks, kernelVars, told >>

(* m_iocp was INVALID already.                                             *)
GetFails(w) ==
    /\ m_socket = "INVALID"
    /\ Goes(w, "get", "again")
    /\ UNCHANGED << m_mapClients, tasks, port, hand, kernelVars, told >>

(* Mutant: a completed accept does not queue the next Accept.              *)
NewAcceptForgotten(w) ==
    /\ Goes(w, "newaccept", "register")
    /\ UNCHANGED << m_mapClients, tasks, port, hand, kernelVars, told >>

(* case 1: the next Accept becomes a task.                                 *)
NewAccept(w) ==
    /\ Goes(w, "newaccept", "register")
    /\ AddTask("Accept")
    /\ UNCHANGED << m_mapClients, port, hand, kernelVars, told >>

(* Mutant: AddClient is left to the business layer.                        *)
RegisterForgotten(w) ==
    /\ Goes(w, "register", "firstrecv")
    /\ UNCHANGED << m_mapClients, tasks, port, hand, kernelVars, told >>

(* m_mapClients.AddClient: the client is known to the questions asked from *)
(* now on, unless the post of the message failed.                          *)
Register(w) ==
    /\ Goes(w, "register", "firstrecv")
    /\ \E known \in {"in", "lost"} :
           m_mapClients' = [m_mapClients EXCEPT ![hand[w].client] = known]
    /\ UNCHANGED << tasks, port, hand, kernelVars, told >>

(* AsynClient::Recv, which fails on a connection that was reset.           *)
Recv(c) ==
    /\ recvs' = [recvs EXCEPT ![c] = IF conn[c] = "reset" THEN @ ELSE @ + 1]
    /\ UNCHANGED << conn, sends, received, sent >>

FirstRecv(w) ==
    /\ Goes(w, "firstrecv", "connected")
    /\ Recv(hand[w].client)
    /\ UNCHANGED << m_mapClients, tasks, port, hand, told >>

(* Mutant: Recv is called after ClientRecvData as well as before it: here  *)
(* both calls at once.                                                     *)
RearmTwice(w) ==
    /\ Goes(w, "rearm", "data")
    /\ recvs' = [recvs EXCEPT ![hand[w].client] = @ + 2]
    /\ UNCHANGED << m_mapClients, tasks, port, hand, conn, sends, received,
                    sent, told >>

(* case 2: Recv again, before the chunk is passed on; also after the       *)
(* end of the stream.                                                      *)
Rearm(w) ==
    /\ Goes(w, "rearm", "data")
    /\ Recv(hand[w].client)
    /\ UNCHANGED << m_mapClients, tasks, port, hand, told >>

(* ClientConnected, ClientRecvData or ClientSendDone of the business       *)
(* layer, which must not block; a null layer is a crash.  The OpOL is      *)
(* deleted.  The ghost has no entry for a chunk without data.              *)
Tells(w, from, news) ==
    /\ Goes(w, from, IF m_business THEN "again" ELSE "crashed")
    /\ told' = IF m_business
               THEN [told EXCEPT ![hand[w].client] = @ \o news]
               ELSE told
    /\ hand' = [hand EXCEPT ![w] = Quit]
    /\ UNCHANGED << m_mapClients, tasks, port, kernelVars >>

ClientConnected(w) == Tells(w, "connected", << 0 >>)

(* Mutant: at the end of the stream ServerMain returns, without the test   *)
(* at its end.                                                             *)
ClientRecvDataReturns(w) ==
    LET k == hand[w].packet
    IN  IF k # 0
        THEN Tells(w, "data", << k >>)
        ELSE /\ Goes(w, "data", "idle")
             /\ hand' = [hand EXCEPT ![w] = Quit]
             /\ UNCHANGED << m_mapClients, tasks, port, kernelVars, told >>

ClientRecvData(w) ==
    LET k == hand[w].packet
    IN  Tells(w, "data", IF k = 0 THEN << >> ELSE << k >>)

ClientSendDone(w) == Tells(w, "senddone", << >>)

(* The test at the end of ServerMain, and the next ServerMain task.        *)
TestServing(w) ==
    /\ Goes(w, "again", IF m_socket = "open" THEN "addmain" ELSE "idle")
    /\ UNCHANGED << m_mapClients, tasks, port, hand, kernelVars, told >>

NextServerMain(w) ==
    /\ Goes(w, "addmain", "idle")
    /\ AddTask("ServerMain")
    /\ UNCHANGED << m_mapClients, port, hand, kernelVars, told >>

-----------------------------------------------------------------------------
(* The business layer calls back, from threads of its own.                 *)

(* AsynClient::Send, of a client it was told of.                           *)
Send(c) ==
    /\ ~Crashed
    /\ told[c] # << >>
    /\ sent[c] < MaxSends
    /\ sent' = [sent EXCEPT ![c] = @ + 1]
    /\ sends' = [sends EXCEPT ![c] = IF conn[c] = "reset" THEN @ ELSE @ + 1]
    /\ UNCHANGED << ownerVars, m_mapClients, poolVars, port, conn, recvs,
                    received, told >>

(* AsynServer::DelClient: of the client the server forgets no more than    *)
(* that it is in the map.                                                  *)
DelClient(c) ==
    /\ ~Crashed
    /\ m_mapClients[c] = "in"
    /\ m_mapClients' = [m_mapClients EXCEPT ![c] = "deleted"]
    /\ UNCHANGED << ownerVars, poolVars, port, kernelVars, told >>

-----------------------------------------------------------------------------
(* The kernel and the peers.                                               *)

KernelRuns == ~Crashed /\ owner # "closed"

Completes(e) ==
    /\ KernelRuns
    /\ port' = Append(port, e)
    /\ UNCHANGED << ownerVars, m_mapClients, poolVars, sent, told >>

(* A peer connects.  Bound: one client stays unused for the next Accept.   *)
PeerConnects(c) ==
    /\ conn[c] = "armed"
    /\ \E d \in Clients : conn[d] = "new"
    /\ conn' = [conn EXCEPT ![c] = "open"]
    /\ Completes(Completed("accept", c, 0, TRUE))
    /\ UNCHANGED << recvs, sends, received >>

(* The connection breaks before AcceptEx completes.                        *)
AcceptFails(c) ==
    /\ conn[c] = "armed"
    /\ conn' = [conn EXCEPT ![c] = "refused"]
    /\ Completes(Completed("accept", c, 0, FALSE))
    /\ UNCHANGED << recvs, sends, received >>

(* WSARecv completes with a chunk of data, with the end of the stream, or  *)
(* fails on a reset connection.                                            *)
RecvCompletes(c) ==
    /\ recvs[c] > 0
    /\ recvs' = [recvs EXCEPT ![c] = @ - 1]
    /\ \/ /\ conn[c] = "open"
          /\ received[c] < MaxPackets
          /\ received' = [received EXCEPT ![c] = @ + 1]
          /\ Completes(Completed("recv", c, received[c] + 1, TRUE))
       \/ /\ conn[c] \in {"eof", "reset"}
          /\ Completes(Completed("recv", c, 0, conn[c] = "eof"))
          /\ UNCHANGED received
    /\ UNCHANGED << conn, sends >>

SendCompletes(c) ==
    /\ sends[c] > 0
    /\ sends' = [sends EXCEPT ![c] = @ - 1]
    /\ Completes(Completed("send", c, 0, conn[c] # "reset"))
    /\ UNCHANGED << conn, recvs, received >>

PeerEnds(c) ==
    /\ KernelRuns
    /\ \/ conn[c] = "open" /\ conn' = [conn EXCEPT ![c] = "eof"]
       \/ conn[c] \in {"open", "eof"} /\ conn' = [conn EXCEPT ![c] = "reset"]
    /\ UNCHANGED << ownerVars, m_mapClients, poolVars, port, recvs, sends,
                    received, sent, told >>

-----------------------------------------------------------------------------
ServerMain(w) ==
    \/ GetCompletion(w) \/ GetFails(w)
    \/ NewAccept(w) \/ Register(w) \/ FirstRecv(w) \/ ClientConnected(w)
    \/ Rearm(w) \/ ClientRecvData(w) \/ ClientSendDone(w)
    \/ TestServing(w) \/ NextServerMain(w)

Worker(w) == TakeTask(w) \/ Accept(w) \/ ServerMain(w)

Start == StartRun \/ StartAccept \/ StartMain \/ StartBusiness

CloseSteps == ClosePost \/ CloseTaskStatus \/ CloseTaskQueue \/ CloseTaskStop
              \/ CloseSocket \/ CloseHandle

Business(c) == Send(c) \/ DelClient(c)

Kernel(c) == PeerConnects(c) \/ AcceptFails(c) \/ RecvCompletes(c)
             \/ SendCompletes(c) \/ PeerEnds(c)

Next ==
    \/ Start \/ Close \/ CloseSteps
    \/ \E w \in Workers : Worker(w)
    \/ \E c \in Clients : Business(c) \/ Kernel(c)

Spec == Init /\ [][Next]_vars

(* The threads of the pool run, and no call of the business layer blocks   *)
(* (CBusinessLayer forbids it); Start goes on.                             *)
FairSpec ==
    Spec /\ WF_vars(Start) /\ \A w \in Workers : WF_vars(Worker(w))

-----------------------------------------------------------------------------
(* PROPERTIES                                                              *)

(* What keeps the server accepting: an Accept that waits as a task, one    *)
(* that is run, an AcceptEx that waits for a peer, a completed one in the  *)
(* port, one in the hands of a worker until the next Accept is queued.     *)
AcceptTasks == {i \in 1 .. Len(tasks) : tasks[i] = "Accept"}
AcceptWorkers == {w \in Workers : worker[w] \in {"accept", "newaccept"}}
Armed == {c \in Clients : conn[c] = "armed"}
AcceptsDone == {i \in 1 .. Len(port) : port[i].type = "accept" /\ port[i].ok}

AcceptTokens == ({"task"} \X AcceptTasks) \cup ({"worker"} \X AcceptWorkers)
                \cup ({"kernel"} \X Armed) \cup ({"port"} \X AcceptsDone)

(* Start was called and Close was not, with a pool that runs.              *)
Serving == pool = "running" /\ owner \in {"main", "business", "serving"} /\ ~Crashed

(* Never do two Accepts compete; while the server serves there is one,     *)
(* unless an AcceptEx failed: the only way to stop accepting.              *)
OneAccept ==
    /\ \A x, y \in AcceptTokens : x = y
    /\ Serving /\ AcceptTokens = {} => \E c \in Clients : conn[c] = "refused"

(* The same for the receiving of client c, from its accept on.             *)
RecvWorkers(c) ==
    {w \in Workers : /\ worker[w] \in {"newaccept", "register", "firstrecv", "rearm"}
                     /\ hand[w].client = c}
RecvsDone(c) ==
    {i \in 1 .. Len(port) : /\ port[i].type \in {"accept", "recv"}
                           /\ port[i].ok /\ port[i].client = c}

RecvTokens(c) == ({"kernel"} \X (1 .. recvs[c])) \cup ({"worker"} \X RecvWorkers(c))
                 \cup ({"port"} \X RecvsDone(c))

(* At most one WSARecv of a client is under way, so that chunks arrive in  *)
(* order; a client that is connected always has one, or will.              *)
OneRecv ==
    \A c \in Clients :
        /\ \A x, y \in RecvTokens(c) : x = y
        /\ Serving /\ conn[c] \in {"open", "eof"} => RecvTokens(c) # {}

ToldOf(c) == {told[c][i] : i \in DOMAIN told[c]}

InHand(c) == {hand[w].packet : w \in {w \in Workers : /\ worker[w] \in {"rearm", "data"}
                                                     /\ hand[w].client = c}}

InPort(c) == {port[i].packet : i \in {i \in DOMAIN port : /\ port[i].type = "recv"
                                                        /\ port[i].client = c}}

(* The business layer is told of each connection and of each chunk at most *)
(* once, and until Close no chunk that arrived gets lost on its way.       *)
ToldOnce ==
    \A c \in Clients :
        /\ Len(told[c]) = Cardinality(ToldOf(c))
        /\ (InHand(c) \cup InPort(c)) \cap ToldOf(c) \subseteq {0}
        /\ Serving => 1 .. received[c] \subseteq ToldOf(c) \cup InHand(c) \cup InPort(c)

(* Chunks overtake each other, and the first ones ClientConnected, because *)
(* Recv is called before the business layer is: but at most nCpuCount - 2  *)
(* of them are late at a time, the ones the other workers hold.  With two  *)
(* workers the business layer is told in order.                            *)
ReorderBounded ==
    \A c \in Clients : \A k \in ToldOf(c) :
        Cardinality((0 .. k - 1) \ ToldOf(c)) \leq nCpuCount - 2

(* The business layer is told of everything, once and nearly in order.     *)
DeliveredOnce == ToldOnce /\ ReorderBounded

(* A client the business layer was told of has been through AddClient.     *)
RegisteredFirst ==
    \A c \in Clients : told[c] # << >> => m_mapClients[c] # "out"

(* Only a client that connects while Start is running meets the null       *)
(* business layer.                                                         *)
CrashOnlyWhileStarting == Crashed => owner \in StartPlaces

(* The listening socket and the port are closed after the last worker left *)
(* ServerMain, so the business layer hears nothing any more.               *)
WorkersGoneFirst ==
    owner \in {"closesocket", "closehandle", "closed"} =>
        \A w \in Workers : worker[w] = "gone"

(* Handlers run between the end of Start and the end of the threads only:  *)
(* what they use has been set, and has not been closed.                    *)
ServesWhileUp == CrashOnlyWhileStarting /\ WorkersGoneFirst

(* After each connection the server waits for the next one, unless its     *)
(* AcceptEx fails or Close is called: no ServerMain that blocks on the     *)
(* port keeps the Accept from a worker.                                    *)
Waiting == \E c \in Clients : conn[c] \in {"armed", "refused"}

AcceptsAgain == \A c \in Clients : conn[c] = "open" ~> (Waiting \/ ~Serving)

(* Every chunk that arrived is passed on, whatever other clients do.       *)
ChunkTold ==
    \A c \in Clients, k \in 1 .. MaxPackets :
        received[c] \geq k ~> (k \in ToldOf(c) \/ ~Serving)
=============================================================================
