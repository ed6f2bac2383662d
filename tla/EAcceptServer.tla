---------------------------- MODULE EAcceptServer ----------------------------
(***************************************************************************)
(* The relay (EAcceptServer.cpp and its variant of AsynchronousModel.cpp): *)
(* each client it accepts gets a pair, a connection of its own to the back *)
(* end, and what arrives from one is sent to the other.                    *)
(*                                                                         *)
(* The server differs from AsynServer in its completions: AcceptEx has     *)
(* type 4, ConnectEx type 1, and it is case 1, the back end's answer, that *)
(* queues the next Accept.  The model begins when Start has returned;      *)
(* Start, Close and the client map are the code of AsynServer.  Kernel and *)
(* peers are external, as there.                                           *)
(*                                                                         *)
(* An end is an AsynClient, accepted or made for the back end, in the      *)
(* order of their creation.  What a peer sends arrives in chunks 1, 2, ... *)
(* one per WSARecv; chunk 0 is the end of its stream.                      *)
(***************************************************************************)
EXTENDS Naturals, Sequences, FiniteSets

CONSTANTS
    MaxEnds,        \* bound: AsynClient objects
    Workers,        \* the threads of m_Task, one per CPU
    MaxPackets      \* bound: chunks that arrive from one peer

ASSUME RelayAssumption ==
    /\ IsFiniteSet(Workers) /\ Workers # {}
    /\ MaxEnds \in Nat
    /\ MaxPackets \in Nat

Ends == 1 .. MaxEnds
NoEnd == 0                          \* a null m_pair
nCpuCount == Cardinality(Workers)

Completed(type, e, packet, ok) ==
    [type |-> type, end |-> e, packet |-> packet, ok |-> ok]

Completion == [type : {"connect", "recv", "send", "accept"}, end : Ends,
               packet : 0 .. MaxPackets, ok : BOOLEAN]

VARIABLES
    m_pair,        \* the pair of each end
    tasks,         \* the tasks that wait in m_Task
    port,          \* the completions that wait in m_iocp
    worker,        \* where each worker of m_Task stands
    hand,          \* the end a worker serves, and the chunk
    peer,          \* the pair a worker has made or looked up
    conn,          \* the connection of each end
    recvs, sends,  \* WSARecv and WSASend operations the kernel has of an end
    received,      \* chunks that arrived from the peer of each end
    sent,          \* chunks sent to the peer of each end, in order
    lost,          \* ghost: chunks of each end that were not passed on
    early          \* ghost: chunks that had arrived when its pair was connected

workerVars == << worker, hand, peer >>
kernelVars == << conn, recvs, sends, received, sent, early >>
vars == << m_pair, tasks, port, workerVars, kernelVars, lost >>

-----------------------------------------------------------------------------
InCase4 == {"firstrecv4", "connected", "setpair", "connect"}
WorkerPlaces == {"idle", "accept", "get", "newaccept", "firstrecv1", "rearm",
                 "pair", "send", "addmain"} \cup InCase4

(* "new" before its socket is used; "armed" while AcceptEx, "connecting"   *)
(* while ConnectEx is under way, "refused" when that failed; then "open"   *)
(* until the peer ends its stream ("eof") or resets the connection.        *)
Connections == {"new", "armed", "connecting", "refused", "open", "eof", "reset"}

TypeOK ==
    /\ m_pair \in [Ends -> Ends \cup {NoEnd}]
    /\ tasks \in Seq({"Accept", "ServerMain"})
    /\ port \in Seq(Completion)
    /\ worker \in [Workers -> WorkerPlaces]
    /\ hand \in [Workers -> [end : Ends \cup {NoEnd}, packet : 0 .. MaxPackets]]
    /\ peer \in [Workers -> Ends \cup {NoEnd}]
    /\ conn \in [Ends -> Connections]
    /\ recvs \in [Ends -> Nat] /\ sends \in [Ends -> Nat]
    /\ received \in [Ends -> 0 .. MaxPackets]
    /\ sent \in [Ends -> Seq(1 .. MaxPackets)]
    /\ lost \in [Ends -> SUBSET (1 .. MaxPackets)]
    /\ early \in [Ends -> 0 .. MaxPackets]

Nothing == [end |-> NoEnd, packet |-> 0]

(* Start has queued one Accept, and one ServerMain less than there are     *)
(* workers.                                                                *)
Init ==
    /\ m_pair = [e \in Ends |-> NoEnd]
    /\ tasks = << "Accept" >> \o [i \in 1 .. nCpuCount - 1 |-> "ServerMain"]
    /\ port = << >>
    /\ worker = [w \in Workers |-> "idle"]
    /\ hand = [w \in Workers |-> Nothing]
    /\ peer = [w \in Workers |-> NoEnd]
    /\ conn = [e \in Ends |-> "new"]
    /\ recvs = [e \in Ends |-> 0] /\ sends = [e \in Ends |-> 0]
    /\ received = [e \in Ends |-> 0]
    /\ sent = [e \in Ends |-> << >>]
    /\ lost = [e \in Ends |-> {}]
    /\ early = [e \in Ends |-> 0]

(* The objects made so far: the ends in use, and pairs on their way.       *)
Used == {e \in Ends : conn[e] # "new" \/ \E w \in Workers : peer[w] = e}

(* new AsynClient(): the next one.                                         *)
IsNew(e) == e \notin Used /\ 1 .. e - 1 \subseteq Used

Goes(w, from, to) ==
    /\ worker[w] = from
    /\ worker' = [worker EXCEPT ![w] = to]

-----------------------------------------------------------------------------
(* A worker: taking a task, and Accept.                                    *)

TakeTask(w) ==
    /\ tasks # << >>
    /\ Goes(w, "idle", IF Head(tasks) = "Accept" THEN "accept" ELSE "get")
    /\ tasks' = Tail(tasks)
    /\ UNCHANGED << m_pair, port, hand, peer, kernelVars, lost >>

Accept(w) ==
    /\ Goes(w, "accept", "idle")
    /\ \E e \in Ends :
           /\ IsNew(e)
           /\ \E c \in {"armed", "refused"} : conn' = [conn EXCEPT ![e] = c]
    /\ UNCHANGED << m_pair, tasks, port, hand, peer, recvs, sends, received,
                    sent, early, lost >>

-----------------------------------------------------------------------------
(* A worker: ServerMain.                                                   *)

(* A completion that failed is skipped; nothing is done for one of a send. *)
Serves(e) ==
    IF ~e.ok \/ e.type = "send" THEN "addmain"
    ELSE IF e.type = "connect" THEN "newaccept"
    ELSE IF e.type = "recv" THEN "rearm"
    ELSE "firstrecv4"

GetCompletion(w) ==
    /\ port # << >>
    /\ LET e == Head(port) IN
           /\ Goes(w, "get", Serves(e))
           /\ hand' = [hand EXCEPT ![w] =
                           IF Serves(e) = "addmain" THEN Nothing
                           ELSE [end |-> e.end, packet |-> e.packet]]
    /\ port' = Tail(port)
    /\ UNCHANGED << m_pair, tasks, peer, kernelVars, lost >>

(* Mutant: the next Accept is forgotten.                                   *)
NewAcceptForgotten(w) ==
    /\ Goes(w, "newaccept", "firstrecv1")
    /\ UNCHANGED << m_pair, tasks, port, hand, peer, kernelVars, lost >>

(* case 1, the connection to the back end: the next Accept becomes a task. *)
NewAccept(w) ==
    /\ Goes(w, "newaccept", "firstrecv1")
    /\ tasks' = Append(tasks, "Accept")
    /\ UNCHANGED << m_pair, port, hand, peer, kernelVars, lost >>

(* AsynClient::Recv; the kernel refuses it on a reset connection.          *)
Recv(e) ==
    recvs' = [recvs EXCEPT ![e] = IF conn[e] = "reset" THEN @ ELSE @ + 1]

(* case 1 goes on with Recv, and with ClientConnected, which has nothing   *)
(* to do for an end that has a pair.                                       *)
FirstRecvOfPair(w) ==
    /\ Goes(w, "firstrecv1", "connected")
    /\ Recv(hand[w].end)
    /\ UNCHANGED << m_pair, tasks, port, hand, peer, conn, sends, received,
                    sent, early, lost >>

(* Mutant: case 4 queues the next Accept as well.                          *)
FirstRecvAccepts(w) ==
    /\ Goes(w, "firstrecv4", "connected")
    /\ Recv(hand[w].end)
    /\ tasks' = Append(tasks, "Accept")
    /\ UNCHANGED << m_pair, port, hand, peer, conn, sends, received, sent,
                    early, lost >>

(* case 4, an accepted client: Recv, then ClientConnected.                 *)
FirstRecv(w) ==
    /\ Goes(w, "firstrecv4", "connected")
    /\ Recv(hand[w].end)
    /\ UNCHANGED << m_pair, tasks, port, hand, peer, conn, sends, received,
                    sent, early, lost >>

Served(w) == hand' = [hand EXCEPT ![w] = Nothing]

(* Mutant: ClientConnected does not look whether there is a pair.          *)
ClientConnectedAnyway(w) ==
    /\ Goes(w, "connected", "setpair")
    /\ \E f \in Ends : /\ IsNew(f)
                       /\ peer' = [peer EXCEPT ![w] = f]
                       /\ m_pair' = [m_pair EXCEPT ![f] = hand[w].end]
    /\ UNCHANGED << tasks, port, hand, kernelVars, lost >>

(* ClientConnected: an end without a pair gets one, which is told first.   *)
ClientConnected(w) ==
    /\ \/ /\ Goes(w, "connected", "setpair")
          /\ m_pair[hand[w].end] = NoEnd
          /\ \E f \in Ends : /\ IsNew(f)
                             /\ peer' = [peer EXCEPT ![w] = f]
                             /\ m_pair' = [m_pair EXCEPT ![f] = hand[w].end]
          /\ UNCHANGED hand
       \/ /\ Goes(w, "connected", "addmain")
          /\ m_pair[hand[w].end] # NoEnd
          /\ Served(w)
          /\ UNCHANGED << m_pair, peer >>
    /\ UNCHANGED << tasks, port, kernelVars, lost >>

(* Mutant: the client is not told of its pair.                             *)
SetPairForgotten(w) ==
    /\ Goes(w, "setpair", "connect")
    /\ UNCHANGED << m_pair, tasks, port, hand, peer, kernelVars, lost >>

(* client->SetPair(pair)                                                   *)
SetPair(w) ==
    /\ Goes(w, "setpair", "connect")
    /\ m_pair' = [m_pair EXCEPT ![hand[w].end] = peer[w]]
    /\ UNCHANGED << tasks, port, hand, peer, kernelVars, lost >>

(* pair->Connect, AsynServer::AddClient: ConnectEx, which may fail at once. *)
Connect(w) ==
    /\ Goes(w, "connect", "addmain")
    /\ \E c \in {"connecting", "refused"} :
           conn' = [conn EXCEPT ![peer[w]] = c]
    /\ Served(w)
    /\ peer' = [peer EXCEPT ![w] = NoEnd]
    /\ UNCHANGED << m_pair, tasks, port, recvs, sends, received, sent, early, lost >>

(* case 2: Recv, at the end of the stream, too, then ClientRecvData.       *)
Rearm(w) ==
    /\ Goes(w, "rearm", "pair")
    /\ Recv(hand[w].end)
    /\ UNCHANGED << m_pair, tasks, port, hand, peer, conn, sends, received,
                    sent, early, lost >>

(* The chunk in the hands of w is not passed on.                           *)
Loses(w) ==
    lost' = [lost EXCEPT ![hand[w].end] = @ \cup ({hand[w].packet} \ {0})]

(* ClientRecvData: client->Pair()                                          *)
Pair(w) ==
    /\ \/ /\ Goes(w, "pair", "send")
          /\ m_pair[hand[w].end] # NoEnd
          /\ peer' = [peer EXCEPT ![w] = m_pair[hand[w].end]]
          /\ UNCHANGED << hand, lost >>
       \/ /\ Goes(w, "pair", "addmain")
          /\ m_pair[hand[w].end] = NoEnd
          /\ Loses(w) /\ Served(w)
          /\ UNCHANGED peer
    /\ UNCHANGED << m_pair, tasks, port, kernelVars >>

(* Mutant: ServerMain returns from the end of a stream, without the test   *)
(* at its end.                                                             *)
SendReturns(w) ==
    /\ hand[w].packet = 0
    /\ Goes(w, "send", "idle")
    /\ Served(w)
    /\ peer' = [peer EXCEPT ![w] = NoEnd]
    /\ UNCHANGED << m_pair, tasks, port, kernelVars, lost >>

(* ClientRecvData: pair->Send(packet), an empty packet, too.  WSASend      *)
(* fails when the socket is not connected; the result is not looked at.    *)
(* Bound: the sending of an empty packet completes without an entry in the *)
(* port (it would be served by doing nothing, without end).                *)
Send(w) ==
    /\ Goes(w, "send", "addmain")
    /\ LET f == peer[w]
           k == hand[w].packet
       IN  IF conn[f] \in {"open", "eof"}
           THEN /\ sent' = [sent EXCEPT ![f] = IF k = 0 THEN @ ELSE Append(@, k)]
                /\ sends' = [sends EXCEPT ![f] = IF k = 0 THEN @ ELSE @ + 1]
                /\ UNCHANGED lost
           ELSE Loses(w) /\ UNCHANGED << sent, sends >>
    /\ Served(w)
    /\ peer' = [peer EXCEPT ![w] = NoEnd]
    /\ UNCHANGED << m_pair, tasks, port, conn, recvs, received, early >>

(* The next ServerMain task.                                               *)
NextServerMain(w) ==
    /\ Goes(w, "addmain", "idle")
    /\ tasks' = Append(tasks, "ServerMain")
    /\ UNCHANGED << m_pair, port, hand, peer, kernelVars, lost >>

-----------------------------------------------------------------------------
(* The kernel and the peers.                                               *)

Completes(e) ==
    /\ port' = Append(port, e)
    /\ UNCHANGED << m_pair, tasks, workerVars, sent, lost >>

(* A client connects.  Bound: two objects are left, for its pair and for   *)
(* the next Accept.                                                        *)
PeerConnects(e) ==
    /\ conn[e] = "armed"
    /\ Cardinality(Ends \ Used) \geq 2
    /\ conn' = [conn EXCEPT ![e] = "open"]
    /\ Completes(Completed("accept", e, 0, TRUE))
    /\ UNCHANGED << recvs, sends, received, early >>

(* The connection breaks before AcceptEx completes.                        *)
AcceptFails(e) ==
    /\ conn[e] = "armed"
    /\ conn' = [conn EXCEPT ![e] = "refused"]
    /\ Completes(Completed("accept", e, 0, FALSE))
    /\ UNCHANGED << recvs, sends, received, early >>

(* The back end takes the connection, refuses it, or does not answer.      *)
ConnectCompletes(e) ==
    /\ conn[e] = "connecting"
    /\ \/ /\ conn' = [conn EXCEPT ![e] = "open"]
          /\ early' = [early EXCEPT ![m_pair[e]] = received[m_pair[e]]]
          /\ Completes(Completed("connect", e, 0, TRUE))
       \/ /\ conn' = [conn EXCEPT ![e] = "refused"]
          /\ Completes(Completed("connect", e, 0, FALSE))
          /\ UNCHANGED early
    /\ UNCHANGED << recvs, sends, received >>

(* WSARecv completes with a chunk, with the end of the stream, or fails.   *)
RecvCompletes(e) ==
    /\ recvs[e] > 0
    /\ recvs' = [recvs EXCEPT ![e] = @ - 1]
    /\ \/ /\ conn[e] = "open"
          /\ received[e] < MaxPackets
          /\ received' = [received EXCEPT ![e] = @ + 1]
          /\ Completes(Completed("recv", e, received[e] + 1, TRUE))
       \/ /\ conn[e] \in {"eof", "reset"}
          /\ Completes(Completed("recv", e, 0, conn[e] = "eof"))
          /\ UNCHANGED received
    /\ UNCHANGED << conn, sends, early >>

SendCompletes(e) ==
    /\ sends[e] > 0
    /\ sends' = [sends EXCEPT ![e] = @ - 1]
    /\ Completes(Completed("send", e, 0, conn[e] # "reset"))
    /\ UNCHANGED << conn, recvs, received, early >>

PeerEnds(e) ==
    /\ \/ conn[e] = "open" /\ conn' = [conn EXCEPT ![e] = "eof"]
       \/ conn[e] \in {"open", "eof"} /\ conn' = [conn EXCEPT ![e] = "reset"]
    /\ UNCHANGED << m_pair, tasks, port, workerVars, recvs, sends, received,
                    sent, early, lost >>

-----------------------------------------------------------------------------
ServerMain(w) ==
    \/ GetCompletion(w)
    \/ NewAccept(w) \/ FirstRecvOfPair(w)
    \/ FirstRecv(w) \/ ClientConnected(w) \/ SetPair(w) \/ Connect(w)
    \/ Rearm(w) \/ Pair(w) \/ Send(w)
    \/ NextServerMain(w)

Worker(w) == TakeTask(w) \/ Accept(w) \/ ServerMain(w)

Kernel(e) == PeerConnects(e) \/ AcceptFails(e) \/ ConnectCompletes(e)
             \/ RecvCompletes(e) \/ SendCompletes(e) \/ PeerEnds(e)

Next == \/ \E w \in Workers : Worker(w)
        \/ \E e \in Ends : Kernel(e)

Spec == Init /\ [][Next]_vars

(* The threads of the pool run, and a ConnectEx ends, in the end.          *)
FairSpec ==
    /\ Spec
    /\ \A w \in Workers : WF_vars(Worker(w))
    /\ WF_vars(\E e \in Ends : ConnectCompletes(e))

-----------------------------------------------------------------------------
(* PROPERTIES                                                              *)

(* What keeps the relay accepting goes from the Accept task to the client  *)
(* that connects, from there to the connection to the back end, and back   *)
(* to an Accept task: where it is at the moment.                           *)
AcceptTasks == {i \in 1 .. Len(tasks) : tasks[i] = "Accept"}
AcceptWorkers == {w \in Workers : worker[w] \in {"accept", "newaccept", "setpair", "connect"}}
Greeting == {w \in Workers : /\ worker[w] \in {"firstrecv4", "connected"}
                             /\ m_pair[hand[w].end] = NoEnd}
Pending == {e \in Ends : conn[e] \in {"armed", "connecting"}}
Done == {i \in 1 .. Len(port) : port[i].type \in {"accept", "connect"} /\ port[i].ok}

AcceptTokens == ({"task"} \X AcceptTasks) \cup ({"worker"} \X AcceptWorkers)
                \cup ({"greets"} \X Greeting) \cup ({"kernel"} \X Pending)
                \cup ({"port"} \X Done)

(* Never is there more than one, so clients are taken one by one, each     *)
(* after the one before has its connection to the back end; and when one   *)
(* such connection, or one accept, fails, the relay accepts nobody else.   *)
OneAccept ==
    /\ \A x, y \in AcceptTokens : x = y
    /\ AcceptTokens = {} <=> \E e \in Ends : conn[e] = "refused"

(* Pairs are mutual, but for the moment in which ClientConnected sets      *)
(* them: no two clients share a connection to the back end, and neither    *)
(* end of a pair is given a second one.                                    *)
PairsMutual ==
    \A e \in Ends : m_pair[e] # NoEnd =>
        \/ m_pair[m_pair[e]] = e
        \/ \E w \in Workers : worker[w] = "setpair" /\ peer[w] = e

(* Chunks of e that were sent on.                                          *)
SentOf(e) == {sent[m_pair[e]][i] : i \in DOMAIN sent[m_pair[e]]}

PassedOn(e) == IF m_pair[e] = NoEnd THEN {} ELSE SentOf(e)

(* Each chunk is sent on at most once; one gets lost only if its receiver  *)
(* has reset the connection, refused it, or was not connected yet when the *)
(* chunk arrived.  What the back end answers, for one, is lost only to a   *)
(* client that is gone.                                                    *)
ForwardedOnce ==
    \A e \in Ends :
        /\ m_pair[e] # NoEnd => Len(sent[m_pair[e]]) = Cardinality(SentOf(e))
        /\ lost[e] \cap PassedOn(e) = {}
        /\ \A f \in Ends : m_pair[f] = e /\ conn[f] \in {"open", "eof"} =>
               lost[e] \subseteq 1 .. early[e]

(* Chunks overtake each other on their way to the pair; at most nCpuCount  *)
(* - 2 of them are late at a time.                                         *)
ReorderBounded ==
    \A e \in Ends : \A k \in PassedOn(e) :
        Cardinality((1 .. k - 1) \ (PassedOn(e) \cup lost[e])) \leq nCpuCount - 2

(* Everything is passed on, once and nearly in order.                      *)
DeliveredOnce == ForwardedOnce /\ ReorderBounded

(* After each client the relay waits for the next one, or has met a        *)
(* failure, however long other ends keep the workers busy.                 *)
Waiting == \E e \in Ends : conn[e] \in {"armed", "refused"}

AcceptsAgain == \A e \in Ends : conn[e] = "open" ~> Waiting

(* Every chunk that arrived is sent on, or lost for one of the reasons     *)
(* ForwardedOnce names.                                                    *)
ChunkForwarded ==
    \A e \in Ends, k \in 1 .. MaxPackets :
        received[e] \geq k ~> k \in PassedOn(e) \cup lost[e]
=============================================================================
