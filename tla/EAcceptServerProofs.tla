------------------------- MODULE EAcceptServerProofs -------------------------
(***************************************************************************)
(* Proofs about module EAcceptServer, for any number of ends, workers and  *)
(* chunks: its invariants.  RInv says what is in hand and on its way       *)
(* (TInv), of which ends it is and how ends are paired (Pairing), and      *)
(* where the one right to accept is (Tokens).  RelayInv, the inductive     *)
(* invariant, adds where the right to receive from an end is (RecvInv),    *)
(* in which one place each chunk is (PlacesInv), that none is sent twice   *)
(* or sent and lost (OnceInv), and how many ServerMains there are          *)
(* (MainInv), which bounds how many chunks can be late.                    *)
(***************************************************************************)
EXTENDS EAcceptServer, QueueLemmas, FiniteSetTheorems, TLAPS

LEMMA CpuCount == nCpuCount \in Nat \ {0} /\ MaxPackets \in Nat /\ MaxEnds \in Nat
BY RelayAssumption, FS_CardinalityType, FS_EmptySet DEF nCpuCount

LEMMA CompletionTypes ==
    \A type \in {"connect", "recv", "send", "accept"}, e \in Ends, k \in 0 .. MaxPackets,
       ok \in BOOLEAN : Completed(type, e, k, ok) \in Completion
BY DEF Completed, Completion

-----------------------------------------------------------------------------
(* Type correctness.                                                       *)

Hands == [end : Ends \cup {NoEnd}, packet : 0 .. MaxPackets]

(* While a worker serves a completion it holds the end it belongs to.      *)
InServerMain == {"newaccept", "firstrecv1", "rearm", "pair", "send"} \cup InCase4

Holds ==
    \A w \in Workers :
        /\ worker[w] \in InServerMain => hand[w].end \in Ends
        /\ worker[w] \in {"setpair", "connect", "send"} => peer[w] \in Ends

TInv == TypeOK /\ Holds

LEMMA GoesType ==
    ASSUME TypeOK, NEW w \in Workers, NEW from, NEW to \in WorkerPlaces, Goes(w, from, to)
    PROVE  worker' \in [Workers -> WorkerPlaces]
BY DEF TypeOK, Goes

LEMMA NothingType == Nothing \in Hands /\ 0 \in 0 .. MaxPackets
BY CpuCount DEF Nothing, Hands

LEMMA RecvType ==
    ASSUME TypeOK, NEW e, Recv(e)
    PROVE  recvs' \in [Ends -> Nat]
<1> DEFINE n == IF conn[e] = "reset" THEN recvs[e] ELSE recvs[e] + 1
<1>1. recvs' = [recvs EXCEPT ![e] = n] /\ recvs \in [Ends -> Nat]
  BY DEF TypeOK, Recv
<1>2. ASSUME e \in Ends PROVE n \in Nat
  BY <1>1, <1>2
<1> HIDE DEF n
<1> QED BY <1>1, <1>2

LEMMA LosesType ==
    ASSUME TypeOK, NEW w \in Workers, {hand[w].packet} \ {0} \subseteq 1 .. MaxPackets,
           Loses(w) \/ UNCHANGED lost
    PROVE  lost' \in [Ends -> SUBSET (1 .. MaxPackets)]
<1> DEFINE K == {hand[w].packet} \ {0}
           e == hand[w].end
<1>1. lost' = lost \/ lost' = [lost EXCEPT ![e] = @ \cup K]
  BY DEF Loses
<1> HIDE DEF K, e
<1> QED BY <1>1 DEF TypeOK, K

LEMMA WorkerType == ASSUME TInv, NEW w \in Workers, Worker(w) PROVE TypeOK'
<1> USE DEF WorkerPlaces, InCase4, InServerMain, kernelVars
<1>0. TypeOK
  BY DEF TInv
<1>1. CASE TakeTask(w)
  <2>1. tasks' \in Seq({"Accept", "ServerMain"})
    BY <1>0, <1>1, TailQueue DEF TypeOK, TakeTask
  <2> QED BY <1>1, <2>1, <1>0, GoesType DEF TypeOK, TakeTask
<1>2. CASE Accept(w)
  <2>1. conn' \in [Ends -> Connections]
    BY <1>0, <1>2 DEF TypeOK, Accept, Connections
  <2>2. worker' \in [Workers -> WorkerPlaces]
    BY <1>0, <1>2, GoesType DEF TypeOK, Accept
  <2> QED BY <1>2, <2>1, <2>2, <1>0 DEF TypeOK, Accept
<1>3. CASE GetCompletion(w)
  <2>1. port' \in Seq(Completion) /\ Head(port) \in Completion
    BY <1>0, <1>3, TailQueue DEF TypeOK, GetCompletion
  <2>2. Serves(Head(port)) \in {"addmain", "newaccept", "rearm", "firstrecv4"}
    BY DEF Serves
  <2>3. hand' \in [Workers -> Hands]
    BY <1>0, <1>3, <2>1, NothingType DEF TypeOK, GetCompletion, Completion, Hands
  <2> QED BY <1>3, <2>1, <2>2, <2>3, <1>0, GoesType DEF TypeOK, GetCompletion, Hands
<1>4. CASE NewAccept(w)
  BY <1>4, <1>0, GoesType, AppendQueue DEF TypeOK, NewAccept
<1>5. CASE FirstRecvOfPair(w) \/ FirstRecv(w) \/ Rearm(w)
  <2>1. recvs' \in [Ends -> Nat]
    BY <1>5, <1>0, RecvType DEF FirstRecvOfPair, FirstRecv, Rearm
  <2> QED BY <1>5, <2>1, <1>0, GoesType DEF TypeOK, FirstRecvOfPair, FirstRecv, Rearm
<1>6. CASE ClientConnected(w)
  <2>1. hand' \in [Workers -> Hands]
    BY <1>0, <1>6, NothingType DEF TypeOK, ClientConnected, Served, Hands
  <2>2. m_pair' \in [Ends -> Ends \cup {NoEnd}] /\ peer' \in [Workers -> Ends \cup {NoEnd}]
    BY <1>0, <1>6 DEF TypeOK, ClientConnected
  <2> QED BY <1>6, <2>1, <2>2, <1>0, GoesType DEF TypeOK, ClientConnected, Hands
<1>7. CASE SetPair(w)
  <2>1. peer[w] \in Ends
    BY <1>7 DEF TInv, Holds, SetPair, Goes
  <2>2. m_pair' \in [Ends -> Ends \cup {NoEnd}]
    BY <1>0, <1>7, <2>1 DEF TypeOK, SetPair
  <2> QED BY <1>7, <2>2, <1>0, GoesType DEF TypeOK, SetPair
<1>8. CASE Connect(w)
  <2>1. hand' \in [Workers -> Hands]
    BY <1>0, <1>8, NothingType DEF TypeOK, Connect, Served, Hands
  <2>2. conn' \in [Ends -> Connections]
    BY <1>0, <1>8 DEF TypeOK, Connect, Connections
  <2> QED BY <1>8, <2>1, <2>2, <1>0, GoesType DEF TypeOK, Connect, Hands
<1>9. CASE Pair(w)
  <2>1. hand' \in [Workers -> Hands]
    BY <1>9, NothingType DEF TInv, TypeOK, Pair, Served, Hands
  <2>2. peer' \in [Workers -> Ends \cup {NoEnd}]
    BY <1>9 DEF TInv, Holds, TypeOK, Pair, Goes
  <2>3. lost' \in [Ends -> SUBSET (1 .. MaxPackets)]
    <3>1. hand[w].packet \in 0 .. MaxPackets
      BY DEF TInv, TypeOK
    <3>2. {hand[w].packet} \ {0} \subseteq 1 .. MaxPackets
      BY <3>1, CpuCount
    <3> QED BY <1>0, <1>9, <3>2, LosesType DEF TypeOK, Pair
  <2> QED BY <1>0, <1>9, <2>1, <2>2, <2>3, GoesType DEF TypeOK, Pair, Hands
<1>10. CASE Send(w)
  <2> DEFINE f == peer[w]
             k == hand[w].packet
  <2>1. hand' \in [Workers -> Hands] /\ peer' \in [Workers -> Ends \cup {NoEnd}]
    BY <1>10, NothingType DEF TInv, TypeOK, Send, Served, Hands
  <2>2. k \in 0 .. MaxPackets /\ f \in Ends /\ {k} \ {0} \subseteq 1 .. MaxPackets
    BY <1>10, CpuCount DEF TInv, TypeOK, Holds, Send, Goes
  <2>3. lost' \in [Ends -> SUBSET (1 .. MaxPackets)]
    BY <1>0, <1>10, <2>2, LosesType DEF TypeOK, Send
  <2>4. sent' \in [Ends -> Seq(1 .. MaxPackets)] /\ sends' \in [Ends -> Nat]
    <3>1. k # 0 => Append(sent[f], k) \in Seq(1 .. MaxPackets)
      BY <2>2, AppendQueue DEF TInv, TypeOK
    <3>2. sends[f] + 1 \in Nat
      BY <2>2 DEF TInv, TypeOK
    <3>3. sent \in [Ends -> Seq(1 .. MaxPackets)] /\ sends \in [Ends -> Nat]
      BY DEF TInv, TypeOK
    <3>4. CASE k = 0 \/ conn[f] \notin {"open", "eof"}
      BY <1>10, <3>3, <3>4 DEF Send
    <3>5. CASE k # 0 /\ conn[f] \in {"open", "eof"}
      <4>1. sent' = [sent EXCEPT ![f] = Append(@, k)] /\ sends' = [sends EXCEPT ![f] = @ + 1]
        BY <1>10, <3>5 DEF Send
      <4> HIDE DEF f, k
      <4> QED BY <3>1, <3>2, <3>3, <3>5, <4>1
    <3> QED BY <3>4, <3>5
  <2> QED BY <1>0, <1>10, <2>1, <2>3, <2>4, GoesType DEF TypeOK, Send, Hands
<1>11. CASE NextServerMain(w)
  BY <1>0, <1>11, GoesType, AppendQueue DEF TypeOK, NextServerMain, Goes
<1> QED BY <1>1, <1>2, <1>3, <1>4, <1>5, <1>6, <1>7, <1>8, <1>9, <1>10, <1>11
        DEF Worker, ServerMain

LEMMA HoldsGoes ==
    ASSUME TInv, NEW w \in Workers, NEW from, NEW to \in WorkerPlaces, Goes(w, from, to),
           NEW h, NEW p, hand' = [hand EXCEPT ![w] = h], peer' = [peer EXCEPT ![w] = p],
           to \in InServerMain => h.end \in Ends,
           to \in {"setpair", "connect", "send"} => p \in Ends
    PROVE  Holds'
BY DEF TInv, TypeOK, Holds, Goes

LEMMA WorkerHolds == ASSUME TInv, NEW w \in Workers, Worker(w) PROVE Holds'
<1> USE DEF WorkerPlaces, InCase4, InServerMain, kernelVars
<1>1. /\ hand = [hand EXCEPT ![w] = hand[w]] /\ peer = [peer EXCEPT ![w] = peer[w]]
      /\ hand[w].end \in Ends \cup {NoEnd} /\ Holds
  BY DEF TInv, TypeOK
<1>2. ASSUME NEW from, NEW to \in WorkerPlaces, Goes(w, from, to), UNCHANGED << hand, peer >>,
             to \in InServerMain => from \in InServerMain,
             to \in {"setpair", "connect", "send"} => from \in {"setpair", "connect", "send"}
      PROVE  Holds'
  <2>1. /\ hand' = [hand EXCEPT ![w] = hand[w]] /\ peer' = [peer EXCEPT ![w] = peer[w]]
        /\ to \in InServerMain => hand[w].end \in Ends
        /\ to \in {"setpair", "connect", "send"} => peer[w] \in Ends
    BY <1>1, <1>2 DEF Holds, Goes
  <2> QED BY <1>2, <2>1, HoldsGoes
<1>3. ASSUME NEW from, NEW to \in {"idle", "addmain"}, NEW p, Goes(w, from, to), NEW h,
             hand' = [hand EXCEPT ![w] = h], peer' = [peer EXCEPT ![w] = p]
      PROVE  Holds'
  <2>1. to \in WorkerPlaces /\ to \notin InServerMain /\ to \notin {"setpair", "connect", "send"}
    OBVIOUS
  <2> QED BY <1>3, <2>1, HoldsGoes
<1>4. CASE TakeTask(w)
  <2>1. PICK to \in {"accept", "get"} : Goes(w, "idle", to)
    BY <1>4 DEF TakeTask
  <2> QED BY <1>2, <1>4, <2>1 DEF TakeTask
<1>5. CASE Accept(w)
  BY <1>2, <1>5 DEF Accept
<1>6. CASE NextServerMain(w)
  BY <1>2, <1>6 DEF NextServerMain
<1>7. CASE GetCompletion(w)
  <2>1. Head(port) \in Completion
    BY <1>7, TailQueue DEF TInv, TypeOK, GetCompletion
  <2>2. /\ Head(port).end \in Ends
        /\ Serves(Head(port)) \in {"addmain", "newaccept", "rearm", "firstrecv4"}
    BY <2>1 DEF Completion, Serves
  <2> DEFINE h == IF Serves(Head(port)) = "addmain" THEN Nothing
                  ELSE [end |-> Head(port).end, packet |-> Head(port).packet]
  <2>3. Serves(Head(port)) \in InServerMain => h.end \in Ends
    BY <2>2
  <2>4. /\ Goes(w, "get", Serves(Head(port))) /\ hand' = [hand EXCEPT ![w] = h]
        /\ peer' = [peer EXCEPT ![w] = peer[w]]
    BY <1>1, <1>7 DEF GetCompletion
  <2> HIDE DEF h
  <2> QED BY <2>2, <2>3, <2>4, HoldsGoes
<1>8. CASE NewAccept(w)
  BY <1>2, <1>8 DEF NewAccept
<1>9. CASE FirstRecvOfPair(w)
  BY <1>2, <1>9 DEF FirstRecvOfPair
<1>10. CASE FirstRecv(w)
  BY <1>2, <1>10 DEF FirstRecv
<1>11. CASE Rearm(w)
  BY <1>2, <1>11 DEF Rearm
<1>12. CASE SetPair(w)
  BY <1>2, <1>12 DEF SetPair
<1>13. CASE ClientConnected(w)
  <2>1. ASSUME NEW f \in Ends, Goes(w, "connected", "setpair"), UNCHANGED hand,
               peer' = [peer EXCEPT ![w] = f]
        PROVE  Holds'
    <3>1. hand' = [hand EXCEPT ![w] = hand[w]] /\ hand[w].end \in Ends
      BY <1>1, <2>1 DEF Holds, Goes
    <3> QED BY <2>1, <3>1, HoldsGoes
  <2>2. ASSUME Goes(w, "connected", "addmain"), Served(w), UNCHANGED peer
        PROVE  Holds'
    BY <1>1, <1>3, <2>2 DEF Served
  <2> QED BY <1>13, <2>1, <2>2 DEF ClientConnected
<1>14. CASE Connect(w)
  BY <1>3, <1>14 DEF Connect, Served
<1>15. CASE Send(w)
  BY <1>3, <1>15 DEF Send, Served
<1>16. CASE Pair(w)
  <2>1. ASSUME Goes(w, "pair", "send"), m_pair[hand[w].end] # NoEnd, UNCHANGED hand,
               peer' = [peer EXCEPT ![w] = m_pair[hand[w].end]]
        PROVE  Holds'
    <3>1. hand[w].end \in Ends /\ m_pair[hand[w].end] \in Ends
      BY <2>1 DEF TInv, TypeOK, Holds, Goes
    <3>2. hand' = [hand EXCEPT ![w] = hand[w]]
      BY <1>1, <2>1
    <3> QED BY <2>1, <3>1, <3>2, HoldsGoes
  <2>2. ASSUME Goes(w, "pair", "addmain"), Served(w), UNCHANGED peer
        PROVE  Holds'
    BY <1>1, <1>3, <2>2 DEF Served
  <2> QED BY <1>16, <2>1, <2>2 DEF Pair
<1> QED BY <1>4, <1>5, <1>6, <1>7, <1>8, <1>9, <1>10, <1>11, <1>12, <1>13, <1>14, <1>15, <1>16
        DEF Worker, ServerMain

LEMMA CompletesType ==
    ASSUME TypeOK, NEW e \in Completion, Completes(e)
    PROVE  port' \in Seq(Completion)
BY AppendQueue DEF TypeOK, Completes

LEMMA KernelType == ASSUME TInv, NEW e \in Ends, Kernel(e) PROVE TInv'
<1> USE DEF workerVars
<1>0. TypeOK
  BY DEF TInv
<1>1. UNCHANGED << worker, hand, peer, m_pair, tasks, sent, lost >>
  BY DEF Kernel, PeerConnects, AcceptFails, ConnectCompletes, RecvCompletes, SendCompletes,
         PeerEnds, Completes
<1>2. Holds'
  BY <1>1 DEF TInv, Holds
<1>3. CASE PeerConnects(e) \/ AcceptFails(e)
  <2>1. PICK ok \in BOOLEAN : Completes(Completed("accept", e, 0, ok))
    BY <1>3 DEF PeerConnects, AcceptFails
  <2>2. port' \in Seq(Completion)
    BY <1>0, <2>1, NothingType, CompletionTypes, CompletesType
  <2> QED BY <1>1, <1>2, <1>3, <2>2 DEF TInv, TypeOK, PeerConnects, AcceptFails, Connections
<1>4. CASE ConnectCompletes(e)
  <2>1. PICK ok \in BOOLEAN : Completes(Completed("connect", e, 0, ok))
    BY <1>4 DEF ConnectCompletes
  <2>2. port' \in Seq(Completion)
    BY <1>0, <2>1, NothingType, CompletionTypes, CompletesType
  <2>3. early' \in [Ends -> 0 .. MaxPackets]
    <3>1. m_pair[e] \in Ends => received[m_pair[e]] \in 0 .. MaxPackets
      BY DEF TInv, TypeOK
    <3> QED BY <1>4, <3>1 DEF TInv, TypeOK, ConnectCompletes
  <2> QED BY <1>1, <1>2, <1>4, <2>2, <2>3 DEF TInv, TypeOK, ConnectCompletes, Connections
<1>5. CASE RecvCompletes(e)
  <2>1. /\ (conn[e] = "eof") \in BOOLEAN
        /\ received[e] < MaxPackets => received[e] + 1 \in 0 .. MaxPackets
    BY CpuCount DEF TInv, TypeOK
  <2>2. \/ /\ received[e] + 1 \in 0 .. MaxPackets
           /\ received' = [received EXCEPT ![e] = received[e] + 1]
           /\ Completes(Completed("recv", e, received[e] + 1, TRUE))
        \/ /\ Completes(Completed("recv", e, 0, conn[e] = "eof"))
           /\ UNCHANGED received
    BY <1>5, <2>1 DEF RecvCompletes
  <2>3. port' \in Seq(Completion)
    <3>1. CASE /\ received[e] + 1 \in 0 .. MaxPackets
               /\ Completes(Completed("recv", e, received[e] + 1, TRUE))
      <4>1. Completed("recv", e, received[e] + 1, TRUE) \in Completion
        BY <3>1, CompletionTypes
      <4> QED BY <1>0, <3>1, <4>1, CompletesType
    <3>2. CASE Completes(Completed("recv", e, 0, conn[e] = "eof"))
      <4>1. Completed("recv", e, 0, conn[e] = "eof") \in Completion
        BY <2>1, NothingType, CompletionTypes
      <4> QED BY <1>0, <3>2, <4>1, CompletesType
    <3> QED BY <2>2, <3>1, <3>2
  <2>4. received' \in [Ends -> 0 .. MaxPackets]
    BY <2>2 DEF TInv, TypeOK
  <2>5. recvs' \in [Ends -> Nat]
    BY <1>5 DEF TInv, TypeOK, RecvCompletes
  <2> QED BY <1>1, <1>2, <1>5, <2>3, <2>4, <2>5 DEF TInv, TypeOK, RecvCompletes
<1>6. CASE SendCompletes(e)
  <2>1. (conn[e] # "reset") \in BOOLEAN
    OBVIOUS
  <2>2. port' \in Seq(Completion)
    <3>1. Completed("send", e, 0, conn[e] # "reset") \in Completion
      BY <2>1, NothingType, CompletionTypes
    <3> QED BY <1>0, <1>6, <3>1, CompletesType DEF SendCompletes
  <2>3. sends' \in [Ends -> Nat]
    BY <1>6 DEF TInv, TypeOK, SendCompletes
  <2> QED BY <1>1, <1>2, <1>6, <2>2, <2>3 DEF TInv, TypeOK, SendCompletes
<1>7. CASE PeerEnds(e)
  BY <1>1, <1>2, <1>7 DEF TInv, TypeOK, PeerEnds, Connections
<1> QED BY <1>3, <1>4, <1>5, <1>6, <1>7 DEF Kernel

LEMMA TypeNext == ASSUME TInv, [Next]_vars PROVE TInv'
<1>1. CASE Next
  BY <1>1, WorkerType, WorkerHolds, KernelType DEF Next, TInv
<1>2. CASE UNCHANGED vars
  BY <1>2 DEF vars, workerVars, kernelVars, TInv, TypeOK, Holds
<1> QED BY <1>1, <1>2

LEMMA TypeInit == Init => TInv
<1> SUFFICES ASSUME Init PROVE TInv
  OBVIOUS
<1>1. /\ << "Accept" >> \in Seq({"Accept", "ServerMain"})
      /\ [i \in 1 .. nCpuCount - 1 |-> "ServerMain"] \in Seq({"Accept", "ServerMain"})
  <2>1. nCpuCount - 1 \in Nat
    BY CpuCount
  <2> QED BY <2>1, SeqDef
<1>2. tasks \in Seq({"Accept", "ServerMain"})
  BY <1>1, ConcatProperties DEF Init
<1> QED BY <1>2, CpuCount, NothingType, EmptySeq
        DEF Init, TInv, TypeOK, Holds, Hands, Connections, WorkerPlaces, InServerMain, InCase4

(* Every variable of the relay keeps its type: ends stay below the bound,  *)
(* and only chunks of data are ever sent on.                               *)
THEOREM TypeCorrect == Spec => []TypeOK
<1>1. Spec => []TInv
  BY TypeInit, TypeNext, PTL DEF Spec
<1> QED BY <1>1, PTL DEF TInv

-----------------------------------------------------------------------------
(* Pairs.                                                                  *)
(*                                                                         *)
(* ClientConnected links the two ends in two steps, so PairsMutual alone   *)
(* is not inductive.  An end that is not connected yet, that is armed or   *)
(* that is being greeted has no pair; one that connects or has connected   *)
(* to the back end has one; and only ends whose socket is used are in      *)
(* anybody's hands, so that the object ClientConnected makes is nobody's.  *)

HandFits(w) ==
    /\ worker[w] \in InServerMain => conn[hand[w].end] # "new"
    /\ worker[w] \in {"firstrecv4", "setpair"} => m_pair[hand[w].end] = NoEnd
    /\ worker[w] \in {"newaccept", "firstrecv1"} => m_pair[hand[w].end] # NoEnd
    /\ worker[w] \in {"setpair", "connect"} => m_pair[peer[w]] = hand[w].end

PacketFits(p) ==
    /\ p.type # "send" => conn[p.end] # "new"
    /\ p.type = "accept" /\ p.ok => m_pair[p.end] = NoEnd
    /\ p.type = "connect" /\ p.ok => m_pair[p.end] # NoEnd

Making(w, e) == worker[w] \in {"setpair", "connect"} /\ peer[w] = e

EndFits(e) ==
    /\ conn[e] = "armed" => m_pair[e] = NoEnd
    /\ conn[e] = "connecting" => m_pair[e] # NoEnd
    /\ conn[e] = "new" /\ m_pair[e] # NoEnd => \E w \in Workers : Making(w, e)

Pairing ==
    /\ \A w \in Workers : HandFits(w)
    /\ \A p \in Packets(port) : PacketFits(p)
    /\ \A e \in Ends : EndFits(e)
    /\ PairsMutual

-----------------------------------------------------------------------------
(* What keeps the relay accepting.  The right to accept is in one of four  *)
(* places, and in none once it was lost to a failure.                      *)

Bearers == AcceptWorkers \cup Greeting

Exclusive ==
    /\ AtMostOneOf(AcceptTasks) /\ AtMostOneOf(Bearers)
    /\ AtMostOneOf(Pending) /\ AtMostOneOf(Done)
    /\ AcceptTasks # {} => Bearers = {} /\ Pending = {} /\ Done = {}
    /\ Bearers # {} => Pending = {} /\ Done = {}
    /\ Pending # {} => Done = {}

NoToken == AcceptTasks = {} /\ Bearers = {} /\ Pending = {} /\ Done = {}

Refused == \E e \in Ends : conn[e] = "refused"

Tokens == Exclusive /\ (NoToken <=> Refused)

RInv == TInv /\ Pairing /\ Tokens

(* The completions that hand the right to accept to a worker.              *)
Passing == {p \in Completion : p.type \in {"accept", "connect"} /\ p.ok}

LEMMA TokenQueues ==
    ASSUME TypeOK, TypeOK'
    PROVE  /\ AcceptTasks = Where(tasks, {"Accept"}) /\ Done = Where(port, Passing)
           /\ AcceptTasks' = Where(tasks', {"Accept"}) /\ Done' = Where(port', Passing)
<1>1. /\ \A i \in 1 .. Len(port) : port[i] \in Completion
      /\ \A i \in 1 .. Len(port') : port'[i] \in Completion
  BY LenProperties, ElementOfSeq DEF TypeOK
<1> QED BY <1>1 DEF AcceptTasks, Done, Where, Passing

LEMMA NewAcceptTask ==
    ASSUME TypeOK, TypeOK', NEW t \in {"Accept", "ServerMain"}, tasks' = Append(tasks, t)
    PROVE  /\ t = "ServerMain" => AcceptTasks' = AcceptTasks
           /\ t = "Accept" => AcceptTasks' # {} /\ (AcceptTasks = {} => AtMostOneOf(AcceptTasks'))
<1>1. AcceptTasks = Where(tasks, {"Accept"}) /\ AcceptTasks' = Where(tasks', {"Accept"})
  BY TokenQueues
<1>2. tasks \in Seq({"Accept", "ServerMain"})
  BY DEF TypeOK
<1> QED BY <1>1, <1>2, AppendWhere

LEMMA TakenTask ==
    ASSUME TypeOK, TypeOK', AtMostOneOf(AcceptTasks), tasks # << >>, tasks' = Tail(tasks)
    PROVE  /\ AtMostOneOf(AcceptTasks')
           /\ Head(tasks) = "Accept" => AcceptTasks # {} /\ AcceptTasks' = {}
           /\ Head(tasks) # "Accept" => (AcceptTasks' = {} <=> AcceptTasks = {})
<1>1. AcceptTasks = Where(tasks, {"Accept"}) /\ AcceptTasks' = Where(tasks', {"Accept"})
  BY TokenQueues
<1>2. tasks \in Seq({"Accept", "ServerMain"})
  BY DEF TypeOK
<1> QED BY <1>1, <1>2, TailWhere

LEMMA NewPacket ==
    ASSUME TypeOK, TypeOK', NEW p \in Completion, port' = Append(port, p)
    PROVE  /\ Packets(port') = Packets(port) \cup {p}
           /\ p \notin Passing => Done' = Done
           /\ p \in Passing => Done' # {} /\ (Done = {} => AtMostOneOf(Done'))
<1>1. Done = Where(port, Passing) /\ Done' = Where(port', Passing)
  BY TokenQueues
<1>2. port \in Seq(Completion)
  BY DEF TypeOK
<1>3. Packets(port') = Packets(port) \cup {p}
  BY <1>2, AppendPackets
<1> QED BY <1>1, <1>2, <1>3, AppendWhere

LEMMA TakenPacket ==
    ASSUME TypeOK, TypeOK', AtMostOneOf(Done), port # << >>, port' = Tail(port)
    PROVE  /\ Head(port) \in Completion
           /\ Packets(port) = Packets(port') \cup {Head(port)}
           /\ AtMostOneOf(Done')
           /\ Head(port) \in Passing => Done # {} /\ Done' = {}
           /\ Head(port) \notin Passing => (Done' = {} <=> Done = {})
<1>1. Done = Where(port, Passing) /\ Done' = Where(port', Passing)
  BY TokenQueues
<1>2. port \in Seq(Completion)
  BY DEF TypeOK
<1>3. Packets(port) = Packets(port') \cup {Head(port)} /\ Head(port) \in Completion
  BY <1>2, TailPackets, TailQueue
<1> QED BY <1>1, <1>2, <1>3, TailWhere

(* The tasks Start has queued.                                             *)
LEMMA InitTasks ==
    ASSUME Init
    PROVE  /\ Len(tasks) = nCpuCount - 1 + 1
           /\ \A i \in 1 .. nCpuCount - 1 + 1 : tasks[i] = IF i = 1 THEN "Accept" ELSE "ServerMain"
<1> DEFINE n == nCpuCount - 1
           mains == [i \in 1 .. n |-> "ServerMain"]
<1>1. n \in Nat /\ tasks = << "Accept" >> \o mains
  BY CpuCount DEF Init
<1>2. mains \in Seq({"ServerMain"}) /\ Len(mains) = n
  BY <1>1, SeqDef, LenProperties
<1>3. \A i \in 1 .. n : mains[i] = "ServerMain"
  OBVIOUS
<1> HIDE DEF mains, n
<1>4. << "Accept" >> \in Seq({"Accept", "ServerMain"}) /\ mains \in Seq({"Accept", "ServerMain"})
  BY <1>2, SeqMonotonic
<1>5. /\ Len(tasks) = 1 + Len(mains)
      /\ \A i \in 1 .. Len(tasks) : tasks[i] = IF i <= 1 THEN << "Accept" >>[i] ELSE mains[i - 1]
  BY <1>1, <1>4, ConcatProperties
<1>6. Len(tasks) = n + 1 /\ \A i \in 1 .. n + 1 : tasks[i] = IF i = 1 THEN "Accept" ELSE "ServerMain"
  BY <1>1, <1>2, <1>3, <1>5
<1> QED BY <1>6 DEF n

LEMMA InitRelay == Init => Pairing /\ Tokens
<1> SUFFICES ASSUME Init PROVE Pairing /\ Tokens
  OBVIOUS
<1>1. /\ port = << >> /\ worker = [w \in Workers |-> "idle"]
      /\ m_pair = [e \in Ends |-> NoEnd] /\ conn = [e \in Ends |-> "new"]
  BY DEF Init
<1>2. AcceptTasks = {1}
  BY InitTasks, CpuCount DEF AcceptTasks
<1>3. Bearers = {} /\ Pending = {} /\ ~Refused /\ Done = {}
  BY <1>1 DEF Bearers, AcceptWorkers, Greeting, Pending, Refused, Done
<1>4. Packets(port) = {}
  BY <1>1 DEF Packets
<1> QED BY <1>1, <1>2, <1>3, <1>4
        DEF Pairing, HandFits, EndFits, PairsMutual, InServerMain, InCase4, Tokens, Exclusive,
            NoToken, AtMostOneOf

LEMMA PacketTypes == ASSUME TypeOK, NEW p \in Packets(port) PROVE p \in Completion
BY ElementOfSeq, LenProperties DEF TypeOK, Packets

(* A worker moves, and the ends and their pairs do not.                    *)
LEMMA OthersFit ==
    ASSUME RInv, NEW w \in Workers, NEW from, NEW to, Goes(w, from, to),
           from \notin {"setpair", "connect"},
           UNCHANGED << m_pair, conn >>, Packets(port') \subseteq Packets(port),
           \A v \in Workers \ {w} : hand'[v] = hand[v] /\ peer'[v] = peer[v],
           HandFits(w)'
    PROVE  Pairing'
<1>1. Pairing /\ TypeOK
  BY DEF RInv, TInv
<1>2. \A v \in Workers \ {w} : worker'[v] = worker[v]
  BY <1>1 DEF TypeOK, Goes
<1>3. \A v \in Workers : HandFits(v)'
  <2> SUFFICES ASSUME NEW v \in Workers \ {w} PROVE HandFits(v)'
    OBVIOUS
  <2>1. HandFits(v)
    BY <1>1 DEF Pairing
  <2> QED BY <1>2, <2>1 DEF HandFits
<1>4. \A v \in Workers, e \in Ends : Making(v, e) => Making(v, e)' /\ worker'[v] = worker[v]
  BY <1>2 DEF Making, Goes
<1>5. \A e \in Ends : EndFits(e)'
  <2> SUFFICES ASSUME NEW e \in Ends PROVE EndFits(e)'
    OBVIOUS
  <2>1. EndFits(e)
    BY <1>1 DEF Pairing
  <2> QED BY <1>4, <2>1 DEF EndFits
<1>6. \A p \in Packets(port') : PacketFits(p)'
  <2> SUFFICES ASSUME NEW p \in Packets(port') PROVE PacketFits(p)'
    OBVIOUS
  <2>1. PacketFits(p)
    BY <1>1 DEF Pairing
  <2> QED BY <2>1 DEF PacketFits
<1>7. PairsMutual'
  <2>1. PairsMutual
    BY <1>1 DEF Pairing
  <2> QED BY <1>4, <2>1 DEF PairsMutual, Making
<1> QED BY <1>3, <1>5, <1>6, <1>7 DEF Pairing

(* The connection of an end changes, and no pair does.                     *)
LEMMA EndMoves ==
    ASSUME RInv, NEW e \in Ends, NEW c, conn' = [conn EXCEPT ![e] = c], UNCHANGED m_pair,
           c # "new", c = "armed" => m_pair[e] = NoEnd, c = "connecting" => m_pair[e] # NoEnd,
           \A p \in Packets(port') : PacketFits(p)',
           \A v \in Workers : HandFits(v)',
           \A v \in Workers, f \in Ends : Making(v, f) => Making(v, f)' \/ f = e,
           \A v \in Workers : worker[v] = "setpair" => worker'[v] = "setpair" /\ peer'[v] = peer[v]
    PROVE  Pairing'
<1>1. Pairing /\ TypeOK
  BY DEF RInv, TInv
<1>2. conn'[e] = c /\ \A f \in Ends \ {e} : conn'[f] = conn[f]
  BY <1>1 DEF TypeOK
<1>3. \A f \in Ends : EndFits(f)'
  <2> SUFFICES ASSUME NEW f \in Ends PROVE EndFits(f)'
    OBVIOUS
  <2>1. EndFits(f)
    BY <1>1 DEF Pairing
  <2> QED BY <1>2, <2>1 DEF EndFits
<1>4. PairsMutual'
  <2>1. PairsMutual
    BY <1>1 DEF Pairing
  <2> QED BY <2>1 DEF PairsMutual
<1> QED BY <1>3, <1>4 DEF Pairing

(* An object that has not been made is nobody's pair and has none.         *)
LEMMA NewIsAlone ==
    ASSUME RInv, NEW e \in Ends, IsNew(e)
    PROVE  conn[e] = "new" /\ m_pair[e] = NoEnd /\ \A w \in Workers : peer[w] # e
<1>1. conn[e] = "new" /\ \A w \in Workers : peer[w] # e
  BY DEF IsNew, Used
<1>2. EndFits(e)
  BY DEF RInv, Pairing
<1> QED BY <1>1, <1>2 DEF EndFits, Making

LEMMA AcceptPairs == ASSUME RInv, NEW w \in Workers, Accept(w) PROVE Pairing'
<1>1. PICK e \in Ends, c \in {"armed", "refused"} : IsNew(e) /\ conn' = [conn EXCEPT ![e] = c]
  BY DEF Accept
<1>2. /\ UNCHANGED << m_pair, port, hand, peer >> /\ Goes(w, "accept", "idle")
      /\ Pairing /\ TypeOK
  BY DEF Accept, RInv, TInv
<1>3. m_pair[e] = NoEnd
  BY <1>1, NewIsAlone
<1>4. \A f \in Ends \cup {NoEnd} : conn[f] # "new" => conn'[f] # "new"
  BY <1>1, <1>2 DEF TypeOK
<1>5. \A v \in Workers \ {w} : worker'[v] = worker[v]
  BY <1>2 DEF TypeOK, Goes
<1>6. worker[w] = "accept" /\ worker'[w] = "idle"
  BY <1>2 DEF TypeOK, Goes
<1>7. \A v \in Workers : HandFits(v)'
  <2> SUFFICES ASSUME NEW v \in Workers PROVE HandFits(v)'
    OBVIOUS
  <2>1. HandFits(v) /\ hand[v].end \in Ends \cup {NoEnd}
    BY <1>2 DEF Pairing, TypeOK
  <2> QED BY <1>2, <1>4, <1>5, <1>6, <2>1 DEF HandFits, InServerMain, InCase4
<1>8. \A p \in Packets(port') : PacketFits(p)'
  <2> SUFFICES ASSUME NEW p \in Packets(port) PROVE PacketFits(p)'
    BY <1>2 DEF Packets
  <2>1. PacketFits(p) /\ p.end \in Ends
    BY <1>2, PacketTypes DEF Pairing, Completion
  <2> QED BY <1>2, <1>4, <2>1 DEF PacketFits
<1>9. \A v \in Workers, f \in Ends : Making(v, f) => Making(v, f)'
  BY <1>2, <1>5, <1>6 DEF Making
<1>10. \A v \in Workers : worker[v] = "setpair" => worker'[v] = "setpair" /\ peer'[v] = peer[v]
  BY <1>2, <1>5, <1>6
<1> QED BY <1>1, <1>2, <1>3, <1>7, <1>8, <1>9, <1>10, EndMoves

LEMMA GetPairs == ASSUME RInv, TInv', NEW w \in Workers, GetCompletion(w) PROVE Pairing'
<1> DEFINE p == Head(port)
<1>1. /\ port # << >> /\ port' = Tail(port) /\ Goes(w, "get", Serves(p))
      /\ hand' = [hand EXCEPT ![w] = IF Serves(p) = "addmain" THEN Nothing
                                     ELSE [end |-> p.end, packet |-> p.packet]]
      /\ UNCHANGED << m_pair, conn, peer >>
  BY DEF GetCompletion, kernelVars
<1>2. Pairing /\ TypeOK /\ TypeOK' /\ AtMostOneOf(Done)
  BY DEF RInv, TInv, Tokens, Exclusive
<1>3. p \in Completion /\ Packets(port) = Packets(port') \cup {p}
  BY <1>1, <1>2, TakenPacket
<1>4. PacketFits(p)
  BY <1>2, <1>3 DEF Pairing
<1>5. HandFits(w)'
  <2>1. worker'[w] = Serves(p)
    BY <1>1, <1>2 DEF TypeOK, Goes
  <2>2. Serves(p) # "addmain" => hand'[w].end = p.end
    BY <1>1, <1>2 DEF TypeOK
  <2>3. \/ Serves(p) = "addmain"
        \/ Serves(p) = "newaccept" /\ p.ok /\ p.type = "connect"
        \/ Serves(p) = "rearm" /\ p.ok /\ p.type = "recv"
        \/ Serves(p) = "firstrecv4" /\ p.ok /\ p.type = "accept"
    BY <1>3 DEF Serves, Completion
  <2> QED BY <1>1, <1>4, <2>1, <2>2, <2>3 DEF HandFits, PacketFits, InServerMain, InCase4
<1>6. \A v \in Workers \ {w} : hand'[v] = hand[v] /\ peer'[v] = peer[v]
  BY <1>1, <1>2 DEF TypeOK
<1> HIDE DEF p
<1> QED BY <1>1, <1>3, <1>5, <1>6, OthersFit

(* The moves of a worker that touch neither the ends nor the port.         *)
LEMMA MovePairs ==
    ASSUME RInv, NEW w \in Workers,
           TakeTask(w) \/ NewAccept(w) \/ FirstRecvOfPair(w) \/ FirstRecv(w) \/ Rearm(w)
               \/ Pair(w) \/ Send(w) \/ NextServerMain(w)
               \/ (ClientConnected(w) /\ Goes(w, "connected", "addmain"))
    PROVE  Pairing'
<1>1. Pairing /\ TypeOK /\ HandFits(w)
  BY DEF RInv, TInv, Pairing
<1>2. UNCHANGED << m_pair, conn, port >>
  BY <1>1 DEF TakeTask, NewAccept, FirstRecvOfPair, FirstRecv, Rearm, Pair, Send, NextServerMain,
         ClientConnected, kernelVars, Goes, TypeOK
<1>3. \A v \in Workers \ {w} : hand'[v] = hand[v] /\ peer'[v] = peer[v]
  BY <1>1 DEF TakeTask, NewAccept, FirstRecvOfPair, FirstRecv, Rearm, Pair, Send, NextServerMain,
         ClientConnected, Served, TypeOK, Goes
<1>4. Packets(port') \subseteq Packets(port)
  BY <1>2 DEF Packets
<1>5. ASSUME NEW from, NEW to, Goes(w, from, to), from \notin {"setpair", "connect"},
             \/ to \notin InServerMain
             \/ /\ UNCHANGED hand /\ from \in InServerMain
                /\ to \notin {"firstrecv4", "setpair", "newaccept", "connect"}
                /\ to = "firstrecv1" => from = "newaccept"
      PROVE  Pairing'
  <2>1. worker'[w] = to /\ worker[w] = from
    BY <1>1, <1>5 DEF TypeOK, Goes
  <2>2. CASE to \notin InServerMain
    <3>1. HandFits(w)'
      BY <2>1, <2>2 DEF HandFits, InServerMain, InCase4
    <3> QED BY <1>2, <1>3, <1>4, <1>5, <3>1, OthersFit
  <2>3. CASE /\ UNCHANGED hand /\ from \in InServerMain
             /\ to \notin {"firstrecv4", "setpair", "newaccept", "connect"}
             /\ to = "firstrecv1" => from = "newaccept"
    <3>1. HandFits(w)'
      BY <1>1, <1>2, <2>1, <2>3 DEF HandFits
    <3> QED BY <1>2, <1>3, <1>4, <1>5, <3>1, OthersFit
  <2> QED BY <1>5, <2>2, <2>3
<1> USE DEF InServerMain, InCase4
<1>6. CASE TakeTask(w)
  <2>1. PICK to \in {"accept", "get"} : Goes(w, "idle", to)
    BY <1>6 DEF TakeTask
  <2> QED BY <1>5, <2>1
<1>7. CASE NewAccept(w)
  BY <1>5, <1>7 DEF NewAccept
<1>8. CASE FirstRecvOfPair(w)
  BY <1>5, <1>8 DEF FirstRecvOfPair
<1>9. CASE FirstRecv(w)
  BY <1>5, <1>9 DEF FirstRecv
<1>10. CASE Rearm(w)
  BY <1>5, <1>10 DEF Rearm
<1>11. CASE Pair(w)
  <2>1. (Goes(w, "pair", "send") /\ UNCHANGED hand) \/ Goes(w, "pair", "addmain")
    BY <1>11 DEF Pair
  <2> QED BY <1>5, <2>1
<1>12. CASE Send(w)
  BY <1>5, <1>12 DEF Send
<1>13. CASE NextServerMain(w)
  BY <1>5, <1>13 DEF NextServerMain
<1>14. CASE Goes(w, "connected", "addmain")
  BY <1>5, <1>14
<1> QED BY <1>6, <1>7, <1>8, <1>9, <1>10, <1>11, <1>12, <1>13, <1>14

(* ClientConnected makes the pair of an end.                               *)
LEMMA MakePairs ==
    ASSUME RInv, NEW w \in Workers, ClientConnected(w), Goes(w, "connected", "setpair")
    PROVE  Pairing'
<1> DEFINE a == hand[w].end
<1>1. Pairing /\ TypeOK /\ Holds
  BY DEF RInv, TInv
<1>2. /\ worker[w] = "connected" /\ worker'[w] = "setpair"
      /\ \A v \in Workers \ {w} : worker'[v] = worker[v]
  BY <1>1 DEF TypeOK, Goes
<1>3. /\ m_pair[a] = NoEnd /\ UNCHANGED << port, conn, hand >>
      /\ \E f \in Ends : /\ IsNew(f)
                         /\ peer' = [peer EXCEPT ![w] = f]
                         /\ m_pair' = [m_pair EXCEPT ![f] = a]
  BY <1>2 DEF ClientConnected, Goes, kernelVars
<1>4. PICK f \in Ends : /\ IsNew(f)
                        /\ peer' = [peer EXCEPT ![w] = f]
                        /\ m_pair' = [m_pair EXCEPT ![f] = a]
  BY <1>3
<1>5. conn[f] = "new" /\ m_pair[f] = NoEnd /\ \A v \in Workers : peer[v] # f
  BY <1>4, NewIsAlone
<1>6. a \in Ends /\ conn[a] # "new" /\ a # f
  BY <1>1, <1>2, <1>5 DEF Holds, Pairing, HandFits, InServerMain, InCase4
<1>7. /\ m_pair'[f] = a /\ \A e \in Ends \ {f} : m_pair'[e] = m_pair[e]
      /\ peer'[w] = f /\ \A v \in Workers \ {w} : peer'[v] = peer[v]
  BY <1>1, <1>4 DEF TypeOK
<1> HIDE DEF a
<1>8. \A v \in Workers : HandFits(v)'
  <2>1. HandFits(w)'
    BY <1>2, <1>3, <1>6, <1>7 DEF HandFits, a
  <2>2. ASSUME NEW v \in Workers \ {w} PROVE HandFits(v)'
    <3>1. /\ HandFits(v)
          /\ worker[v] \in InServerMain => hand[v].end \in Ends \ {f}
          /\ worker[v] \in {"setpair", "connect"} => peer[v] \in Ends \ {f}
      BY <1>1, <1>5 DEF Pairing, Holds, HandFits
    <3> QED BY <1>2, <1>3, <1>7, <2>2, <3>1 DEF HandFits, InServerMain, InCase4
  <2> QED BY <2>1, <2>2
<1>9. \A p \in Packets(port') : PacketFits(p)'
  <2> SUFFICES ASSUME NEW p \in Packets(port) PROVE PacketFits(p)'
    BY <1>3
  <2>1. PacketFits(p) /\ p.end \in Ends
    BY <1>1, PacketTypes DEF Pairing, Completion
  <2> QED BY <1>3, <1>5, <1>7, <2>1 DEF PacketFits
<1>10. \A v \in Workers, e \in Ends : Making(v, e) => Making(v, e)' /\ worker'[v] = worker[v]
  BY <1>2, <1>7 DEF Making
<1>11. Making(w, f)'
  BY <1>2, <1>7 DEF Making
<1>12. \A e \in Ends : EndFits(e)'
  <2> SUFFICES ASSUME NEW e \in Ends PROVE EndFits(e)'
    OBVIOUS
  <2>1. EndFits(e)
    BY <1>1 DEF Pairing
  <2> QED BY <1>3, <1>5, <1>7, <1>10, <1>11, <2>1 DEF EndFits
<1>13. PairsMutual'
  <2> SUFFICES ASSUME NEW e \in Ends, m_pair'[e] # NoEnd
               PROVE  \/ m_pair'[m_pair'[e]] = e
                      \/ \E v \in Workers : worker'[v] = "setpair" /\ peer'[v] = e
    BY DEF PairsMutual
  <2>1. CASE e = f
    BY <1>2, <1>7, <2>1
  <2>2. CASE e # f
    <3>1. m_pair'[e] = m_pair[e] /\ m_pair[e] \in Ends
      BY <1>1, <1>7, <2>2 DEF TypeOK
    <3>2. CASE m_pair[m_pair[e]] = e
      BY <1>5, <1>7, <3>1, <3>2 DEF NoEnd, Ends
    <3>3. CASE \E v \in Workers : worker[v] = "setpair" /\ peer[v] = e
      BY <1>2, <1>7, <3>3
    <3> QED BY <1>1, <3>1, <3>2, <3>3 DEF Pairing, PairsMutual
  <2> QED BY <2>1, <2>2
<1> QED BY <1>8, <1>9, <1>12, <1>13 DEF Pairing

LEMMA NoneDone == ASSUME TypeOK, Done = {}, NEW p \in Packets(port)
                  PROVE  ~(p.type \in {"accept", "connect"} /\ p.ok)
BY LenProperties DEF TypeOK, Packets, Done

(* SetPair: only the worker that made the pair has the right to accept, so *)
(* nobody takes the client for one without a pair.                         *)
LEMMA LinkPairs == ASSUME RInv, NEW w \in Workers, SetPair(w) PROVE Pairing'
<1> DEFINE a == hand[w].end
           f == peer[w]
<1>1. Pairing /\ TypeOK /\ Holds /\ Exclusive
  BY DEF RInv, TInv, Tokens
<1>2. /\ worker[w] = "setpair" /\ worker'[w] = "connect"
      /\ \A v \in Workers \ {w} : worker'[v] = worker[v]
  BY <1>1 DEF SetPair, TypeOK, Goes
<1>3. /\ UNCHANGED << port, conn, hand, peer >>
      /\ m_pair' = [m_pair EXCEPT ![a] = f]
  BY DEF SetPair, kernelVars
<1>4. a \in Ends /\ f \in Ends /\ conn[a] # "new" /\ m_pair[a] = NoEnd /\ m_pair[f] = a
  BY <1>1, <1>2 DEF Holds, Pairing, HandFits, InServerMain, InCase4
<1>5. a # f
  BY <1>4 DEF NoEnd, Ends
<1>6. m_pair'[a] = f /\ \A e \in Ends \ {a} : m_pair'[e] = m_pair[e]
  BY <1>1, <1>3, <1>4 DEF TypeOK
<1> HIDE DEF a, f
<1>7. Pending = {} /\ Done = {} /\ \A v \in Workers \ {w} : v \notin Bearers
  <2>1. w \in Bearers
    BY <1>2 DEF Bearers, AcceptWorkers
  <2> QED BY <1>1, <2>1 DEF Exclusive, AtMostOneOf
<1>8. \A v \in Workers \ {w} : worker[v] \notin {"newaccept", "setpair", "connect", "firstrecv4"}
  <2> SUFFICES ASSUME NEW v \in Workers \ {w} 
               PROVE  worker[v] \notin {"newaccept", "setpair", "connect", "firstrecv4"}
    OBVIOUS
  <2>1. HandFits(v)
    BY <1>1 DEF Pairing
  <2> QED BY <1>7, <2>1 DEF Bearers, AcceptWorkers, Greeting, HandFits
<1>9. \A v \in Workers : HandFits(v)'
  <2>1. HandFits(w)'
    <3>1. m_pair'[peer'[w]] = hand'[w].end
      BY <1>3, <1>4, <1>5, <1>6 DEF a, f
    <3>2. conn'[hand'[w].end] # "new"
      BY <1>3, <1>4 DEF a
    <3> QED BY <1>2, <3>1, <3>2 DEF HandFits
  <2>2. ASSUME NEW v \in Workers \ {w} PROVE HandFits(v)'
    <3>1. HandFits(v) /\ (worker[v] \in InServerMain => hand[v].end \in Ends)
      BY <1>1 DEF Pairing, Holds
    <3> QED BY <1>2, <1>3, <1>4, <1>6, <1>8, <3>1 DEF HandFits, InServerMain, InCase4
  <2> QED BY <2>1, <2>2
<1>10. \A p \in Packets(port') : PacketFits(p)'
  <2> SUFFICES ASSUME NEW p \in Packets(port) PROVE PacketFits(p)'
    BY <1>3
  <2>1. PacketFits(p) /\ ~(p.type \in {"accept", "connect"} /\ p.ok)
    BY <1>1, <1>7, NoneDone DEF Pairing
  <2> QED BY <1>3, <2>1 DEF PacketFits
<1>11. \A e \in Ends : EndFits(e)'
  <2> SUFFICES ASSUME NEW e \in Ends PROVE EndFits(e)'
    OBVIOUS
  <2>1. EndFits(e) /\ conn[e] \notin {"armed", "connecting"}
    BY <1>1, <1>7 DEF Pairing, Pending
  <2>2. \A v \in Workers : Making(v, e) => Making(v, e)'
    BY <1>2, <1>3, <1>8 DEF Making
  <2> QED BY <1>3, <1>4, <1>6, <2>1, <2>2 DEF EndFits
<1>12. PairsMutual'
  <2> SUFFICES ASSUME NEW e \in Ends, m_pair'[e] # NoEnd PROVE m_pair'[m_pair'[e]] = e
    BY DEF PairsMutual
  <2>1. CASE e = a
    BY <1>4, <1>5, <1>6, <2>1
  <2>2. CASE e # a
    <3>1. m_pair'[e] = m_pair[e] /\ m_pair[e] \in Ends
      BY <1>1, <1>6, <2>2 DEF TypeOK
    <3>2. CASE m_pair[m_pair[e]] = e
      <4>1. m_pair[e] # a
        BY <1>4, <3>2 DEF NoEnd, Ends
      <4> QED BY <1>6, <3>1, <3>2, <4>1
    <3>3. CASE \E v \in Workers : worker[v] = "setpair" /\ peer[v] = e
      <4>1. e = f
        BY <1>8, <3>3 DEF f
      <4> QED BY <1>4, <1>6, <3>1, <4>1
    <3> QED BY <1>1, <3>1, <3>2, <3>3 DEF Pairing, PairsMutual
  <2> QED BY <2>1, <2>2
<1> QED BY <1>9, <1>10, <1>11, <1>12 DEF Pairing

(* Connect: the socket of the pair is used from here on.                   *)
LEMMA ConnectPairs == ASSUME RInv, NEW w \in Workers, Connect(w) PROVE Pairing'
<1> DEFINE f == peer[w]
<1>1. Pairing /\ TypeOK /\ Holds
  BY DEF RInv, TInv
<1>2. /\ worker[w] = "connect" /\ worker'[w] = "addmain"
      /\ \A v \in Workers \ {w} : worker'[v] = worker[v]
  BY <1>1 DEF Connect, TypeOK, Goes
<1>3. /\ UNCHANGED << m_pair, port >>
      /\ \A v \in Workers \ {w} : hand'[v] = hand[v] /\ peer'[v] = peer[v]
  BY <1>1 DEF Connect, Served, TypeOK
<1>4. PICK c \in {"connecting", "refused"} : conn' = [conn EXCEPT ![f] = c]
  BY DEF Connect
<1>5. f \in Ends /\ m_pair[f] # NoEnd
  <2>1. f \in Ends /\ hand[w].end \in Ends /\ HandFits(w)
    BY <1>1, <1>2 DEF Holds, Pairing, InServerMain, InCase4
  <2> QED BY <1>2, <2>1 DEF HandFits, NoEnd, Ends
<1> HIDE DEF f
<1>6. \A e \in Ends : conn[e] # "new" => conn'[e] # "new"
  BY <1>1, <1>4 DEF TypeOK
<1>7. \A v \in Workers : HandFits(v)'
  <2> SUFFICES ASSUME NEW v \in Workers PROVE HandFits(v)'
    OBVIOUS
  <2>1. CASE v = w
    BY <1>2, <2>1 DEF HandFits, InServerMain, InCase4
  <2>2. CASE v # w
    <3>1. HandFits(v) /\ (worker[v] \in InServerMain => hand[v].end \in Ends)
      BY <1>1 DEF Pairing, Holds
    <3> QED BY <1>2, <1>3, <1>6, <2>2, <3>1 DEF HandFits
  <2> QED BY <2>1, <2>2
<1>8. \A p \in Packets(port') : PacketFits(p)'
  <2> SUFFICES ASSUME NEW p \in Packets(port) PROVE PacketFits(p)'
    BY <1>3
  <2>1. PacketFits(p) /\ p.end \in Ends
    BY <1>1, PacketTypes DEF Pairing, Completion
  <2> QED BY <1>3, <1>6, <2>1 DEF PacketFits
<1>9. \A v \in Workers, e \in Ends : Making(v, e) => Making(v, e)' \/ e = f
  BY <1>2, <1>3 DEF Making, f
<1>10. \A v \in Workers : worker[v] = "setpair" => worker'[v] = "setpair" /\ peer'[v] = peer[v]
  BY <1>2, <1>3
<1> QED BY <1>3, <1>4, <1>5, <1>7, <1>8, <1>9, <1>10, EndMoves

LEMMA WorkerPairs == ASSUME RInv, TInv', NEW w \in Workers, Worker(w) PROVE Pairing'
<1>1. ClientConnected(w) => Goes(w, "connected", "addmain") \/ Goes(w, "connected", "setpair")
  BY DEF ClientConnected
<1>2. CASE Accept(w)
  BY <1>2, AcceptPairs
<1>3. CASE GetCompletion(w)
  BY <1>3, GetPairs
<1>4. CASE SetPair(w) \/ Connect(w)
  BY <1>4, LinkPairs, ConnectPairs
<1>5. CASE ClientConnected(w)
  BY <1>1, <1>5, MakePairs, MovePairs
<1>6. CASE TakeTask(w) \/ NewAccept(w) \/ FirstRecvOfPair(w) \/ FirstRecv(w) \/ Rearm(w)
               \/ Pair(w) \/ Send(w) \/ NextServerMain(w)
  <2>1. TakeTask(w) \/ NewAccept(w) \/ FirstRecvOfPair(w) \/ FirstRecv(w) \/ Rearm(w)
            \/ Pair(w) \/ Send(w) \/ NextServerMain(w)
            \/ (ClientConnected(w) /\ Goes(w, "connected", "addmain"))
    BY <1>6
  <2> QED BY <2>1, MovePairs
<1> QED BY <1>2, <1>3, <1>4, <1>5, <1>6 DEF Worker, ServerMain

(* What the kernel posts, and to whom.                                     *)
LEMMA KernelPosts ==
    ASSUME RInv, NEW e \in Ends, Kernel(e)
    PROVE  \/ /\ PeerEnds(e) /\ UNCHANGED port
           \/ \E p \in Completion :
                 /\ port' = Append(port, p) /\ p.end = e
                 /\ \/ PeerConnects(e) /\ p.type = "accept" /\ p.ok
                    \/ AcceptFails(e) /\ p.type = "accept" /\ ~p.ok
                    \/ /\ ConnectCompletes(e) /\ p.type = "connect"
                       /\ conn' = [conn EXCEPT ![e] = IF p.ok THEN "open" ELSE "refused"]
                    \/ RecvCompletes(e) /\ p.type = "recv"
                    \/ SendCompletes(e) /\ p.type = "send"
<1>1. ASSUME NEW type \in {"connect", "recv", "send", "accept"}, NEW k \in 0 .. MaxPackets,
             NEW ok \in BOOLEAN, Completes(Completed(type, e, k, ok))
      PROVE  \E p \in Completion : /\ port' = Append(port, p) /\ p.end = e
                                   /\ p.type = type /\ p.ok = ok
  <2>1. Completed(type, e, k, ok) \in Completion
    BY CompletionTypes
  <2> QED BY <1>1, <2>1 DEF Completes, Completed
<1>2. 0 \in 0 .. MaxPackets
  BY NothingType
<1>3. CASE PeerConnects(e)
  BY <1>1, <1>2, <1>3 DEF PeerConnects
<1>4. CASE AcceptFails(e)
  BY <1>1, <1>2, <1>4 DEF AcceptFails
<1>5. CASE ConnectCompletes(e)
  <2>1. PICK ok \in BOOLEAN : /\ Completes(Completed("connect", e, 0, ok))
                              /\ conn' = [conn EXCEPT ![e] = IF ok THEN "open" ELSE "refused"]
    BY <1>5 DEF ConnectCompletes
  <2> QED BY <1>1, <1>2, <1>5, <2>1
<1>6. CASE RecvCompletes(e)
  <2>1. (conn[e] = "eof") \in BOOLEAN /\ (received[e] < MaxPackets => received[e] + 1 \in 0 .. MaxPackets)
    BY CpuCount DEF RInv, TInv, TypeOK
  <2>2. PICK k \in 0 .. MaxPackets, ok \in BOOLEAN : Completes(Completed("recv", e, k, ok))
    BY <1>2, <1>6, <2>1 DEF RecvCompletes
  <2> QED BY <1>1, <1>6, <2>2
<1>7. CASE SendCompletes(e)
  <2>1. (conn[e] # "reset") \in BOOLEAN
    OBVIOUS
  <2>2. PICK ok \in BOOLEAN : Completes(Completed("send", e, 0, ok))
    BY <1>7, <2>1 DEF SendCompletes
  <2> QED BY <1>1, <1>2, <1>7, <2>2
<1>8. CASE PeerEnds(e)
  BY <1>8 DEF PeerEnds
<1> QED BY <1>3, <1>4, <1>5, <1>6, <1>7, <1>8 DEF Kernel

(* The kernel and the peers change connections of sockets in use only.     *)
LEMMA KernelLeaves ==
    ASSUME RInv, NEW e \in Ends, Kernel(e)
    PROVE  /\ UNCHANGED << m_pair, tasks, worker, hand, peer >>
           /\ \A f \in Ends : \/ conn'[f] = conn[f]
                              \/ /\ f = e /\ conn[f] # "new"
                                 /\ conn'[f] \in {"open", "eof", "reset", "refused"}
<1>1. conn \in [Ends -> Connections]
  BY DEF RInv, TInv, TypeOK
<1>2. UNCHANGED << m_pair, tasks, worker, hand, peer >>
  BY DEF Kernel, PeerConnects, AcceptFails, ConnectCompletes, RecvCompletes, SendCompletes,
         PeerEnds, Completes, workerVars
<1>3. \/ UNCHANGED conn
      \/ /\ conn[e] # "new"
         /\ \E c \in {"open", "eof", "reset", "refused"} : conn' = [conn EXCEPT ![e] = c]
  BY DEF Kernel, PeerConnects, AcceptFails, ConnectCompletes, RecvCompletes, SendCompletes, PeerEnds
<1> QED BY <1>1, <1>2, <1>3

LEMMA KernelPairs == ASSUME RInv, TInv', NEW e \in Ends, Kernel(e) PROVE Pairing'
<1>1. Pairing /\ TypeOK /\ Holds /\ TypeOK'
  BY DEF RInv, TInv
<1>2. /\ UNCHANGED << m_pair, worker, hand, peer >>
      /\ \A f \in Ends : \/ conn'[f] = conn[f]
                         \/ /\ f = e /\ conn[f] # "new"
                            /\ conn'[f] \in {"open", "eof", "reset", "refused"}
  BY KernelLeaves
<1>3. \A w \in Workers : HandFits(w)'
  <2> SUFFICES ASSUME NEW w \in Workers PROVE HandFits(w)'
    OBVIOUS
  <2>1. HandFits(w) /\ (worker[w] \in InServerMain => hand[w].end \in Ends)
    BY <1>1 DEF Pairing, Holds
  <2> QED BY <1>2, <2>1 DEF HandFits
<1>4. \A f \in Ends : EndFits(f)'
  <2> SUFFICES ASSUME NEW f \in Ends PROVE EndFits(f)'
    OBVIOUS
  <2>1. EndFits(f)
    BY <1>1 DEF Pairing
  <2> QED BY <1>2, <2>1 DEF EndFits, Making
<1>5. ASSUME NEW p \in Packets(port) PROVE PacketFits(p)'
  <2>1. PacketFits(p) /\ p.end \in Ends
    BY <1>1, PacketTypes DEF Pairing, Completion
  <2> QED BY <1>2, <2>1 DEF PacketFits
<1>6. ASSUME NEW p \in Completion, port' = Append(port, p), PacketFits(p)'
      PROVE  \A q \in Packets(port') : PacketFits(q)'
  <2>1. Packets(port') = Packets(port) \cup {p}
    BY <1>1, <1>6, NewPacket
  <2> QED BY <1>5, <1>6, <2>1
<1>7. \A p \in Packets(port') : PacketFits(p)'
  <2>1. CASE UNCHANGED port
    BY <1>5, <2>1
  <2>2. ASSUME NEW p \in Completion, port' = Append(port, p), p.end = e,
               \/ PeerConnects(e) /\ p.type = "accept" /\ p.ok
               \/ AcceptFails(e) /\ p.type = "accept" /\ ~p.ok
               \/ ConnectCompletes(e) /\ p.type = "connect"
               \/ RecvCompletes(e) /\ p.type = "recv"
               \/ SendCompletes(e) /\ p.type = "send"
        PROVE  PacketFits(p)'
    <3>1. EndFits(e)
      BY <1>1 DEF Pairing
    <3>2. p.type # "send" => conn[e] # "new"
      BY <2>2 DEF PeerConnects, AcceptFails, ConnectCompletes, RecvCompletes
    <3>3. p.type = "accept" => conn[e] = "armed"
      BY <2>2 DEF PeerConnects, AcceptFails
    <3>4. p.type = "connect" => conn[e] = "connecting"
      BY <2>2 DEF ConnectCompletes
    <3> QED BY <1>2, <2>2, <3>1, <3>2, <3>3, <3>4 DEF EndFits, PacketFits
  <2> QED BY <1>6, <2>1, <2>2, KernelPosts
<1>8. PairsMutual'
  <2>1. PairsMutual
    BY <1>1 DEF Pairing
  <2> QED BY <1>2, <2>1 DEF PairsMutual
<1> QED BY <1>3, <1>4, <1>7, <1>8 DEF Pairing

-----------------------------------------------------------------------------
(* The right to accept moves from place to place.                          *)

(* A worker that neither had nor takes it, while nothing else moves it.    *)
LEMMA BearersStay ==
    ASSUME RInv, NEW w \in Workers, NEW from, NEW to, Goes(w, from, to), UNCHANGED m_pair,
           \A v \in Workers \ {w} : hand'[v] = hand[v]
    PROVE  /\ worker[w] = from /\ worker'[w] = to
           /\ Bearers' \ {w} = Bearers \ {w}
<1>1. /\ worker[w] = from /\ worker'[w] = to
      /\ \A v \in Workers \ {w} : worker'[v] = worker[v]
  BY DEF RInv, TInv, TypeOK, Goes
<1> QED BY <1>1 DEF Bearers, AcceptWorkers, Greeting

(* Only the queue of m_Task and the worker w can have it before and after. *)
LEMMA TaskTokens ==
    ASSUME RInv, NEW w \in Workers, UNCHANGED << conn, Done >>, Bearers' \ {w} = Bearers \ {w},
           \/ AcceptTasks' = AcceptTasks /\ (w \in Bearers' <=> w \in Bearers)
           \/ AtMostOneOf(AcceptTasks') /\ (AcceptTasks' = {} <=> AcceptTasks = {})
              /\ w \notin Bearers /\ w \notin Bearers'
           \/ AcceptTasks # {} /\ AcceptTasks' = {} /\ w \in Bearers'
           \/ w \in Bearers /\ w \notin Bearers' /\ AcceptTasks' # {}
              /\ (AcceptTasks = {} => AtMostOneOf(AcceptTasks'))
    PROVE  Tokens'
<1>1. Tokens
  BY DEF RInv
<1>2. Pending' = Pending /\ Refused' = Refused
  BY DEF Pending, Refused
<1> QED BY <1>1, <1>2 DEF Tokens, Exclusive, NoToken, AtMostOneOf

LEMMA WorkerTokens == ASSUME RInv, TInv', NEW w \in Workers, Worker(w) PROVE Tokens'
<1>1. /\ Pairing /\ TypeOK /\ Holds /\ TypeOK' /\ HandFits(w)
      /\ Tokens /\ Exclusive /\ AtMostOneOf(AcceptTasks) /\ AtMostOneOf(Done)
  BY DEF RInv, TInv, Pairing, Tokens, Exclusive
<1> DEFINE Bears(from) == from \in {"accept", "newaccept", "setpair", "connect"}
                          \/ (from \in {"firstrecv4", "connected"} /\ m_pair[hand[w].end] = NoEnd)
<1>2. w \in Bearers <=> Bears(worker[w])
  BY DEF Bearers, AcceptWorkers, Greeting
<1>3. UNCHANGED << m_pair, hand >> => (w \in Bearers' <=> Bears(worker'[w]))
  BY DEF Bearers, AcceptWorkers, Greeting
<1>4. worker'[w] \in {"idle", "addmain", "pair", "send", "firstrecv1", "get", "rearm"} => w \notin Bearers'
  BY DEF Bearers, AcceptWorkers, Greeting
(* Steps that change neither a queue, nor a connection, nor a pair.        *)
<1>5. ASSUME NEW from, NEW to, Goes(w, from, to), UNCHANGED << m_pair, tasks, port, conn >>,
             \A v \in Workers \ {w} : hand'[v] = hand[v],
             w \in Bearers' <=> w \in Bearers
      PROVE  Tokens'
  <2>1. UNCHANGED << AcceptTasks, Done >>
    BY <1>5 DEF AcceptTasks, Done
  <2> QED BY <1>5, <2>1, BearersStay, TaskTokens
<1>6. CASE TakeTask(w)
  <2>1. /\ Goes(w, "idle", IF Head(tasks) = "Accept" THEN "accept" ELSE "get")
        /\ UNCHANGED << m_pair, port, hand, conn >> /\ tasks # << >> /\ tasks' = Tail(tasks)
    BY <1>6 DEF TakeTask, kernelVars
  <2>2. /\ worker[w] = "idle" /\ Bearers' \ {w} = Bearers \ {w} /\ UNCHANGED Done
        /\ worker'[w] = IF Head(tasks) = "Accept" THEN "accept" ELSE "get"
    BY <2>1, BearersStay DEF Done
  <2>3. /\ AtMostOneOf(AcceptTasks')
        /\ Head(tasks) = "Accept" => AcceptTasks # {} /\ AcceptTasks' = {}
        /\ Head(tasks) # "Accept" => (AcceptTasks' = {} <=> AcceptTasks = {})
    BY <1>1, <2>1, TakenTask
  <2>4. w \notin Bearers /\ (Head(tasks) = "Accept" <=> w \in Bearers')
    BY <1>2, <1>3, <2>1, <2>2
  <2> QED BY <2>1, <2>2, <2>3, <2>4, TaskTokens
<1>7. CASE NewAccept(w)
  <2>1. /\ Goes(w, "newaccept", "firstrecv1") /\ UNCHANGED << m_pair, port, hand, conn >>
        /\ tasks' = Append(tasks, "Accept")
    BY <1>7 DEF NewAccept, kernelVars
  <2>2. /\ worker[w] = "newaccept" /\ worker'[w] = "firstrecv1"
        /\ Bearers' \ {w} = Bearers \ {w} /\ UNCHANGED Done
    BY <2>1, BearersStay DEF Done
  <2>3. AcceptTasks' # {} /\ (AcceptTasks = {} => AtMostOneOf(AcceptTasks'))
    BY <1>1, <2>1, NewAcceptTask
  <2>4. w \in Bearers /\ w \notin Bearers'
    BY <1>2, <1>4, <2>2
  <2> QED BY <2>1, <2>2, <2>3, <2>4, TaskTokens
<1>8. CASE NextServerMain(w)
  <2>1. /\ Goes(w, "addmain", "idle") /\ UNCHANGED << m_pair, port, hand, conn >>
        /\ tasks' = Append(tasks, "ServerMain")
    BY <1>8 DEF NextServerMain, kernelVars
  <2>2. /\ worker[w] = "addmain" /\ worker'[w] = "idle"
        /\ Bearers' \ {w} = Bearers \ {w} /\ UNCHANGED Done
    BY <2>1, BearersStay DEF Done
  <2>3. AcceptTasks' = AcceptTasks
    BY <1>1, <2>1, NewAcceptTask
  <2>4. w \notin Bearers /\ w \notin Bearers'
    BY <1>2, <1>4, <2>2
  <2> QED BY <2>1, <2>2, <2>3, <2>4, TaskTokens
<1>9. CASE Accept(w)
  <2>1. /\ Goes(w, "accept", "idle") /\ UNCHANGED << m_pair, port, hand, tasks >>
        /\ \E e \in Ends, c \in {"armed", "refused"} : conn' = [conn EXCEPT ![e] = c]
    BY <1>9 DEF Accept
  <2>2. /\ worker[w] = "accept" /\ worker'[w] = "idle" /\ Bearers' \ {w} = Bearers \ {w}
        /\ UNCHANGED << AcceptTasks, Done >>
    BY <2>1, BearersStay DEF AcceptTasks, Done
  <2>3. w \in Bearers /\ w \notin Bearers'
    BY <1>2, <1>4, <2>2
  <2>4. Bearers' = {} /\ AcceptTasks' = {} /\ Done' = {} /\ Pending = {} /\ ~Refused
    BY <1>1, <2>2, <2>3 DEF Tokens, Exclusive, NoToken, AtMostOneOf
  <2>5. PICK e \in Ends, c \in {"armed", "refused"} : conn' = [conn EXCEPT ![e] = c]
    BY <2>1
  <2>6. /\ c = "armed" => Pending' = {e} /\ ~Refused'
        /\ c = "refused" => Pending' = {} /\ Refused'
    BY <1>1, <2>4, <2>5 DEF Pending, Refused, TypeOK
  <2> QED BY <2>4, <2>5, <2>6 DEF Tokens, Exclusive, NoToken, AtMostOneOf
<1>10. CASE Connect(w)
  <2>1. /\ Goes(w, "connect", "addmain") /\ UNCHANGED << m_pair, port, tasks >>
        /\ \A v \in Workers \ {w} : hand'[v] = hand[v]
    BY <1>1, <1>10 DEF Connect, Served, TypeOK
  <2>2. /\ worker[w] = "connect" /\ worker'[w] = "addmain" /\ Bearers' \ {w} = Bearers \ {w}
        /\ UNCHANGED << AcceptTasks, Done >>
    BY <2>1, BearersStay DEF AcceptTasks, Done
  <2>3. w \in Bearers /\ w \notin Bearers'
    BY <1>2, <1>4, <2>2
  <2>4. Bearers' = {} /\ AcceptTasks' = {} /\ Done' = {} /\ Pending = {} /\ ~Refused
    BY <1>1, <2>2, <2>3 DEF Tokens, Exclusive, NoToken, AtMostOneOf
  <2>5. PICK c \in {"connecting", "refused"} : conn' = [conn EXCEPT ![peer[w]] = c]
    BY <1>10 DEF Connect
  <2>6. peer[w] \in Ends
    BY <1>1, <2>2 DEF Holds
  <2>7. /\ c = "connecting" => Pending' = {peer[w]} /\ ~Refused'
        /\ c = "refused" => Pending' = {} /\ Refused'
    BY <1>1, <2>4, <2>5, <2>6 DEF Pending, Refused, TypeOK
  <2> QED BY <2>4, <2>5, <2>7 DEF Tokens, Exclusive, NoToken, AtMostOneOf
<1>11. CASE GetCompletion(w)
  <2> DEFINE p == Head(port)
  <2>1. /\ port # << >> /\ port' = Tail(port) /\ Goes(w, "get", Serves(p))
        /\ hand' = [hand EXCEPT ![w] = IF Serves(p) = "addmain" THEN Nothing
                                       ELSE [end |-> p.end, packet |-> p.packet]]
        /\ UNCHANGED << m_pair, conn, tasks >>
    BY <1>11 DEF GetCompletion, kernelVars
  <2>2. /\ p \in Completion /\ Packets(port) = Packets(port') \cup {p}
        /\ AtMostOneOf(Done')
        /\ p \in Passing => Done # {} /\ Done' = {}
        /\ p \notin Passing => (Done' = {} <=> Done = {})
    BY <1>1, <2>1, TakenPacket
  <2>3. /\ worker[w] = "get" /\ worker'[w] = Serves(p) /\ Bearers' \ {w} = Bearers \ {w}
        /\ UNCHANGED << AcceptTasks, Pending, Refused >>
    <3>1. \A v \in Workers \ {w} : hand'[v] = hand[v]
      BY <1>1, <2>1 DEF TypeOK
    <3> QED BY <2>1, <3>1, BearersStay DEF AcceptTasks, Pending, Refused
  <2>4. w \notin Bearers
    BY <1>2, <2>3
  <2>5. w \in Bearers' <=> p \in Passing
    <3>1. PacketFits(p)
      BY <1>1, <2>2 DEF Pairing
    <3>2. Serves(p) # "addmain" => hand'[w].end = p.end
      BY <1>1, <2>1 DEF TypeOK
    <3>3. \/ Serves(p) = "addmain" /\ p \notin Passing
          \/ Serves(p) = "newaccept" /\ p \in Passing
          \/ Serves(p) = "rearm" /\ p \notin Passing
          \/ Serves(p) = "firstrecv4" /\ p \in Passing /\ p.type = "accept" /\ p.ok
      BY <2>2 DEF Serves, Passing, Completion
    <3> QED BY <2>1, <2>3, <3>1, <3>2, <3>3 DEF PacketFits, Bearers, AcceptWorkers, Greeting
  <2> HIDE DEF p
  <2>6. CASE p \in Passing
    <3>1. Bearers' = {w} /\ Bearers = {} /\ AcceptTasks' = {} /\ Pending' = {} /\ Done' = {} /\ ~Refused'
      BY <1>1, <2>2, <2>3, <2>4, <2>5, <2>6 DEF Tokens, Exclusive, NoToken
    <3> QED BY <3>1 DEF Tokens, Exclusive, NoToken, AtMostOneOf
  <2>7. CASE p \notin Passing
    <3>1. Bearers' = Bearers
      BY <2>3, <2>4, <2>5, <2>7
    <3> QED BY <1>1, <2>2, <2>3, <2>7, <3>1 DEF Tokens, Exclusive, NoToken
  <2> QED BY <2>6, <2>7
<1>12. CASE SetPair(w)
  <2>1. /\ worker[w] = "setpair" /\ worker'[w] = "connect"
        /\ \A v \in Workers \ {w} : worker'[v] = worker[v]
        /\ UNCHANGED << hand, port, tasks, conn >>
    BY <1>1, <1>12 DEF SetPair, TypeOK, Goes, kernelVars
  <2>2. w \in Bearers /\ w \in Bearers'
    BY <2>1 DEF Bearers, AcceptWorkers
  <2>3. \A v \in Workers \ {w} : v \in Bearers' => v \in Bearers
    <3> SUFFICES ASSUME NEW v \in Workers \ {w}, v \in Bearers' PROVE v \in Bearers
      OBVIOUS
    <3>1. CASE worker[v] \in {"accept", "newaccept", "setpair", "connect"}
      BY <3>1 DEF Bearers, AcceptWorkers
    <3>2. CASE worker[v] \in {"firstrecv4", "connected"}
      <4>1. m_pair'[hand[v].end] = NoEnd
        BY <2>1, <3>2 DEF Bearers, AcceptWorkers, Greeting
      <4>2. hand[v].end \in Ends /\ hand[w].end \in Ends /\ peer[w] # NoEnd
        BY <1>1, <2>1, <3>2 DEF Holds, InServerMain, InCase4, NoEnd, Ends
      <4>3. m_pair[hand[v].end] = NoEnd
        BY <1>1, <1>12, <4>1, <4>2 DEF SetPair, TypeOK
      <4> QED BY <3>2, <4>3 DEF Bearers, Greeting
    <3> QED BY <2>1, <3>1, <3>2 DEF Bearers, AcceptWorkers, Greeting
  <2>4. Bearers' = Bearers
    <3>1. Bearers = {w}
      BY <1>1, <2>2 DEF Exclusive, AtMostOneOf
    <3>2. \A v \in Bearers' : v \in Workers
      BY DEF Bearers, AcceptWorkers, Greeting
    <3> QED BY <2>2, <2>3, <3>1, <3>2
  <2>5. UNCHANGED << AcceptTasks, Done >>
    BY <2>1 DEF AcceptTasks, Done
  <2> QED BY <2>1, <2>4, <2>5, TaskTokens
<1>13. CASE ClientConnected(w)
  <2>1. UNCHANGED << port, tasks, conn >>
    BY <1>13 DEF ClientConnected, kernelVars
  <2>2. CASE Goes(w, "connected", "addmain")
    <3>1. /\ UNCHANGED m_pair /\ m_pair[hand[w].end] # NoEnd
          /\ \A v \in Workers \ {w} : hand'[v] = hand[v]
      BY <1>1, <1>13, <2>2 DEF ClientConnected, Served, Goes, TypeOK
    <3>2. worker[w] = "connected" /\ worker'[w] = "addmain"
      BY <1>1, <2>2 DEF TypeOK, Goes
    <3> QED BY <1>2, <1>4, <1>5, <2>1, <2>2, <3>1, <3>2
  <2>3. CASE Goes(w, "connected", "setpair")
    <3>1. /\ worker[w] = "connected" /\ worker'[w] = "setpair"
          /\ \A v \in Workers \ {w} : worker'[v] = worker[v]
      BY <1>1, <2>3 DEF TypeOK, Goes
    <3>2. /\ m_pair[hand[w].end] = NoEnd /\ UNCHANGED hand
          /\ \E f \in Ends : IsNew(f) /\ m_pair' = [m_pair EXCEPT ![f] = hand[w].end]
      BY <1>1, <1>13, <3>1 DEF ClientConnected, Goes, TypeOK
    <3>3. PICK f \in Ends : IsNew(f) /\ m_pair' = [m_pair EXCEPT ![f] = hand[w].end]
      BY <3>2
    <3>4. \A v \in Workers : worker[v] \in InServerMain => m_pair'[hand[v].end] = m_pair[hand[v].end]
      <4> SUFFICES ASSUME NEW v \in Workers, worker[v] \in InServerMain
                   PROVE  m_pair'[hand[v].end] = m_pair[hand[v].end]
        OBVIOUS
      <4>1. hand[v].end # f
        BY <1>1, <3>3, NewIsAlone DEF Pairing, HandFits
      <4>2. hand[v].end \in Ends
        BY <1>1 DEF Holds
      <4> QED BY <1>1, <3>3, <4>1, <4>2 DEF TypeOK
    <3>5. Bearers' = Bearers
      BY <3>1, <3>2, <3>4 DEF Bearers, AcceptWorkers, Greeting, InServerMain, InCase4
    <3>6. UNCHANGED << AcceptTasks, Done >>
      BY <2>1 DEF AcceptTasks, Done
    <3> QED BY <2>1, <3>5, <3>6, TaskTokens
  <2> QED BY <1>13, <2>2, <2>3 DEF ClientConnected
<1>14. CASE FirstRecvOfPair(w) \/ FirstRecv(w) \/ Rearm(w)
  <2>1. UNCHANGED << m_pair, tasks, port, conn, hand >>
    BY <1>14 DEF FirstRecvOfPair, FirstRecv, Rearm
  <2>2. PICK from, to : /\ Goes(w, from, to)
                        /\ << from, to >> \in {<< "firstrecv1", "connected" >>,
                               << "firstrecv4", "connected" >>, << "rearm", "pair" >>}
    BY <1>14 DEF FirstRecvOfPair, FirstRecv, Rearm
  <2>3. worker[w] = from /\ worker'[w] = to
    BY <1>1, <2>2 DEF TypeOK, Goes
  <2>4. w \in Bearers' <=> w \in Bearers
    BY <1>1, <1>2, <1>3, <2>1, <2>2, <2>3 DEF HandFits
  <2> QED BY <1>5, <2>1, <2>2, <2>4
<1>15. CASE Pair(w) \/ Send(w)
  <2>1. /\ UNCHANGED << m_pair, tasks, port, conn >>
        /\ \A v \in Workers \ {w} : hand'[v] = hand[v]
    BY <1>1, <1>15 DEF Pair, Send, kernelVars, Served, TypeOK
  <2>2. PICK from \in {"pair", "send"}, to \in {"send", "addmain"} : Goes(w, from, to)
    BY <1>15 DEF Pair, Send
  <2>3. worker[w] = from /\ worker'[w] = to
    BY <1>1, <2>2 DEF TypeOK, Goes
  <2> QED BY <1>2, <1>4, <1>5, <2>1, <2>2, <2>3
<1> QED BY <1>6, <1>7, <1>8, <1>9, <1>10, <1>11, <1>12, <1>13, <1>14, <1>15 DEF Worker, ServerMain

LEMMA KernelTokens == ASSUME RInv, TInv', NEW e \in Ends, Kernel(e) PROVE Tokens'
<1>1. TypeOK /\ TypeOK' /\ Tokens /\ Exclusive
  BY DEF RInv, TInv, Tokens
<1>2. UNCHANGED << AcceptTasks, Bearers >>
  <2>1. UNCHANGED << m_pair, tasks, worker, hand >>
    BY KernelLeaves
  <2> QED BY <2>1 DEF AcceptTasks, Bearers, AcceptWorkers, Greeting
<1>3. ASSUME UNCHANGED Done, \A f \in Ends : conn'[f] = conn[f] \/ {conn'[f], conn[f]} \subseteq {"open", "eof", "reset"}
      PROVE  Tokens'
  <2>1. UNCHANGED << Pending, Refused >>
    BY <1>3 DEF Pending, Refused
  <2> QED BY <1>1, <1>2, <1>3, <2>1 DEF Tokens, Exclusive, NoToken
<1>4. CASE PeerEnds(e) /\ UNCHANGED port
  <2>1. UNCHANGED Done
    BY <1>4 DEF Done
  <2> QED BY <1>1, <1>3, <1>4, <2>1 DEF PeerEnds, TypeOK
<1>5. ASSUME NEW p \in Completion, port' = Append(port, p),
             p \notin Passing, UNCHANGED conn
      PROVE  Tokens'
  <2>1. UNCHANGED Done
    BY <1>1, <1>5, NewPacket
  <2> QED BY <1>3, <1>5, <2>1
(* A ConnectEx or AcceptEx ends: the right goes on, or is lost.            *)
<1>6. ASSUME NEW p \in Completion, port' = Append(port, p), conn[e] \in {"armed", "connecting"},
             \/ p \in Passing /\ conn' = [conn EXCEPT ![e] = "open"]
             \/ p \notin Passing /\ conn' = [conn EXCEPT ![e] = "refused"]
      PROVE  Tokens'
  <2>1. e \in Pending
    BY <1>6 DEF Pending
  <2>2. AcceptTasks' = {} /\ Bearers' = {} /\ Done = {} /\ Pending = {e} /\ ~Refused
    BY <1>1, <1>2, <2>1 DEF Tokens, Exclusive, NoToken, AtMostOneOf
  <2>3. Pending' = {} /\ (Refused' <=> p \notin Passing)
    BY <1>1, <1>6, <2>2 DEF Pending, Refused, TypeOK
  <2>4. /\ p \notin Passing => Done' = {}
        /\ p \in Passing => Done' # {} /\ AtMostOneOf(Done')
    BY <1>1, <1>6, <2>2, NewPacket
  <2> QED BY <2>2, <2>3, <2>4 DEF Tokens, Exclusive, NoToken, AtMostOneOf
<1>7. ASSUME NEW p \in Completion, port' = Append(port, p),
             \/ PeerConnects(e) /\ p.type = "accept" /\ p.ok
             \/ AcceptFails(e) /\ p.type = "accept" /\ ~p.ok
             \/ /\ ConnectCompletes(e) /\ p.type = "connect"
                /\ conn' = [conn EXCEPT ![e] = IF p.ok THEN "open" ELSE "refused"]
             \/ RecvCompletes(e) /\ p.type = "recv"
             \/ SendCompletes(e) /\ p.type = "send"
      PROVE  Tokens'
  <2>1. CASE RecvCompletes(e) /\ p.type = "recv"
    BY <1>5, <1>7, <2>1 DEF RecvCompletes, Passing
  <2>2. CASE SendCompletes(e) /\ p.type = "send"
    BY <1>5, <1>7, <2>2 DEF SendCompletes, Passing
  <2>3. CASE PeerConnects(e) /\ p.type = "accept" /\ p.ok
    BY <1>6, <1>7, <2>3 DEF PeerConnects, Passing
  <2>4. CASE AcceptFails(e) /\ p.type = "accept" /\ ~p.ok
    BY <1>6, <1>7, <2>4 DEF AcceptFails, Passing
  <2>5. CASE /\ ConnectCompletes(e) /\ p.type = "connect"
             /\ conn' = [conn EXCEPT ![e] = IF p.ok THEN "open" ELSE "refused"]
    BY <1>6, <1>7, <2>5 DEF ConnectCompletes, Passing
  <2> QED BY <1>7, <2>1, <2>2, <2>3, <2>4, <2>5
<1> QED BY <1>4, <1>7, KernelPosts

LEMMA InitInv == Init => RInv
BY TypeInit, InitRelay DEF RInv

LEMMA NextInv == RInv /\ [Next]_vars => RInv'
<1> SUFFICES ASSUME RInv, [Next]_vars PROVE RInv'
  OBVIOUS
<1>1. TInv'
  BY TypeNext DEF RInv
<1>2. CASE UNCHANGED vars
  <2>1. UNCHANGED << m_pair, tasks, port, worker, hand, peer, conn >>
    BY <1>2 DEF vars, workerVars, kernelVars
  <2>2. Pairing'
    BY <2>1 DEF RInv, Pairing, HandFits, PacketFits, EndFits, Making, PairsMutual
  <2>3. Tokens'
    BY <2>1 DEF RInv, Tokens, Exclusive, NoToken, Refused, Bearers, AcceptTasks, AcceptWorkers,
                Greeting, Pending, Done
  <2> QED BY <1>1, <2>2, <2>3 DEF RInv
<1>3. CASE Next
  BY <1>1, <1>3, WorkerPairs, WorkerTokens, KernelPairs, KernelTokens DEF Next, RInv
<1> QED BY <1>2, <1>3

(* No two clients share a connection to the back end, and no end of a pair *)
(* is ever given a second one: what one end says is for the other alone.   *)
THEOREM PairsAreMutual == Spec => []PairsMutual
<1>1. RInv => PairsMutual
  BY DEF RInv, Pairing
<1> QED BY <1>1, InitInv, NextInv, PTL DEF Spec

(* The relay never has two Accepts under way, and it has none exactly when *)
(* an accept or a connection to the back end has failed.                   *)
THEOREM OneRightToAccept == Spec => []OneAccept
<1>1. ASSUME Tokens PROVE OneAccept
  <2>1. /\ \A i \in AcceptTasks : << "task", i >> \in AcceptTokens
        /\ \A w \in AcceptWorkers : << "worker", w >> \in AcceptTokens
        /\ \A w \in Greeting : << "greets", w >> \in AcceptTokens
        /\ \A e \in Pending : << "kernel", e >> \in AcceptTokens
        /\ \A i \in Done : << "port", i >> \in AcceptTokens
    BY DEF AcceptTokens
  <2>2. AcceptTokens = {} <=> NoToken
    BY <2>1 DEF AcceptTokens, NoToken, Bearers
  <2>3. AcceptWorkers \cap Greeting = {}
    BY DEF AcceptWorkers, Greeting
  <2>4. ASSUME NEW x \in AcceptTokens, NEW y \in AcceptTokens PROVE x = y
    BY <1>1, <2>3, <2>4 DEF Tokens, Exclusive, AtMostOneOf, Bearers, AcceptTokens
  <2> QED BY <1>1, <2>2, <2>4 DEF Tokens, OneAccept, Refused
<1> QED BY <1>1, InitInv, NextInv, PTL DEF Spec, RInv

-----------------------------------------------------------------------------
(* What the steps do to the ends and to the hands.                         *)

(* A worker's step leaves the other workers alone.                         *)
LEMMA OthersStay ==
    ASSUME RInv, NEW w \in Workers, Worker(w)
    PROVE  /\ \A v \in Workers \ {w} : worker'[v] = worker[v] /\ hand'[v] = hand[v] /\ peer'[v] = peer[v]
           /\ UNCHANGED << received, early >>
<1>1. /\ worker \in [Workers -> WorkerPlaces] /\ peer \in [Workers -> Ends \cup {NoEnd}]
      /\ DOMAIN hand = Workers /\ DOMAIN peer = Workers
  BY DEF RInv, TInv, TypeOK
<1>2. UNCHANGED << received, early >>
  BY DEF Worker, ServerMain, TakeTask, Accept, GetCompletion, NewAccept, FirstRecvOfPair, FirstRecv,
         ClientConnected, SetPair, Connect, Rearm, Pair, Send, NextServerMain, kernelVars
<1>3. \E from, to : Goes(w, from, to)
  BY DEF Worker, ServerMain, TakeTask, Accept, GetCompletion, NewAccept, FirstRecvOfPair, FirstRecv,
         ClientConnected, SetPair, Connect, Rearm, Pair, Send, NextServerMain
<1>4. \A v \in Workers \ {w} : worker'[v] = worker[v]
  BY <1>1, <1>3 DEF Goes
<1>5. UNCHANGED hand \/ \E h : hand' = [hand EXCEPT ![w] = h]
  BY DEF Worker, ServerMain, TakeTask, Accept, GetCompletion, NewAccept, FirstRecvOfPair, FirstRecv,
         ClientConnected, SetPair, Connect, Rearm, Pair, Send, NextServerMain, Served
<1>6. UNCHANGED peer \/ \E f : peer' = [peer EXCEPT ![w] = f]
  BY DEF Worker, ServerMain, TakeTask, Accept, GetCompletion, NewAccept, FirstRecvOfPair, FirstRecv,
         ClientConnected, SetPair, Connect, Rearm, Pair, Send, NextServerMain
<1> QED BY <1>1, <1>2, <1>4, <1>5, <1>6

(* What it does to the end e when it posts p.                               *)
Posts(e, p) ==
    /\ port' = Append(port, p) /\ p.end = e
    /\ \/ /\ conn[e] = "armed" /\ conn'[e] = "open"
          /\ p.type = "accept" /\ p.ok /\ p.packet = 0
          /\ UNCHANGED << recvs, received, early >>
       \/ /\ conn[e] \in {"armed", "connecting"} /\ conn'[e] = "refused"
          /\ p.type \in {"accept", "connect"} /\ ~p.ok /\ p.packet = 0
          /\ UNCHANGED << recvs, received, early >>
       \/ /\ conn[e] = "connecting" /\ conn'[e] = "open"
          /\ p.type = "connect" /\ p.ok /\ p.packet = 0
          /\ early' = [early EXCEPT ![m_pair[e]] = received[m_pair[e]]]
          /\ UNCHANGED << recvs, received >>
       \/ /\ recvs[e] > 0 /\ recvs'[e] = recvs[e] - 1 /\ UNCHANGED << conn, early >>
          /\ conn[e] = "open" /\ received'[e] = received[e] + 1
          /\ p.type = "recv" /\ p.ok /\ p.packet = received[e] + 1
       \/ /\ recvs[e] > 0 /\ recvs'[e] = recvs[e] - 1 /\ UNCHANGED << conn, early, received >>
          /\ conn[e] \in {"eof", "reset"}
          /\ p.type = "recv" /\ p.packet = 0
       \/ p.type = "send" /\ p.packet = 0 /\ UNCHANGED << conn, early, recvs, received >>

(* ... and a step of the kernel leaves all of them alone.                  *)
LEMMA KernelStep ==
    ASSUME RInv, NEW e \in Ends, Kernel(e)
    PROVE  /\ UNCHANGED << m_pair, tasks, worker, hand, peer, sent, lost >>
           /\ \A f \in Ends \ {e} : /\ conn'[f] = conn[f] /\ recvs'[f] = recvs[f]
                                    /\ received'[f] = received[f]
           /\ \/ /\ UNCHANGED << port, recvs, received, early >>
                 /\ conn[e] \in {"open", "eof"} /\ conn'[e] \in {"eof", "reset"}
              \/ \E p \in Completion : Posts(e, p)
<1> DEFINE Goal == \E p \in Completion : Posts(e, p)
<1>1. /\ conn \in [Ends -> Connections] /\ recvs \in [Ends -> Nat] /\ received \in [Ends -> 0 .. MaxPackets]
      /\ MaxPackets \in Nat /\ 0 \in 0 .. MaxPackets
  BY CpuCount, NothingType DEF RInv, TInv, TypeOK
<1>2. UNCHANGED << m_pair, tasks, worker, hand, peer, sent, lost >>
  BY DEF Kernel, PeerConnects, AcceptFails, ConnectCompletes, RecvCompletes, SendCompletes,
         PeerEnds, Completes, workerVars
<1>3. \A f \in Ends \ {e} : conn'[f] = conn[f] /\ recvs'[f] = recvs[f] /\ received'[f] = received[f]
  BY <1>1 DEF Kernel, PeerConnects, AcceptFails, ConnectCompletes, RecvCompletes, SendCompletes, PeerEnds
<1>4. ASSUME NEW type \in {"connect", "recv", "send", "accept"}, NEW k \in 0 .. MaxPackets,
             NEW ok \in BOOLEAN, Completes(Completed(type, e, k, ok))
      PROVE  \E p \in Completion : /\ port' = Append(port, p) /\ p.end = e
                                   /\ p.type = type /\ p.ok = ok /\ p.packet = k
  <2>1. Completed(type, e, k, ok) \in Completion
    BY CompletionTypes
  <2> QED BY <1>4, <2>1 DEF Completes, Completed
<1>5. CASE PeerConnects(e)
  <2>1. PICK p \in Completion : /\ port' = Append(port, p) /\ p.end = e
                                /\ p.type = "accept" /\ p.ok = TRUE /\ p.packet = 0
    BY <1>1, <1>4, <1>5 DEF PeerConnects
  <2>2. conn[e] = "armed" /\ conn'[e] = "open" /\ UNCHANGED << recvs, received, early >>
    BY <1>1, <1>5 DEF PeerConnects
  <2>3. Goal
    BY <2>1, <2>2 DEF Posts
  <2> QED BY <1>2, <1>3, <2>3
<1>6. CASE AcceptFails(e)
  <2>1. PICK p \in Completion : /\ port' = Append(port, p) /\ p.end = e
                                /\ p.type = "accept" /\ p.ok = FALSE /\ p.packet = 0
    BY <1>1, <1>4, <1>6 DEF AcceptFails
  <2>2. conn[e] = "armed" /\ conn'[e] = "refused" /\ UNCHANGED << recvs, received, early >>
    BY <1>1, <1>6 DEF AcceptFails
  <2>3. Goal
    BY <2>1, <2>2 DEF Posts
  <2> QED BY <1>2, <1>3, <2>3
<1>7. CASE ConnectCompletes(e)
  <2>1. conn[e] = "connecting" /\ UNCHANGED << recvs, received >>
    BY <1>7 DEF ConnectCompletes
  <2>2. CASE /\ conn' = [conn EXCEPT ![e] = "open"]
             /\ early' = [early EXCEPT ![m_pair[e]] = received[m_pair[e]]]
             /\ Completes(Completed("connect", e, 0, TRUE))
    <3>1. PICK p \in Completion : /\ port' = Append(port, p) /\ p.end = e
                                  /\ p.type = "connect" /\ p.ok = TRUE /\ p.packet = 0
      BY <1>1, <1>4, <2>2
    <3>2. conn'[e] = "open"
      BY <1>1, <2>2
    <3>3. Goal
      BY <2>1, <2>2, <3>1, <3>2 DEF Posts
    <3> QED BY <1>2, <1>3, <3>3
  <2>3. CASE /\ conn' = [conn EXCEPT ![e] = "refused"]
             /\ Completes(Completed("connect", e, 0, FALSE))
             /\ UNCHANGED early
    <3>1. PICK p \in Completion : /\ port' = Append(port, p) /\ p.end = e
                                  /\ p.type = "connect" /\ p.ok = FALSE /\ p.packet = 0
      BY <1>1, <1>4, <2>3
    <3>2. conn'[e] = "refused"
      BY <1>1, <2>3
    <3>3. Goal
      BY <2>1, <2>3, <3>1, <3>2 DEF Posts
    <3> QED BY <1>2, <1>3, <3>3
  <2> QED BY <1>7, <2>2, <2>3 DEF ConnectCompletes
<1>8. CASE RecvCompletes(e)
  <2>1. recvs[e] > 0 /\ recvs'[e] = recvs[e] - 1 /\ UNCHANGED << conn, early >>
    BY <1>1, <1>8 DEF RecvCompletes
  <2>2. CASE /\ conn[e] = "open" /\ received[e] < MaxPackets
             /\ received' = [received EXCEPT ![e] = @ + 1]
             /\ Completes(Completed("recv", e, received[e] + 1, TRUE))
    <3>1. received[e] + 1 \in 0 .. MaxPackets /\ received'[e] = received[e] + 1
      BY <1>1, <2>2
    <3>2. PICK p \in Completion : /\ port' = Append(port, p) /\ p.end = e
                                  /\ p.type = "recv" /\ p.ok = TRUE /\ p.packet = received[e] + 1
      BY <1>4, <2>2, <3>1
    <3>3. Goal
      BY <2>1, <2>2, <3>1, <3>2 DEF Posts
    <3> QED BY <1>2, <1>3, <3>3
  <2>3. CASE /\ conn[e] \in {"eof", "reset"}
             /\ Completes(Completed("recv", e, 0, conn[e] = "eof"))
             /\ UNCHANGED received
    <3>1. (conn[e] = "eof") \in BOOLEAN
      OBVIOUS
    <3>2. PICK ok \in BOOLEAN : Completes(Completed("recv", e, 0, ok))
      BY <2>3, <3>1
    <3>3. PICK p \in Completion : /\ port' = Append(port, p) /\ p.end = e
                                  /\ p.type = "recv" /\ p.packet = 0
      BY <1>1, <1>4, <3>2
    <3>4. Goal
      BY <2>1, <2>3, <3>3 DEF Posts
    <3> QED BY <1>2, <1>3, <3>4
  <2> QED BY <1>8, <2>2, <2>3 DEF RecvCompletes
<1>9. CASE SendCompletes(e)
  <2>1. (conn[e] # "reset") \in BOOLEAN
    OBVIOUS
  <2>2. PICK ok \in BOOLEAN : Completes(Completed("send", e, 0, ok))
    BY <1>9, <2>1 DEF SendCompletes
  <2>3. PICK p \in Completion : /\ port' = Append(port, p) /\ p.end = e
                                /\ p.type = "send" /\ p.packet = 0
    BY <1>1, <1>4, <2>2
  <2>4. Goal
    BY <1>9, <2>3 DEF SendCompletes, Posts
  <2> QED BY <1>2, <1>3, <2>4
<1>10. CASE PeerEnds(e)
  <2>1. /\ UNCHANGED << port, recvs, received, early >>
        /\ conn[e] \in {"open", "eof"} /\ conn'[e] \in {"eof", "reset"}
    BY <1>1, <1>10 DEF PeerEnds
  <2> HIDE DEF Goal
  <2> QED BY <1>2, <1>3, <2>1
<1> QED BY <1>5, <1>6, <1>7, <1>8, <1>9, <1>10 DEF Kernel

-----------------------------------------------------------------------------
(* No end is the pair of two.                                              *)
LEMMA MakesOne ==
    ASSUME RInv, NEW v \in Workers, NEW w \in Workers, v \in Bearers, w \in Bearers
    PROVE  v = w
BY DEF RInv, Tokens, Exclusive, AtMostOneOf

LEMMA PairsOnce ==
    ASSUME RInv, NEW e \in Ends, NEW f \in Ends, m_pair[e] # NoEnd, m_pair[e] = m_pair[f]
    PROVE  e = f
<1>1. Pairing
  BY DEF RInv
<1>2. ASSUME NEW x \in Ends, m_pair[x] # NoEnd
      PROVE  \/ m_pair[m_pair[x]] = x
             \/ \E w \in Workers : worker[w] = "setpair" /\ peer[w] = x /\ m_pair[m_pair[x]] = NoEnd /\ w \in Bearers
  <2>1. \A w \in Workers : HandFits(w)
    BY <1>1 DEF Pairing
  <2> QED BY <1>1, <1>2, <2>1 DEF Pairing, PairsMutual, HandFits, Bearers, AcceptWorkers
<1> QED BY <1>2, MakesOne DEF NoEnd, Ends

(* Who has somebody that has not it is being given it.                     *)
LEMMA UnpairedAlone ==
    ASSUME RInv, NEW e \in Ends, NEW f \in Ends, m_pair[f] = e, m_pair[e] # f
    PROVE  \E w \in Workers : worker[w] = "setpair" /\ peer[w] = f /\ w \in Bearers
<1>1. PairsMutual /\ m_pair[f] # NoEnd
  BY DEF RInv, Pairing, NoEnd, Ends
<1> QED BY <1>1 DEF PairsMutual, Bearers, AcceptWorkers

(* An end is given a pair once, by ClientConnected or by SetPair.          *)
LEMMA PairStep ==
    ASSUME RInv, NEW w \in Workers, Worker(w)
    PROVE  \/ UNCHANGED m_pair
           \/ \E a, b \in Ends :
                 /\ m_pair' = [m_pair EXCEPT ![a] = b] /\ m_pair[a] = NoEnd
                 /\ UNCHANGED << port, conn, sent, lost >>
                 /\ \/ /\ ClientConnected(w) /\ worker[w] = "connected" /\ w \in Bearers
                       /\ b = hand[w].end /\ m_pair[b] = NoEnd /\ conn[a] = "new"
                    \/ /\ SetPair(w) /\ worker[w] = "setpair" /\ b = peer[w]
<1>1. TypeOK /\ Holds /\ \A v \in Workers : HandFits(v)
  BY DEF RInv, TInv, Pairing
<1>2. CASE ClientConnected(w)
  <2>1. worker[w] = "connected" /\ UNCHANGED << port, conn, sent, lost >>
    BY <1>2 DEF ClientConnected, Goes, kernelVars
  <2>2. hand[w].end \in Ends
    BY <1>1, <2>1 DEF Holds, InServerMain, InCase4
  <2>3. CASE m_pair[hand[w].end] # NoEnd
    BY <1>2, <2>3 DEF ClientConnected
  <2>4. CASE m_pair[hand[w].end] = NoEnd
    <3>1. PICK a \in Ends : IsNew(a) /\ m_pair' = [m_pair EXCEPT ![a] = hand[w].end]
      BY <1>2, <2>4 DEF ClientConnected
    <3>2. conn[a] = "new" /\ m_pair[a] = NoEnd
      BY <3>1, NewIsAlone
    <3>3. w \in Bearers
      BY <2>1, <2>4 DEF Bearers, Greeting
    <3> QED BY <1>2, <2>1, <2>2, <2>4, <3>1, <3>2, <3>3
  <2> QED BY <2>3, <2>4
<1>3. CASE SetPair(w)
  <2>1. worker[w] = "setpair" /\ UNCHANGED << port, conn, sent, lost >>
    BY <1>3 DEF SetPair, Goes, kernelVars
  <2>2. hand[w].end \in Ends /\ peer[w] \in Ends /\ m_pair[hand[w].end] = NoEnd
    BY <1>1, <2>1 DEF Holds, InServerMain, InCase4, HandFits
  <2> QED BY <1>3, <2>1, <2>2 DEF SetPair
<1>4. CASE ~ClientConnected(w) /\ ~SetPair(w)
  BY <1>4 DEF Worker, ServerMain, TakeTask, Accept, GetCompletion, NewAccept, FirstRecvOfPair, FirstRecv,
         Connect, Rearm, Pair, Send, NextServerMain
<1> QED BY <1>2, <1>3, <1>4

LEMMA PairsStay ==
    ASSUME RInv, [Next]_vars
    PROVE  \A e \in Ends : m_pair[e] # NoEnd => m_pair'[e] = m_pair[e]
<1>1. m_pair \in [Ends -> Ends \cup {NoEnd}]
  BY DEF RInv, TInv, TypeOK
<1>2. ASSUME NEW w \in Workers, Worker(w)
      PROVE  \A e \in Ends : m_pair[e] # NoEnd => m_pair'[e] = m_pair[e]
  <2>1. UNCHANGED m_pair \/ \E a, b \in Ends : m_pair' = [m_pair EXCEPT ![a] = b] /\ m_pair[a] = NoEnd
    BY <1>2, PairStep
  <2> QED BY <1>1, <2>1
<1>3. ASSUME NEW e \in Ends, Kernel(e)
      PROVE  UNCHANGED m_pair
  BY <1>3, KernelStep DEF Posts
<1> QED BY <1>2, <1>3 DEF Next, vars

-----------------------------------------------------------------------------
(* The object ClientConnected has made is new until it connects; and chunks *)
(* are in the hands of nobody but those who serve them.                     *)
FreshOf(w) ==
    /\ worker[w] \in {"setpair", "connect"} => conn[peer[w]] = "new"
    /\ worker[w] = "send" => peer[w] = m_pair[hand[w].end]
    /\ hand[w].packet # 0 => worker[w] \in {"rearm", "pair", "send"}

(* Nothing that failed, or that is not of a recv, brings a chunk.          *)
FreshInv ==
    /\ \A w \in Workers : FreshOf(w)
    /\ \A p \in Packets(port) : p.packet # 0 => p.type = "recv" /\ p.ok

LEMMA InitFresh == Init => FreshInv
BY DEF Init, FreshInv, FreshOf, Packets, Nothing

LEMMA OtherFresh ==
    ASSUME RInv, FreshInv, NEW v \in Workers, Worker(v), NEW w \in Workers \ {v}
    PROVE  FreshOf(w)'
<1>1. worker'[w] = worker[w] /\ hand'[w] = hand[w] /\ peer'[w] = peer[w]
  BY OthersStay
<1>2. FreshOf(w) /\ TypeOK /\ Holds
  BY DEF FreshInv, RInv, TInv
<1>3. ASSUME worker[w] \in {"setpair", "connect"} PROVE conn'[peer[w]] = "new"
  <2>1. conn[peer[w]] = "new" /\ w \in Bearers
    BY <1>2, <1>3 DEF FreshOf, Bearers, AcceptWorkers
  <2>2. CASE Accept(v)
    <3>1. PICK e \in Ends, c \in {"armed", "refused"} : IsNew(e) /\ conn' = [conn EXCEPT ![e] = c]
      BY <2>2 DEF Accept
    <3>2. peer[w] # e
      BY <3>1, NewIsAlone
    <3> QED BY <1>2, <2>1, <3>1, <3>2 DEF TypeOK
  <2>3. CASE Connect(v)
    <3>1. v \in Bearers
      BY <2>3 DEF Connect, Goes, Bearers, AcceptWorkers
    <3> QED BY <2>1, <3>1, MakesOne
  <2>4. CASE ~Accept(v) /\ ~Connect(v)
    <3>1. conn' = conn
      BY <2>4 DEF Worker, ServerMain, TakeTask, GetCompletion, NewAccept, FirstRecvOfPair, FirstRecv,
         ClientConnected, SetPair, Rearm, Pair, Send, NextServerMain, kernelVars
    <3> QED BY <2>1, <3>1
  <2> QED BY <2>2, <2>3, <2>4
<1>4. ASSUME worker[w] = "send" PROVE peer[w] = m_pair'[hand[w].end]
  <2>1. peer[w] = m_pair[hand[w].end] /\ peer[w] \in Ends /\ hand[w].end \in Ends
    BY <1>2, <1>4 DEF FreshOf, Holds, InServerMain
  <2> QED BY <2>1, PairsStay DEF NoEnd, Ends, Next
<1> QED BY <1>1, <1>2, <1>3, <1>4 DEF FreshOf

LEMMA OwnFresh ==
    ASSUME RInv, FreshInv, NEW w \in Workers, Worker(w)
    PROVE  FreshOf(w)'
<1>1. FreshOf(w) /\ TypeOK /\ Holds
  BY DEF FreshInv, RInv, TInv
<1>2. /\ worker \in [Workers -> WorkerPlaces] /\ peer \in [Workers -> Ends \cup {NoEnd}]
      /\ DOMAIN hand = Workers
  BY <1>1 DEF TypeOK
<1>3. ASSUME NEW from, NEW to, Goes(w, from, to) PROVE worker[w] = from /\ worker'[w] = to
  BY <1>2, <1>3 DEF Goes
<1>4. Served(w) => hand'[w].packet = 0
  BY <1>2 DEF Served, Nothing
<1> USE DEF FreshOf
<1>5. CASE TakeTask(w) \/ Accept(w) \/ NewAccept(w) \/ FirstRecvOfPair(w) \/ FirstRecv(w) \/ NextServerMain(w)
  BY <1>1, <1>3, <1>5 DEF TakeTask, Accept, NewAccept, FirstRecvOfPair, FirstRecv, NextServerMain
<1>6. CASE GetCompletion(w)
  <2> DEFINE p == Head(port)
  <2>1. p \in Packets(port) /\ p \in Completion
    BY <1>1, <1>6, TailPackets, TailQueue DEF GetCompletion, TypeOK
  <2>2. /\ worker'[w] = Serves(p)
        /\ hand'[w] = IF Serves(p) = "addmain" THEN Nothing ELSE [end |-> p.end, packet |-> p.packet]
    BY <1>2, <1>3, <1>6 DEF GetCompletion
  <2>3. p.packet # 0 => p.type = "recv" /\ p.ok
    BY <2>1 DEF FreshInv
  <2> HIDE DEF p
  <2> QED BY <2>2, <2>3 DEF Serves, Nothing
<1>7. CASE ClientConnected(w)
  <2>1. worker[w] = "connected" /\ hand[w].packet = 0 /\ worker'[w] \in {"setpair", "addmain"} /\ conn' = conn
    BY <1>1, <1>3, <1>7 DEF ClientConnected, kernelVars
  <2>2. hand'[w].packet = 0
    BY <1>4, <1>7, <2>1 DEF ClientConnected
  <2>3. worker'[w] = "setpair" => conn[peer'[w]] = "new"
    <3>1. ASSUME NEW f \in Ends, IsNew(f), peer' = [peer EXCEPT ![w] = f]
          PROVE  conn[peer'[w]] = "new"
      BY <1>2, <3>1, NewIsAlone
    <3> QED BY <1>3, <1>7, <3>1 DEF ClientConnected
  <2> QED BY <2>1, <2>2, <2>3
<1>8. CASE SetPair(w)
  <2>1. worker[w] = "setpair" /\ worker'[w] = "connect" /\ UNCHANGED << hand, peer, conn >>
    BY <1>3, <1>8 DEF SetPair, kernelVars
  <2> QED BY <1>1, <2>1
<1>9. CASE Connect(w) \/ Send(w)
  <2>1. worker'[w] = "addmain" /\ Served(w)
    BY <1>3, <1>9 DEF Connect, Send
  <2> QED BY <1>4, <2>1
<1>10. CASE Rearm(w)
  BY <1>1, <1>3, <1>10 DEF Rearm
<1>11. CASE Pair(w)
  <2>1. CASE worker'[w] = "send" /\ peer' = [peer EXCEPT ![w] = m_pair[hand[w].end]] /\ UNCHANGED << hand, m_pair >>
    BY <1>2, <2>1
  <2>2. CASE worker'[w] = "addmain" /\ Served(w)
    BY <1>4, <2>2
  <2> QED BY <1>3, <1>11, <2>1, <2>2 DEF Pair
<1> QED BY <1>5, <1>6, <1>7, <1>8, <1>9, <1>10, <1>11 DEF Worker, ServerMain

LEMMA NextFresh == RInv /\ FreshInv /\ [Next]_vars => FreshInv'
<1> SUFFICES ASSUME RInv, FreshInv, [Next]_vars PROVE FreshInv'
  OBVIOUS
<1>1. CASE UNCHANGED vars
  BY <1>1 DEF vars, workerVars, kernelVars, FreshInv, FreshOf
<1>2. ASSUME NEW w \in Workers, Worker(w)
      PROVE  FreshInv'
  <2>1. \A v \in Workers : FreshOf(v)'
    BY <1>2, OtherFresh, OwnFresh
  <2>2. Packets(port') \subseteq Packets(port)
    <3>1. CASE GetCompletion(w)
      BY <3>1, TailPackets DEF GetCompletion, RInv, TInv, TypeOK
    <3>2. CASE ~GetCompletion(w)
      <4>1. port' = port
        BY <1>2, <3>2 DEF Worker, ServerMain, TakeTask, Accept, NewAccept, FirstRecvOfPair, FirstRecv,
         ClientConnected, SetPair, Connect, Rearm, Pair, Send, NextServerMain
      <4> QED BY <4>1
    <3> QED BY <3>1, <3>2
  <2> QED BY <2>1, <2>2 DEF FreshInv
<1>3. ASSUME NEW e \in Ends, Kernel(e)
      PROVE  FreshInv'
  <2>1. UNCHANGED << worker, hand, peer, m_pair >> /\ \A f : f # e /\ f \in Ends => conn'[f] = conn[f]
    BY <1>3, KernelStep DEF Posts
  <2>2. conn[e] = "new" => conn'[e] = "new"
    BY <1>3, KernelStep DEF Posts
  <2>3. ASSUME NEW w \in Workers PROVE FreshOf(w)'
    <3>1. FreshOf(w) /\ (worker[w] \in {"setpair", "connect"} => peer[w] \in Ends)
      BY DEF FreshInv, RInv, TInv, Holds
    <3> QED BY <2>1, <2>2, <3>1 DEF FreshOf
  <2>4. port' = port \/ \E p \in Completion : port' = Append(port, p) /\ (p.packet # 0 => p.type = "recv" /\ p.ok)
    BY <1>3, KernelStep, Zenon DEF Posts
  <2>5. Packets(port') = Packets(port)
          \/ \E p \in Completion : Packets(port') = Packets(port) \cup {p} /\ (p.packet # 0 => p.type = "recv" /\ p.ok)
    <3>1. port \in Seq(Completion)
      BY DEF RInv, TInv, TypeOK
    <3>2. ASSUME NEW p \in Completion, port' = Append(port, p)
          PROVE  Packets(port') = Packets(port) \cup {p}
      BY <3>1, <3>2, AppendPackets
    <3>3. CASE port' = port
      BY <3>3
    <3> QED BY <2>4, <3>2, <3>3, Zenon
  <2> QED BY <2>3, <2>5 DEF FreshInv
<1> QED BY <1>1, <1>2, <1>3 DEF Next

-----------------------------------------------------------------------------
(* The right to receive from an end: it comes with its connection, from    *)
(* the completion of AcceptEx or ConnectEx to the first Recv, and goes      *)
(* from each WSARecv to the next.                                           *)

(* Before the connection of an end is there.                               *)
NotOpen == {"new", "armed", "connecting", "refused"}

Comes(e) == {p \in Completion :
                p.end = e /\ (p.type = "recv" \/ (p.type \in {"accept", "connect"} /\ p.ok))}
CameIn(e) == Where(port, Comes(e))

Arms == {"firstrecv4", "newaccept", "firstrecv1", "rearm"}
Receivers(e) == {w \in Workers : worker[w] \in Arms /\ hand[w].end = e}

NoRecv(e) == recvs[e] = 0 /\ CameIn(e) = {} /\ Receivers(e) = {} /\ received[e] = 0

RecvOf(e) ==
    /\ recvs[e] \leq 1 /\ AtMostOneOf(CameIn(e)) /\ AtMostOneOf(Receivers(e))
    /\ recvs[e] # 0 => CameIn(e) = {} /\ Receivers(e) = {}
    /\ CameIn(e) # {} => Receivers(e) = {}
    /\ conn[e] \in NotOpen => NoRecv(e)

RecvInv == \A e \in Ends : RecvOf(e)

LEMMA InitRecv == Init => RecvInv
BY DEF Init, RecvInv, RecvOf, NoRecv, CameIn, Receivers, Arms, Where, AtMostOneOf

(* A step that changes none of it.                                         *)
SameRecv(e) ==
    /\ recvs'[e] = recvs[e] /\ received'[e] = received[e]
    /\ AtMostOneOf(CameIn(e)') /\ (CameIn(e)' = {} <=> CameIn(e) = {})
    /\ Receivers(e)' = Receivers(e)
    /\ conn'[e] \in NotOpen => conn[e] \in NotOpen

LEMMA RecvStays == ASSUME NEW e, RecvOf(e), SameRecv(e) PROVE RecvOf(e)'
BY DEF RecvOf, NoRecv, SameRecv

LEMMA AddedRecv ==
    ASSUME TypeOK, NEW e, NEW p \in Completion, port' = Append(port, p)
    PROVE  /\ p \notin Comes(e) => CameIn(e)' = CameIn(e)
           /\ p \in Comes(e) /\ CameIn(e) = {} => CameIn(e)' # {} /\ AtMostOneOf(CameIn(e)')
<1>1. port \in Seq(Completion)
  BY DEF TypeOK
<1>2. CameIn(e)' = Where(Append(port, p), Comes(e))
  BY DEF CameIn, Where, Comes
<1> QED BY <1>1, <1>2, AppendWhere DEF CameIn

LEMMA TakenRecv ==
    ASSUME TypeOK, NEW e, port # << >>, port' = Tail(port), AtMostOneOf(CameIn(e))
    PROVE  /\ AtMostOneOf(CameIn(e)')
           /\ Head(port) \in Comes(e) => CameIn(e) # {} /\ CameIn(e)' = {}
           /\ Head(port) \notin Comes(e) => (CameIn(e)' = {} <=> CameIn(e) = {})
<1>1. port \in Seq(Completion)
  BY DEF TypeOK
<1>2. CameIn(e)' = Where(Tail(port), Comes(e))
  BY DEF CameIn, Where, Comes
<1> QED BY <1>1, <1>2, TailWhere DEF CameIn

LEMMA WorkerRecv ==
    ASSUME RInv, FreshInv, RecvInv, NEW w \in Workers, Worker(w)
    PROVE  RecvInv'
<1> SUFFICES ASSUME NEW e \in Ends PROVE RecvOf(e)'
  BY DEF RecvInv
<1>1. RecvOf(e) /\ AtMostOneOf(CameIn(e)) /\ TypeOK /\ Holds
  BY DEF RecvInv, RecvOf, RInv, TInv
<1>2. /\ \A v \in Workers \ {w} : worker'[v] = worker[v] /\ hand'[v] = hand[v]
      /\ received' = received
  BY OthersStay
<1>3. Receivers(e)' \ {w} = Receivers(e) \ {w}
  BY <1>2 DEF Receivers
<1>4. ASSUME NEW from, NEW to, Goes(w, from, to)
      PROVE  worker[w] = from /\ worker'[w] = to
  BY <1>1, <1>4 DEF Goes, TypeOK
<1>5. ASSUME UNCHANGED << recvs, port >>, w \in Receivers(e)' <=> w \in Receivers(e),
             conn'[e] \in NotOpen => conn[e] \in NotOpen
      PROVE  RecvOf(e)'
  <2>1. Receivers(e)' = Receivers(e)
    <3>1. Receivers(e) \subseteq Workers /\ Receivers(e)' \subseteq Workers
      BY DEF Receivers
    <3> QED BY <1>3, <1>5, <3>1
  <2>2. CameIn(e)' = CameIn(e)
    BY <1>5 DEF CameIn, Comes
  <2> QED BY <1>1, <1>2, <1>5, <2>1, <2>2, RecvStays DEF SameRecv
<1>6. CASE TakeTask(w) \/ ClientConnected(w) \/ SetPair(w) \/ Pair(w) \/ Send(w) \/ NextServerMain(w)
  <2>1. UNCHANGED << recvs, port, conn >> /\ worker[w] \notin Arms /\ worker'[w] \notin Arms
    BY <1>4, <1>6 DEF TakeTask, ClientConnected, SetPair, Pair, Send, NextServerMain, kernelVars, Arms
  <2> QED BY <1>5, <2>1 DEF Receivers
<1>7. CASE NewAccept(w)
  <2>1. UNCHANGED << recvs, port, conn, hand >> /\ worker[w] \in Arms /\ worker'[w] \in Arms
    BY <1>4, <1>7 DEF NewAccept, kernelVars, Arms
  <2> QED BY <1>5, <2>1 DEF Receivers
<1>8. CASE Accept(w) \/ Connect(w)
  <2>1. UNCHANGED << recvs, port >> /\ worker[w] \notin Arms /\ worker'[w] \notin Arms
    BY <1>4, <1>8 DEF Accept, Connect, Arms
  <2>2. ASSUME NEW f \in Ends, conn[f] = "new", NEW c \in NotOpen, conn' = [conn EXCEPT ![f] = c]
        PROVE  conn'[e] \in NotOpen => conn[e] \in NotOpen
    BY <1>1, <2>2 DEF NotOpen, TypeOK
  <2>3. conn'[e] \in NotOpen => conn[e] \in NotOpen
    <3>1. CASE Accept(w)
      BY <2>2, <3>1, NewIsAlone DEF Accept, NotOpen
    <3>2. CASE Connect(w)
      <4>1. PICK c \in {"connecting", "refused"} : conn' = [conn EXCEPT ![peer[w]] = c]
        BY <3>2 DEF Connect
      <4>2. c \in NotOpen
        BY DEF NotOpen
      <4>3. peer[w] \in Ends /\ conn[peer[w]] = "new"
        BY <1>1, <1>4, <3>2 DEF Connect, Holds, FreshInv, FreshOf
      <4> QED BY <2>2, <4>1, <4>2, <4>3
    <3> QED BY <1>8, <3>1, <3>2
  <2> QED BY <1>5, <2>1, <2>3 DEF Receivers
<1>9. CASE FirstRecv(w) \/ FirstRecvOfPair(w) \/ Rearm(w)
  <2>1. /\ worker[w] \in Arms /\ worker'[w] \notin Arms
        /\ Recv(hand[w].end) /\ UNCHANGED << port, hand, conn >>
    BY <1>4, <1>9 DEF FirstRecv, FirstRecvOfPair, Rearm, Arms
  <2>2. CameIn(e)' = CameIn(e)
    BY <2>1 DEF CameIn, Comes
  <2>3. CASE hand[w].end = e
    <3>1. w \in Receivers(e) /\ Receivers(e)' = {}
      <4>1. w \in Receivers(e) /\ w \notin Receivers(e)'
        BY <2>1, <2>3 DEF Receivers
      <4> QED BY <1>1, <1>3, <4>1 DEF RecvOf, AtMostOneOf
    <3>2. recvs[e] = 0 /\ CameIn(e) = {} /\ conn[e] \notin NotOpen
      BY <1>1, <3>1 DEF RecvOf, NoRecv
    <3>3. recvs'[e] \in {0, 1}
      BY <1>1, <2>1, <2>3, <3>2 DEF Recv, TypeOK
    <3> QED BY <2>1, <2>2, <3>1, <3>2, <3>3 DEF RecvOf, NoRecv, AtMostOneOf
  <2>4. CASE hand[w].end # e
    <3>1. Receivers(e)' = Receivers(e)
      <4>1. w \notin Receivers(e) /\ w \notin Receivers(e)'
        BY <2>1, <2>4 DEF Receivers
      <4> QED BY <1>3, <4>1
    <3>2. recvs'[e] = recvs[e]
      BY <1>1, <2>1, <2>4 DEF Recv, TypeOK
    <3> QED BY <1>1, <1>2, <2>1, <2>2, <3>1, <3>2, RecvStays DEF SameRecv
  <2> QED BY <2>3, <2>4
<1>10. CASE GetCompletion(w)
  <2> DEFINE p == Head(port)
  <2>1. /\ UNCHANGED << recvs, conn >> /\ port # << >> /\ port' = Tail(port)
        /\ worker[w] = "get" /\ worker'[w] = Serves(p)
        /\ hand'[w] = IF Serves(p) = "addmain" THEN Nothing ELSE [end |-> p.end, packet |-> p.packet]
    BY <1>1, <1>4, <1>10 DEF GetCompletion, kernelVars, TypeOK
  <2>2. p \in Completion
    BY <1>1, <2>1, TailQueue DEF TypeOK
  <2>3. w \notin Receivers(e)
    BY <2>1 DEF Receivers, Arms
  <2>4. w \in Receivers(e)' => p \in Comes(e)
    <3>1. p.type \in {"connect", "recv", "send", "accept"}
      BY <2>2 DEF Completion
    <3> HIDE DEF p
    <3> QED BY <2>1, <2>2, <3>1 DEF Receivers, Arms, Comes, Serves
  <2>5. /\ AtMostOneOf(CameIn(e)')
        /\ p \in Comes(e) => CameIn(e) # {} /\ CameIn(e)' = {}
        /\ p \notin Comes(e) => (CameIn(e)' = {} <=> CameIn(e) = {})
    BY <1>1, <2>1, TakenRecv
  <2> HIDE DEF p
  <2>6. CASE p \in Comes(e)
    <3>1. Receivers(e) = {} /\ recvs[e] = 0 /\ conn[e] \notin NotOpen
      BY <1>1, <2>5, <2>6 DEF RecvOf, NoRecv
    <3>2. \A v \in Receivers(e)' : v = w
      BY <1>3, <3>1
    <3> QED BY <2>1, <2>5, <2>6, <3>1, <3>2 DEF RecvOf, NoRecv, AtMostOneOf
  <2>7. CASE p \notin Comes(e)
    <3>1. Receivers(e)' = Receivers(e)
      BY <1>3, <2>3, <2>4, <2>7
    <3> QED BY <1>1, <1>2, <2>1, <2>5, <2>7, <3>1, RecvStays DEF SameRecv
  <2> QED BY <2>6, <2>7
<1> QED BY <1>6, <1>7, <1>8, <1>9, <1>10 DEF Worker, ServerMain

LEMMA KernelRecv ==
    ASSUME RInv, RecvInv, NEW d \in Ends, Kernel(d)
    PROVE  RecvInv'
<1> SUFFICES ASSUME NEW e \in Ends PROVE RecvOf(e)'
  BY DEF RecvInv
<1>1. RecvOf(e) /\ AtMostOneOf(CameIn(e)) /\ TypeOK /\ recvs[e] \in Nat
  BY DEF RecvInv, RecvOf, RInv, TInv, TypeOK
<1>2. UNCHANGED << worker, hand >> /\ Receivers(e)' = Receivers(e)
  BY KernelStep DEF Receivers, Posts
<1>3. CASE UNCHANGED << port, recvs, received, early >> /\ conn'[d] \in {"eof", "reset"}
  <2>1. CameIn(e)' = CameIn(e)
    BY <1>3 DEF CameIn, Comes
  <2>2. conn'[e] \in NotOpen => conn[e] \in NotOpen
    <3>1. e # d => conn'[e] = conn[e]
      BY KernelStep DEF Posts
    <3> QED BY <1>3, <3>1 DEF NotOpen
  <2> QED BY <1>1, <1>2, <1>3, <2>1, <2>2, RecvStays DEF SameRecv
<1>4. ASSUME NEW p \in Completion, port' = Append(port, p), p.end = d,
             \A f \in Ends \ {d} : conn'[f] = conn[f] /\ recvs'[f] = recvs[f] /\ received'[f] = received[f],
             \/ /\ conn[d] \in {"armed", "connecting"} /\ conn'[d] = "open"
                /\ p.type \in {"accept", "connect"} /\ p.ok /\ UNCHANGED << recvs, received >>
             \/ /\ conn[d] \in {"armed", "connecting"} /\ conn'[d] = "refused"
                /\ p.type \in {"accept", "connect"} /\ ~p.ok /\ UNCHANGED << recvs, received >>
             \/ /\ recvs[d] > 0 /\ recvs'[d] = recvs[d] - 1 /\ UNCHANGED conn
                /\ p.type = "recv"
             \/ p.type = "send" /\ UNCHANGED << conn, recvs, received >>
      PROVE  RecvOf(e)'
  <2>1. /\ p \notin Comes(e) => CameIn(e)' = CameIn(e)
        /\ p \in Comes(e) /\ CameIn(e) = {} => CameIn(e)' # {} /\ AtMostOneOf(CameIn(e)')
    BY <1>1, <1>4, AddedRecv
  <2>2. CASE e # d
    <3>1. p \notin Comes(e)
      BY <1>4, <2>2 DEF Comes
    <3> QED BY <1>1, <1>2, <1>4, <2>1, <2>2, <3>1, RecvStays DEF SameRecv
  <2>3. CASE e = d
    <3>1. CASE p.type = "send" /\ UNCHANGED << conn, recvs, received >>
      <4>1. p \notin Comes(e)
        BY <3>1 DEF Comes
      <4> QED BY <1>1, <1>2, <2>1, <3>1, <4>1, RecvStays DEF SameRecv
    <3>2. CASE /\ conn[d] \in {"armed", "connecting"} /\ conn'[d] = "refused"
               /\ p.type \in {"accept", "connect"} /\ ~p.ok /\ UNCHANGED << recvs, received >>
      <4>1. p \notin Comes(e)
        BY <3>2 DEF Comes
      <4> QED BY <1>1, <1>2, <2>1, <2>3, <3>2, <4>1, RecvStays DEF SameRecv, NotOpen
    <3>3. CASE /\ conn[d] \in {"armed", "connecting"} /\ conn'[d] = "open"
               /\ p.type \in {"accept", "connect"} /\ p.ok /\ UNCHANGED << recvs, received >>
      <4>1. NoRecv(e)
        BY <1>1, <2>3, <3>3 DEF RecvOf, NotOpen
      <4>2. CameIn(e)' # {} /\ AtMostOneOf(CameIn(e)')
        <5>1. p \in Comes(e)
          BY <1>4, <2>3, <3>3 DEF Comes
        <5> QED BY <2>1, <4>1, <5>1 DEF NoRecv
      <4> QED BY <1>2, <2>3, <3>3, <4>1, <4>2 DEF RecvOf, NoRecv, AtMostOneOf, NotOpen
    <3>4. CASE recvs[d] > 0 /\ recvs'[d] = recvs[d] - 1 /\ UNCHANGED conn /\ p.type = "recv"
      <4>1. recvs'[e] = 0 /\ CameIn(e) = {} /\ Receivers(e) = {} /\ conn[e] \notin NotOpen
        BY <1>1, <2>3, <3>4 DEF RecvOf, NoRecv
      <4>2. CameIn(e)' # {} /\ AtMostOneOf(CameIn(e)')
        <5>1. p \in Comes(e)
          BY <1>4, <2>3, <3>4 DEF Comes
        <5> QED BY <2>1, <4>1, <5>1
      <4> QED BY <1>2, <3>4, <4>1, <4>2 DEF RecvOf, NoRecv, AtMostOneOf
    <3> QED BY <1>4, <3>1, <3>2, <3>3, <3>4
  <2> QED BY <2>2, <2>3
<1>5. \A f \in Ends \ {d} : conn'[f] = conn[f] /\ recvs'[f] = recvs[f] /\ received'[f] = received[f]
  BY KernelStep DEF Posts
<1> QED BY <1>3, <1>4, <1>5, KernelStep DEF Posts

LEMMA NextRecv == RInv /\ FreshInv /\ RecvInv /\ [Next]_vars => RecvInv'
<1> SUFFICES ASSUME RInv, FreshInv, RecvInv, [Next]_vars PROVE RecvInv'
  OBVIOUS
<1>1. CASE UNCHANGED vars
  BY <1>1 DEF vars, workerVars, kernelVars, RecvInv, RecvOf, NoRecv, CameIn, Receivers, AtMostOneOf, Where, Comes
<1> QED BY <1>1, WorkerRecv, KernelRecv DEF Next

-----------------------------------------------------------------------------
(* Chunks are sent to an end only as those of its pair, once it is open.    *)
SentInv ==
    \A f \in Ends : sent[f] # << >> => conn[f] \notin NotOpen /\ \E e \in Ends : m_pair[e] = f

Gone(e) == PassedOn(e) \cup lost[e]

LEMMA PassedTypes ==
    ASSUME TypeOK, NEW e \in Ends
    PROVE  /\ m_pair[e] # NoEnd => /\ m_pair[e] \in Ends /\ PassedOn(e) = Packets(sent[m_pair[e]])
                                   /\ sent[m_pair[e]] \in Seq(1 .. MaxPackets)
           /\ m_pair[e] = NoEnd => PassedOn(e) = {}
           /\ PassedOn(e) \subseteq 1 .. MaxPackets
<1>1. m_pair[e] \in Ends \cup {NoEnd} /\ sent \in [Ends -> Seq(1 .. MaxPackets)]
  BY DEF TypeOK
<1>2. ASSUME m_pair[e] # NoEnd
      PROVE  /\ m_pair[e] \in Ends /\ PassedOn(e) = Packets(sent[m_pair[e]])
             /\ sent[m_pair[e]] \in Seq(1 .. MaxPackets)
  BY <1>1, <1>2 DEF PassedOn, SentOf, Packets
<1>3. ASSUME NEW q \in Seq(1 .. MaxPackets) PROVE Packets(q) \subseteq 1 .. MaxPackets
  BY ElementOfSeq, LenProperties DEF Packets
<1>4. m_pair[e] = NoEnd => PassedOn(e) = {}
  BY DEF PassedOn
<1> QED BY <1>2, <1>3, <1>4

(* Nothing has been sent yet to an end that is about to be somebody's.     *)
LEMMA PassedStays ==
    ASSUME RInv, FreshInv, SentInv, [Next]_vars, UNCHANGED sent, NEW e \in Ends
    PROVE  PassedOn(e)' = PassedOn(e)
<1>1. m_pair \in [Ends -> Ends \cup {NoEnd}] /\ TypeOK
  BY DEF RInv, TInv, TypeOK
<1>2. CASE m_pair'[e] = m_pair[e]
  BY <1>2 DEF PassedOn, SentOf
<1>3. CASE m_pair'[e] # m_pair[e]
  <2>1. PICK w \in Workers : Worker(w)
    BY <1>3, KernelStep DEF Next, vars, Posts
  <2>2. PICK a \in Ends, b \in Ends :
           /\ m_pair' = [m_pair EXCEPT ![a] = b] /\ m_pair[a] = NoEnd
           /\ \/ worker[w] = "connected" /\ w \in Bearers /\ b = hand[w].end /\ m_pair[b] = NoEnd
              \/ worker[w] = "setpair" /\ b = peer[w]
    BY <1>3, <2>1, PairStep
  <2>3. a = e /\ m_pair'[e] = b /\ PassedOn(e) = {}
    BY <1>1, <1>3, <2>2 DEF PassedOn
  <2>4. sent[b] = << >>
    <3>1. CASE worker[w] = "connected" /\ w \in Bearers /\ m_pair[b] = NoEnd
      <4>1. ASSUME NEW g \in Ends, m_pair[g] = b PROVE FALSE
        <5>1. m_pair[b] # g
          BY <3>1 DEF NoEnd, Ends
        <5>2. PICK v \in Workers : worker[v] = "setpair" /\ v \in Bearers
          BY <4>1, <5>1, UnpairedAlone
        <5> QED BY <3>1, <5>2, MakesOne
      <4> QED BY <4>1 DEF SentInv
    <3>2. CASE worker[w] = "setpair" /\ b = peer[w]
      BY <3>2 DEF FreshInv, FreshOf, SentInv, NotOpen
    <3> QED BY <2>2, <3>1, <3>2
  <2>5. PassedOn(e)' = {}
    <3>1. DOMAIN sent'[b] = {}
      BY <2>4
    <3> QED BY <2>3, <3>1 DEF PassedOn, SentOf
  <2> QED BY <2>3, <2>5
<1> QED BY <1>2, <1>3

(* The kinds of steps, by what they do to the chunks.                      *)
SameGone == \A e \in Ends : PassedOn(e)' = PassedOn(e) /\ lost'[e] = lost[e]

Quiet ==
    /\ \A w \in Workers : hand'[w] = hand[w] \/ (hand[w].packet = 0 /\ hand'[w].packet = 0)
    /\ \A p \in Completion : p.packet # 0 => (p \in Packets(port') <=> p \in Packets(port))
    /\ SameGone /\ UNCHANGED << received, sent >>

Arrives(p) ==
    /\ p.packet = received[p.end] + 1
    /\ received' = [received EXCEPT ![p.end] = p.packet]
    /\ Packets(port') = Packets(port) \cup {p}
    /\ \A q \in Packets(port) : q.packet # 0 => q.end # p.end
    /\ SameGone /\ UNCHANGED << hand, sent >>

OthersKeep(w) == \A v \in Workers \ {w} : hand'[v] = hand[v]

Takes(w) ==
    /\ hand[w].packet = 0 /\ hand'[w].packet # 0 /\ OthersKeep(w)
    /\ \E p \in Completion :
          /\ hand'[w] = [end |-> p.end, packet |-> p.packet]
          /\ Packets(port) = Packets(port') \cup {p}
          /\ \A q \in Packets(port') : q.packet # 0 => q.end # p.end
    /\ SameGone /\ UNCHANGED << received, sent >>

InHand(w, e, k) == hand[w] = [end |-> e, packet |-> k] /\ e \in Ends /\ k \in 1 .. MaxPackets

Passes(w, e, k) ==
    /\ InHand(w, e, k) /\ hand'[w].packet = 0 /\ OthersKeep(w)
    /\ m_pair[e] \in Ends /\ conn[m_pair[e]] \notin NotOpen
    /\ sent' = [sent EXCEPT ![m_pair[e]] = Append(@, k)]
    /\ PassedOn(e)' = PassedOn(e) \cup {k}
    /\ \A d \in Ends \ {e} : PassedOn(d)' = PassedOn(d)
    /\ UNCHANGED << lost, received, port, conn, m_pair, early >>

Drops(w, e, k) ==
    /\ InHand(w, e, k) /\ hand'[w].packet = 0 /\ OthersKeep(w)
    /\ lost' = [lost EXCEPT ![e] = @ \cup {k}]
    /\ \A f \in Ends : m_pair[f] = e => conn[f] \notin {"open", "eof"}
    /\ \A d \in Ends : PassedOn(d)' = PassedOn(d)
    /\ UNCHANGED << sent, received, port, conn, m_pair, early >>

LEMMA HandTypes ==
    ASSUME RInv, FreshInv, NEW w \in Workers
    PROVE  /\ hand[w] \in Hands /\ hand[w].packet \in Nat
           /\ hand[w].packet # 0 => /\ hand[w].end \in Ends /\ hand[w].packet \in 1 .. MaxPackets
                                    /\ InHand(w, hand[w].end, hand[w].packet)
<1>1. hand[w] \in Hands /\ MaxPackets \in Nat
  BY CpuCount DEF RInv, TInv, TypeOK, Hands
<1>2. hand[w].packet \in 0 .. MaxPackets
  BY <1>1 DEF Hands
<1>3. hand[w].packet # 0 => hand[w].end \in Ends
  BY DEF FreshInv, FreshOf, RInv, TInv, Holds, InServerMain
<1> QED BY <1>1, <1>2, <1>3 DEF InHand, Hands

LEMMA KernelChunks ==
    ASSUME RInv, FreshInv, RecvInv, SentInv, NEW e \in Ends, Kernel(e)
    PROVE  Quiet \/ \E p \in Completion : Arrives(p)
<1>1. TypeOK /\ port \in Seq(Completion) /\ received \in [Ends -> 0 .. MaxPackets]
  BY DEF RInv, TInv, TypeOK
<1>2. UNCHANGED << m_pair, hand, sent, lost >> /\ \A f \in Ends \ {e} : received'[f] = received[f]
  BY KernelStep DEF Posts
<1>3. SameGone
  BY <1>2 DEF SameGone, PassedOn, SentOf
<1>4. received' = [received EXCEPT ![e] = received'[e]]
  BY <1>1 DEF Kernel, PeerConnects, AcceptFails, ConnectCompletes, RecvCompletes, SendCompletes, PeerEnds
<1>5. CASE UNCHANGED << port, received >>
  BY <1>2, <1>3, <1>5 DEF Quiet
<1>6. ASSUME NEW p \in Completion, port' = Append(port, p), p.packet = 0, UNCHANGED received
      PROVE  Quiet
  <2>1. Packets(port') = Packets(port) \cup {p}
    BY <1>1, <1>6, AppendPackets
  <2> QED BY <1>2, <1>3, <1>6, <2>1 DEF Quiet
<1>7. ASSUME NEW p \in Completion, port' = Append(port, p), p.end = e, recvs[e] > 0,
             received'[e] = received[e] + 1, p.packet = received[e] + 1
      PROVE  Arrives(p)
  <2>1. Packets(port') = Packets(port) \cup {p}
    BY <1>1, <1>7, AppendPackets
  <2>2. received' = [received EXCEPT ![e] = p.packet]
    BY <1>4, <1>7
  <2>3. \A q \in Packets(port) : q.packet # 0 => q.end # e
    <3> SUFFICES ASSUME NEW q \in Packets(port), q.packet # 0, q.end = e PROVE FALSE
      OBVIOUS
    <3>1. q \in Completion /\ q.type = "recv" /\ q.ok
      BY <1>1, PacketTypes DEF FreshInv
    <3>2. CameIn(e) = {}
      BY <1>7 DEF RecvInv, RecvOf
    <3>3. q \in Comes(e)
      BY <3>1 DEF Comes
    <3> QED BY <1>1, <3>2, <3>3, LenProperties DEF CameIn, Where, Packets
  <2> QED BY <1>2, <1>3, <1>7, <2>1, <2>2, <2>3 DEF Arrives
<1>8. \/ UNCHANGED << port, received >>
      \/ \E p \in Completion :
            /\ port' = Append(port, p) /\ p.end = e
            /\ \/ p.packet = 0 /\ UNCHANGED received
               \/ recvs[e] > 0 /\ received'[e] = received[e] + 1 /\ p.packet = received[e] + 1
  <2> HIDE DEF Kernel
  <2> QED BY KernelStep DEF Posts
<1> QED BY <1>5, <1>6, <1>7, <1>8

LEMMA LosesNothing ==
    ASSUME RInv, NEW w \in Workers, Loses(w), hand[w].end \in Ends
    PROVE  /\ hand[w].packet = 0 => lost' = lost
           /\ hand[w].packet # 0 => lost' = [lost EXCEPT ![hand[w].end] = @ \cup {hand[w].packet}]
<1>1. lost \in [Ends -> SUBSET (1 .. MaxPackets)]
  BY DEF RInv, TInv, TypeOK
<1>2. hand[w].packet = 0 => {hand[w].packet} \ {0} = {}
  OBVIOUS
<1>3. hand[w].packet # 0 => {hand[w].packet} \ {0} = {hand[w].packet}
  OBVIOUS
<1> QED BY <1>1, <1>2, <1>3 DEF Loses

LEMMA GetChunks ==
    ASSUME RInv, FreshInv, RecvInv, SentInv, NEW w \in Workers, GetCompletion(w), SameGone
    PROVE  Quiet \/ Takes(w)
<1> DEFINE p == Head(port)
<1>1. TypeOK /\ port \in Seq(Completion) /\ FreshOf(w) /\ DOMAIN hand = Workers
  BY DEF RInv, TInv, TypeOK, FreshInv
<1>2. /\ UNCHANGED << received, sent >> /\ port # << >> /\ port' = Tail(port) /\ worker[w] = "get"
      /\ hand' = [hand EXCEPT ![w] = IF Serves(p) = "addmain" THEN Nothing
                                     ELSE [end |-> p.end, packet |-> p.packet]]
  BY DEF GetCompletion, kernelVars, Goes
<1>3. hand[w].packet = 0 /\ OthersKeep(w)
  BY <1>1, <1>2 DEF FreshOf, OthersKeep
<1>4. Packets(port) = Packets(port') \cup {p} /\ p \in Completion
  BY <1>1, <1>2, TailPackets, TailQueue
<1>5. hand'[w] = IF Serves(p) = "addmain" THEN Nothing ELSE [end |-> p.end, packet |-> p.packet]
  BY <1>1, <1>2
<1> HIDE DEF p
<1>6. CASE p.packet = 0
  <2>1. hand'[w].packet = 0
    BY <1>5, <1>6 DEF Nothing
  <2> QED BY <1>2, <1>3, <1>4, <1>6, <2>1 DEF Quiet, OthersKeep
<1>7. CASE p.packet # 0
  <2>1. p.type = "recv" /\ p.ok
    BY <1>4, <1>7 DEF FreshInv
  <2>2. hand'[w] = [end |-> p.end, packet |-> p.packet]
    BY <1>5, <2>1 DEF Serves
  <2>3. \A q \in Packets(port') : q.packet # 0 => q.end # p.end
    <3> SUFFICES ASSUME NEW q \in Packets(port'), q.packet # 0, q.end = p.end PROVE FALSE
      OBVIOUS
    <3>1. PICK e \in Ends : e = p.end
      BY <1>4 DEF Completion
    <3>2. AtMostOneOf(CameIn(e)) /\ q \in Completion /\ q.type = "recv"
      BY <1>1, <1>4, PacketTypes DEF RecvInv, RecvOf, FreshInv
    <3>3. p \in Comes(e) /\ q \in Comes(e)
      BY <1>4, <2>1, <3>1, <3>2 DEF Comes
    <3>4. CameIn(e)' = {}
      BY <1>1, <1>2, <3>2, <3>3, TakenRecv DEF p
    <3>5. Where(port', Comes(e)) = {}
      BY <3>4 DEF CameIn, Comes
    <3>6. port' \in Seq(Completion)
      BY <1>1, <1>2, TailQueue
    <3> QED BY <3>3, <3>5, <3>6, LenProperties DEF Where, Packets
  <2> QED BY <1>2, <1>3, <1>4, <1>7, <2>2, <2>3 DEF Takes
<1> QED BY <1>6, <1>7

(* Who is connected and whose pair an end is.                              *)
LEMMA SenderIsPair ==
    ASSUME RInv, FreshInv, NEW e \in Ends, NEW f \in Ends, m_pair[f] = e, conn[f] # "new"
    PROVE  m_pair[e] = f
<1> SUFFICES ASSUME m_pair[e] # f PROVE FALSE
  OBVIOUS
<1>1. PICK v \in Workers : worker[v] = "setpair" /\ peer[v] = f
  BY UnpairedAlone
<1> QED BY <1>1 DEF FreshInv, FreshOf

LEMMA PairChunks ==
    ASSUME RInv, FreshInv, RecvInv, SentInv, NEW w \in Workers, Pair(w), \A d \in Ends : PassedOn(d)' = PassedOn(d)
    PROVE  Quiet \/ \E e \in Ends, k \in 1 .. MaxPackets : Drops(w, e, k)
<1>1. TypeOK /\ FreshOf(w) /\ DOMAIN hand = Workers
  BY DEF RInv, TInv, TypeOK, FreshInv
<1>2. worker[w] = "pair" /\ hand[w].end \in Ends
  BY DEF Pair, Goes, RInv, TInv, Holds, InServerMain
<1>3. UNCHANGED << sent, received, port, conn, m_pair, early >>
  BY DEF Pair, kernelVars
<1>4. CASE UNCHANGED << hand, lost >>
  BY <1>3, <1>4 DEF Quiet, SameGone
<1>5. CASE m_pair[hand[w].end] = NoEnd /\ Loses(w) /\ Served(w)
  <2>1. hand'[w].packet = 0 /\ OthersKeep(w)
    BY <1>1, <1>5 DEF Served, Nothing, OthersKeep
  <2>2. CASE hand[w].packet = 0
    <3>1. lost' = lost
      BY <1>2, <1>5, <2>2, LosesNothing
    <3> QED BY <1>3, <2>1, <2>2, <3>1 DEF Quiet, SameGone, OthersKeep
  <2>3. CASE hand[w].packet # 0
    <3>1. lost' = [lost EXCEPT ![hand[w].end] = @ \cup {hand[w].packet}]
      BY <1>2, <1>5, <2>3, LosesNothing
    <3>2. \A f \in Ends : m_pair[f] = hand[w].end => conn[f] = "new"
      BY <1>2, <1>5, SenderIsPair DEF NoEnd, Ends
    <3>3. Drops(w, hand[w].end, hand[w].packet)
      BY <1>2, <1>3, <2>1, <2>3, <3>1, <3>2, HandTypes DEF Drops
    <3> QED BY <2>3, <3>3, HandTypes
  <2> QED BY <2>2, <2>3
<1> QED BY <1>4, <1>5 DEF Pair

LEMMA SendChunks ==
    ASSUME RInv, FreshInv, RecvInv, SentInv, NEW w \in Workers, Send(w)
    PROVE  Quiet \/ \E e \in Ends, k \in 1 .. MaxPackets : Drops(w, e, k) \/ Passes(w, e, k)
<1>0. PICK e, k, f : e = hand[w].end /\ k = hand[w].packet /\ f = peer[w]
  OBVIOUS
<1>1. TypeOK /\ FreshOf(w) /\ DOMAIN hand = Workers /\ sent \in [Ends -> Seq(1 .. MaxPackets)]
  BY DEF RInv, TInv, TypeOK, FreshInv
<1>2. worker[w] = "send" /\ e \in Ends /\ f \in Ends
  BY <1>0 DEF Send, Goes, RInv, TInv, Holds, InServerMain
<1>3. f = m_pair[e]
  BY <1>0, <1>1, <1>2 DEF FreshOf
<1>4. UNCHANGED << received, port, conn, m_pair, early >> /\ hand'[w].packet = 0 /\ OthersKeep(w)
  BY <1>1 DEF Send, Served, Nothing, OthersKeep
<1>5. CASE UNCHANGED << sent, lost >> /\ k = 0
  BY <1>0, <1>4, <1>5 DEF Quiet, SameGone, PassedOn, SentOf, OthersKeep
<1>6. CASE /\ k # 0 /\ conn[f] \in {"open", "eof"}
           /\ sent' = [sent EXCEPT ![f] = Append(@, k)] /\ UNCHANGED lost
  <2>1. k \in 1 .. MaxPackets /\ InHand(w, e, k)
    BY <1>0, <1>6, HandTypes
  <2>2. sent'[f] = Append(sent[f], k) /\ \A g \in Ends \ {f} : sent'[g] = sent[g]
    BY <1>1, <1>2, <1>6
  <2>3. PassedOn(e)' = PassedOn(e) \cup {k}
    <3>1. PassedOn(e) = Packets(sent[f]) /\ sent[f] \in Seq(1 .. MaxPackets)
      BY <1>1, <1>2, <1>3, PassedTypes DEF NoEnd, Ends
    <3>2. PassedOn(e)' = Packets(sent'[f])
      BY <1>2, <1>3, <1>4 DEF PassedOn, SentOf, Packets, NoEnd, Ends
    <3>3. Packets(Append(sent[f], k)) = Packets(sent[f]) \cup {k}
      <4> DEFINE S == 1 .. MaxPackets
      <4>1. sent[f] \in Seq(S) /\ k \in S
        BY <2>1, <3>1
      <4> HIDE DEF S
      <4> QED BY <4>1, AppendPackets
    <3> QED BY <2>2, <3>1, <3>2, <3>3
  <2>4. \A d \in Ends \ {e} : PassedOn(d)' = PassedOn(d)
    <3> SUFFICES ASSUME NEW d \in Ends, d # e PROVE PassedOn(d)' = PassedOn(d)
      OBVIOUS
    <3>1. CASE m_pair[d] = NoEnd
      BY <1>4, <3>1 DEF PassedOn
    <3>2. CASE m_pair[d] # NoEnd
      <4>1. m_pair[d] # f /\ m_pair[d] \in Ends
        BY <1>1, <1>2, <1>3, <3>2, PairsOnce, PassedTypes
      <4> QED BY <1>4, <2>2, <4>1 DEF PassedOn, SentOf
    <3> QED BY <3>1, <3>2
  <2>5. conn[f] \notin NotOpen
    BY <1>6 DEF NotOpen
  <2>6. Passes(w, e, k)
    BY <1>2, <1>3, <1>4, <1>6, <2>1, <2>3, <2>4, <2>5 DEF Passes
  <2> QED BY <1>2, <2>1, <2>6
<1>7. CASE conn[f] \notin {"open", "eof"} /\ Loses(w) /\ UNCHANGED sent
  <2>1. \A d \in Ends : PassedOn(d)' = PassedOn(d)
    BY <1>4, <1>7 DEF PassedOn, SentOf
  <2>2. CASE k = 0
    <3>1. lost' = lost
      BY <1>0, <1>2, <1>7, <2>2, LosesNothing
    <3> QED BY <1>5, <1>7, <2>2, <3>1
  <2>3. CASE k # 0
    <3>1. lost' = [lost EXCEPT ![e] = @ \cup {k}]
      BY <1>0, <1>2, <1>7, <2>3, LosesNothing
    <3>2. \A g \in Ends : m_pair[g] = e => conn[g] \notin {"open", "eof"}
      BY <1>2, <1>3, <1>7, SenderIsPair
    <3>3. k \in 1 .. MaxPackets /\ InHand(w, e, k)
      BY <1>0, <2>3, HandTypes
    <3>4. Drops(w, e, k)
      BY <1>4, <1>7, <2>1, <3>1, <3>2, <3>3 DEF Drops
    <3> QED BY <1>2, <3>3, <3>4
  <2> QED BY <2>2, <2>3
<1>8. \/ /\ conn[f] \in {"open", "eof"} /\ UNCHANGED lost
         /\ sent' = [sent EXCEPT ![f] = IF k = 0 THEN @ ELSE Append(@, k)]
      \/ conn[f] \notin {"open", "eof"} /\ Loses(w) /\ UNCHANGED sent
  BY <1>0 DEF Send
<1>9. k = 0 /\ sent' = [sent EXCEPT ![f] = IF k = 0 THEN @ ELSE Append(@, k)] => sent' = sent
  BY <1>1
<1> QED BY <1>5, <1>6, <1>7, <1>8, <1>9

LEMMA WorkerChunks ==
    ASSUME RInv, FreshInv, RecvInv, SentInv, NEW w \in Workers, Worker(w)
    PROVE  Quiet \/ Takes(w) \/ \E e \in Ends, k \in 1 .. MaxPackets : Passes(w, e, k) \/ Drops(w, e, k)
<1>1. UNCHANGED sent => \A d \in Ends : PassedOn(d)' = PassedOn(d)
  BY PassedStays DEF Next
<1>2. UNCHANGED << sent, lost >> => SameGone
  BY <1>1 DEF SameGone
<1>3. CASE Send(w)
  BY <1>3, SendChunks
<1>4. CASE Pair(w)
  BY <1>1, <1>4, PairChunks DEF Pair, kernelVars
<1>5. CASE GetCompletion(w)
  BY <1>2, <1>5, GetChunks DEF GetCompletion, kernelVars
<1>6. CASE ClientConnected(w) \/ Connect(w)
  <2>1. UNCHANGED << sent, lost, port, received >> /\ hand[w].packet = 0 /\ (UNCHANGED hand \/ Served(w))
    BY <1>6 DEF ClientConnected, Connect, kernelVars, FreshInv, FreshOf, Goes
  <2>2. \A v \in Workers : hand'[v] = hand[v] \/ (hand[v].packet = 0 /\ hand'[v].packet = 0)
    BY <2>1 DEF Served, Nothing, RInv, TInv, TypeOK
  <2> QED BY <1>2, <2>1, <2>2 DEF Quiet
<1>7. CASE TakeTask(w) \/ Accept(w) \/ NewAccept(w) \/ FirstRecvOfPair(w) \/ FirstRecv(w) \/ SetPair(w)
           \/ Rearm(w) \/ NextServerMain(w)
  <2>1. UNCHANGED << sent, lost, port, received, hand >>
    BY <1>7 DEF TakeTask, Accept, NewAccept, FirstRecvOfPair, FirstRecv, SetPair, Rearm, NextServerMain, kernelVars
  <2> QED BY <1>2, <2>1 DEF Quiet
<1> QED BY <1>3, <1>4, <1>5, <1>6, <1>7 DEF Worker, ServerMain

ChunkStep ==
    \/ Quiet
    \/ \E p \in Completion : Arrives(p)
    \/ \E w \in Workers : Takes(w)
    \/ \E w \in Workers, e \in Ends, k \in 1 .. MaxPackets : Passes(w, e, k) \/ Drops(w, e, k)

LEMMA ChunkSteps ==
    ASSUME RInv, FreshInv, RecvInv, SentInv, [Next]_vars
    PROVE  ChunkStep
<1>1. CASE UNCHANGED vars
  BY <1>1 DEF vars, workerVars, kernelVars, ChunkStep, Quiet, SameGone, PassedOn, SentOf
<1>2. ASSUME NEW w \in Workers, Worker(w)
      PROVE  ChunkStep
  BY <1>2, WorkerChunks DEF ChunkStep
<1>3. ASSUME NEW e \in Ends, Kernel(e)
      PROVE  ChunkStep
  BY <1>3, KernelChunks DEF ChunkStep
<1> QED BY <1>1, <1>2, <1>3 DEF Next

(* A connection that was there never is as before it.                      *)
LEMMA OpenStays ==
    ASSUME RInv, FreshInv, [Next]_vars, NEW f \in Ends, conn'[f] \in NotOpen
    PROVE  /\ conn[f] \in NotOpen
           /\ conn'[f] = conn[f] \/ conn'[f] # "new"
<1>1. TypeOK /\ conn \in [Ends -> Connections]
  BY DEF RInv, TInv, TypeOK
<1> DEFINE Goal == conn[f] \in NotOpen /\ (conn'[f] = conn[f] \/ conn'[f] # "new")
<1>2. ASSUME NEW d \in Ends, conn[d] = "new", NEW c \in {"armed", "refused", "connecting"},
             conn' = [conn EXCEPT ![d] = c]
      PROVE  Goal
  BY <1>1, <1>2 DEF NotOpen
<1>3. ASSUME NEW w \in Workers, Worker(w)
      PROVE  Goal
  <2>1. CASE Accept(w)
    BY <1>2, <2>1, NewIsAlone DEF Accept
  <2>2. CASE Connect(w)
    <3>1. peer[w] \in Ends /\ conn[peer[w]] = "new"
      BY <2>2 DEF Connect, Goes, RInv, TInv, Holds, FreshInv, FreshOf
    <3> QED BY <1>2, <2>2, <3>1 DEF Connect
  <2>3. CASE ~Accept(w) /\ ~Connect(w)
    <3>1. conn' = conn
      BY <1>3, <2>3 DEF Worker, ServerMain, TakeTask, GetCompletion, NewAccept, FirstRecvOfPair, FirstRecv,
         ClientConnected, SetPair, Rearm, Pair, Send, NextServerMain, kernelVars
    <3> QED BY <3>1
  <2> QED BY <2>1, <2>2, <2>3
<1>4. ASSUME NEW e \in Ends, Kernel(e)
      PROVE  Goal
  <2>1. f # e => conn'[f] = conn[f]
    BY <1>4, KernelStep DEF Posts
  <2>2. f = e /\ conn'[e] # conn[e] => conn'[e] \in {"eof", "reset", "open"} \/ (conn[e] \in NotOpen /\ conn'[e] # "new")
    BY <1>4, KernelStep DEF NotOpen, Posts
  <2> QED BY <2>1, <2>2 DEF NotOpen
<1> QED BY <1>3, <1>4 DEF Next, vars, kernelVars

LEMMA InitSent == Init => SentInv
BY DEF Init, SentInv

LEMMA NextSent ==
    ASSUME RInv, FreshInv, RecvInv, SentInv, [Next]_vars
    PROVE  SentInv'
<1> SUFFICES ASSUME NEW f \in Ends, sent'[f] # << >>
             PROVE  conn'[f] \notin NotOpen /\ \E e \in Ends : m_pair'[e] = f
  BY DEF SentInv
<1>1. sent \in [Ends -> Seq(1 .. MaxPackets)]
  BY DEF RInv, TInv, TypeOK
<1>2. conn[f] \notin NotOpen /\ \E e \in Ends : m_pair[e] = f
  <2>1. CASE sent'[f] = sent[f]
    BY <2>1 DEF SentInv
  <2>2. ASSUME NEW w \in Workers, NEW e \in Ends, NEW k \in 1 .. MaxPackets, Passes(w, e, k), sent'[f] # sent[f]
        PROVE  f = m_pair[e] /\ conn[f] \notin NotOpen
    BY <1>1, <2>2 DEF Passes
  <2>3. ChunkStep
    BY ChunkSteps
  <2> QED BY <2>1, <2>2, <2>3 DEF ChunkStep, Quiet, Arrives, Takes, Drops
<1> QED BY <1>2, OpenStays, PairsStay DEF NoEnd, Ends

-----------------------------------------------------------------------------
(* A chunk is in one place: it waits in the port, as the last that arrived, *)
(* or is in one hand, or is gone.                                           *)
Waits(e, k) == \E p \in Packets(port) : p.end = e /\ p.packet = k
Held(e, k) == \E w \in Workers : InHand(w, e, k)

WaitsInv ==
    \A e \in Ends, k \in 1 .. MaxPackets : Waits(e, k) => k = received[e] /\ k \notin Gone(e)

InHandInv ==
    \A e \in Ends, k \in 1 .. MaxPackets :
        /\ Held(e, k) => k \leq received[e] /\ k \notin Gone(e) /\ ~Waits(e, k)
        /\ \A v, w \in Workers : InHand(v, e, k) /\ InHand(w, e, k) => v = w

ArrivedInv ==
    \A e \in Ends, k \in 1 .. MaxPackets :
        /\ k \in Gone(e) => k \leq received[e]
        /\ k \leq received[e] => k \in Gone(e) \/ Waits(e, k) \/ Held(e, k)

PlacesInv == WaitsInv /\ InHandInv /\ ArrivedInv

LEMMA InitPlaces == Init => PlacesInv
<1> SUFFICES ASSUME Init PROVE PlacesInv
  OBVIOUS
<1>1. \A e \in Ends, k \in 1 .. MaxPackets : ~Waits(e, k) /\ ~Held(e, k) /\ k \notin Gone(e) /\ ~(k \leq received[e])
  BY CpuCount DEF Init, Waits, Held, InHand, Gone, PassedOn, Packets, Nothing
<1>2. \A e \in Ends, k \in 1 .. MaxPackets, w \in Workers : ~InHand(w, e, k)
  BY <1>1 DEF Held
<1> QED BY <1>1, <1>2 DEF PlacesInv, WaitsInv, InHandInv, ArrivedInv

LEMMA QuietPlaces == ASSUME TypeOK, TypeOK', PlacesInv, Quiet PROVE PlacesInv'
<1>1. received' = received /\ \A e \in Ends : Gone(e)' = Gone(e)
  BY DEF Quiet, SameGone, Gone
<1>2. \A w \in Workers, e \in Ends, k \in 1 .. MaxPackets : InHand(w, e, k)' <=> InHand(w, e, k)
  BY CpuCount DEF Quiet, InHand
<1>3. \A e \in Ends, k \in 1 .. MaxPackets : Held(e, k)' <=> Held(e, k)
  BY <1>2 DEF Held
<1>4. \A e \in Ends, k \in 1 .. MaxPackets : Waits(e, k)' <=> Waits(e, k)
  <2>1. \A k \in 1 .. MaxPackets : k # 0
    BY CpuCount
  <2>2. \A p \in Packets(port') \cup Packets(port) : p \in Completion
    BY LenProperties, ElementOfSeq DEF TypeOK, Packets
  <2> QED BY <2>1, <2>2 DEF Quiet, Waits
<1> QED BY <1>1, <1>2, <1>3, <1>4 DEF PlacesInv, WaitsInv, InHandInv, ArrivedInv

LEMMA ArrivesPlaces ==
    ASSUME TypeOK, TypeOK', PlacesInv, NEW p \in Completion, Arrives(p)
    PROVE  PlacesInv'
<1>1. \A e \in Ends : Gone(e)' = Gone(e)
  BY DEF Arrives, SameGone, Gone
<1>2. /\ \A w \in Workers, e \in Ends, k \in 1 .. MaxPackets : InHand(w, e, k)' <=> InHand(w, e, k)
      /\ \A e \in Ends, k \in 1 .. MaxPackets : Held(e, k)' <=> Held(e, k)
  BY DEF Arrives, InHand, Held
<1>3. PICK d \in Ends, n \in 1 .. MaxPackets : d = p.end /\ n = p.packet /\ n = received[d] + 1
  <2>1. p.end \in Ends /\ p.packet \in 0 .. MaxPackets /\ p.packet = received[p.end] + 1 /\ received[p.end] \in Nat
    BY CpuCount DEF Arrives, Completion, TypeOK
  <2> QED BY <2>1, CpuCount
<1>4. /\ received'[d] = n /\ \A e \in Ends \ {d} : received'[e] = received[e]
      /\ received \in [Ends -> 0 .. MaxPackets]
  BY <1>3 DEF Arrives, TypeOK
<1>5. \A e \in Ends, k \in 1 .. MaxPackets : Waits(e, k)' <=> Waits(e, k) \/ (e = d /\ k = n)
  BY <1>3 DEF Arrives, Waits
<1>6. \A k \in 1 .. MaxPackets : ~Waits(d, k)
  <2>1. \A k \in 1 .. MaxPackets : k # 0
    BY CpuCount
  <2> QED BY <1>3, <2>1 DEF Arrives, Waits
<1>7. n \in Nat /\ n = received[d] + 1 /\ received[d] \in Nat /\ \A k \in 1 .. MaxPackets : k \in Nat
  BY <1>3, <1>4, CpuCount
<1>8. PlacesInv
  OBVIOUS
<1> HIDE DEF Arrives, Waits, Held, InHand, Gone
<1>9. \A e \in Ends, k \in 1 .. MaxPackets : k \leq received'[e] <=> k \leq received[e] \/ (e = d /\ k = n)
  BY <1>4, <1>7
<1>10. WaitsInv'
  <2> SUFFICES ASSUME NEW e \in Ends, NEW k \in 1 .. MaxPackets, Waits(e, k)'
               PROVE  k = received'[e] /\ k \notin Gone(e)'
    BY DEF WaitsInv
  <2>1. CASE e = d /\ k = n
    <3>1. ~(n \leq received[d])
      BY <1>7
    <3> QED BY <1>1, <1>4, <1>8, <2>1, <3>1 DEF PlacesInv, ArrivedInv
  <2>2. CASE e # d
    BY <1>1, <1>4, <1>5, <1>8, <2>2 DEF PlacesInv, WaitsInv
  <2> QED BY <1>5, <1>6, <2>1, <2>2
<1>11. InHandInv'
  <2> SUFFICES ASSUME NEW e \in Ends, NEW k \in 1 .. MaxPackets
               PROVE  /\ Held(e, k)' => k \leq received'[e] /\ k \notin Gone(e)' /\ ~Waits(e, k)'
                      /\ \A v, w \in Workers : InHand(v, e, k)' /\ InHand(w, e, k)' => v = w
    BY DEF InHandInv
  <2>1. /\ Held(e, k) => k \leq received[e] /\ k \notin Gone(e) /\ ~Waits(e, k)
        /\ \A v, w \in Workers : InHand(v, e, k) /\ InHand(w, e, k) => v = w
    BY <1>8 DEF PlacesInv, InHandInv
  <2>2. e = d /\ k = n => ~(k \leq received[e])
    BY <1>7
  <2> QED BY <1>1, <1>2, <1>5, <1>9, <2>1, <2>2
<1>12. ArrivedInv'
  <2> SUFFICES ASSUME NEW e \in Ends, NEW k \in 1 .. MaxPackets
               PROVE  /\ k \in Gone(e)' => k \leq received'[e]
                      /\ k \leq received'[e] => k \in Gone(e)' \/ Waits(e, k)' \/ Held(e, k)'
    BY DEF ArrivedInv
  <2>1. /\ k \in Gone(e) => k \leq received[e]
        /\ k \leq received[e] => k \in Gone(e) \/ Waits(e, k) \/ Held(e, k)
    BY <1>8 DEF PlacesInv, ArrivedInv
  <2> QED BY <1>1, <1>2, <1>5, <1>9, <2>1
<1> QED BY <1>10, <1>11, <1>12 DEF PlacesInv

LEMMA TakesPlaces ==
    ASSUME TypeOK, TypeOK', PlacesInv, NEW w \in Workers, Takes(w)
    PROVE  PlacesInv'
<1>1. received' = received /\ \A e \in Ends : Gone(e)' = Gone(e)
  BY DEF Takes, SameGone, Gone
<1>2. PICK p \in Completion : /\ hand'[w] = [end |-> p.end, packet |-> p.packet]
                              /\ Packets(port) = Packets(port') \cup {p}
                              /\ \A q \in Packets(port') : q.packet # 0 => q.end # p.end
  BY DEF Takes
<1>3. PICK d \in Ends, n \in 1 .. MaxPackets : d = p.end /\ n = p.packet
  <2>1. p.packet # 0
    BY <1>2 DEF Takes
  <2> QED BY <2>1, CpuCount DEF Completion
<1>4. \A k \in 1 .. MaxPackets : k # 0
  BY CpuCount
<1>5. /\ \A e \in Ends, k \in 1 .. MaxPackets : ~InHand(w, e, k) /\ (InHand(w, e, k)' <=> e = d /\ k = n)
      /\ \A v \in Workers \ {w}, e \in Ends, k \in 1 .. MaxPackets : InHand(v, e, k)' <=> InHand(v, e, k)
  BY <1>2, <1>3, <1>4 DEF Takes, OthersKeep, InHand
<1>6. \A e \in Ends, k \in 1 .. MaxPackets : Held(e, k)' <=> Held(e, k) \/ (e = d /\ k = n)
  BY <1>5 DEF Held
<1>7. /\ \A e \in Ends, k \in 1 .. MaxPackets : Waits(e, k) <=> Waits(e, k)' \/ (e = d /\ k = n)
      /\ \A k \in 1 .. MaxPackets : ~Waits(d, k)'
  BY <1>2, <1>3, <1>4 DEF Waits
<1>8. PlacesInv
  OBVIOUS
<1>9. received[d] \in Nat /\ n \in Nat
  <2>1. received[d] \in 0 .. MaxPackets
    BY DEF TypeOK
  <2> QED BY <2>1, CpuCount
<1> HIDE DEF Takes, Waits, Held, InHand, Gone
<1>10. n = received[d] /\ n \notin Gone(d) /\ ~Held(d, n)
  BY <1>7, <1>8 DEF PlacesInv, WaitsInv, InHandInv
<1>11. WaitsInv'
  BY <1>1, <1>7, <1>8 DEF PlacesInv, WaitsInv
<1>12. InHandInv'
  <2> SUFFICES ASSUME NEW e \in Ends, NEW k \in 1 .. MaxPackets
               PROVE  /\ Held(e, k)' => k \leq received'[e] /\ k \notin Gone(e)' /\ ~Waits(e, k)'
                      /\ \A u, v \in Workers : InHand(u, e, k)' /\ InHand(v, e, k)' => u = v
    BY DEF InHandInv
  <2>1. /\ Held(e, k) => k \leq received[e] /\ k \notin Gone(e) /\ ~Waits(e, k)
        /\ \A u, v \in Workers : InHand(u, e, k) /\ InHand(v, e, k) => u = v
    BY <1>8 DEF PlacesInv, InHandInv
  <2>2. CASE e = d /\ k = n
    <3>1. \A v \in Workers : ~InHand(v, e, k)
      BY <1>10, <2>2 DEF Held
    <3>2. \A v \in Workers : InHand(v, e, k)' => v = w
      BY <1>5, <3>1
    <3> QED BY <1>1, <1>7, <1>9, <1>10, <2>2, <3>2
  <2>3. CASE ~(e = d /\ k = n)
    <3>1. \A v \in Workers : InHand(v, e, k)' <=> InHand(v, e, k)
      BY <1>5, <2>3
    <3> QED BY <1>1, <1>6, <1>7, <2>1, <2>3, <3>1
  <2> QED BY <2>2, <2>3
<1>13. ArrivedInv'
  BY <1>1, <1>6, <1>7, <1>8 DEF PlacesInv, ArrivedInv
<1> QED BY <1>11, <1>12, <1>13 DEF PlacesInv

(* Passed on or dropped, the chunk in hand is gone.                        *)
LEMMA GonePlaces ==
    ASSUME TypeOK, TypeOK', PlacesInv, NEW w \in Workers, NEW d \in Ends, NEW n \in 1 .. MaxPackets,
           InHand(w, d, n), hand'[w].packet = 0, OthersKeep(w), UNCHANGED << port, received >>,
           Gone(d)' = Gone(d) \cup {n}, \A e \in Ends \ {d} : Gone(e)' = Gone(e)
    PROVE  PlacesInv'
<1>1. \A k \in 1 .. MaxPackets : k # 0
  BY CpuCount
<1>2. /\ \A e \in Ends, k \in 1 .. MaxPackets : ~InHand(w, e, k)' /\ (InHand(w, e, k) <=> e = d /\ k = n)
      /\ \A v \in Workers \ {w}, e \in Ends, k \in 1 .. MaxPackets : InHand(v, e, k)' <=> InHand(v, e, k)
  BY <1>1 DEF OthersKeep, InHand
<1>3. PlacesInv /\ received' = received
  OBVIOUS
<1>4. \A e \in Ends, k \in 1 .. MaxPackets : Waits(e, k)' <=> Waits(e, k)
  BY DEF Waits
<1>5. /\ \A e \in Ends, k \in 1 .. MaxPackets : Held(e, k) <=> Held(e, k)' \/ (e = d /\ k = n)
      /\ ~Held(d, n)'
  <2>1. \A v \in Workers : InHand(v, d, n) => v = w
    BY <1>2, <1>3 DEF PlacesInv, InHandInv
  <2> QED BY <1>2, <2>1 DEF Held
<1>6. n \leq received[d] /\ n \notin Gone(d) /\ ~Waits(d, n)
  BY <1>3, <1>5 DEF PlacesInv, InHandInv
<1>7. \A e \in Ends, k \in 1 .. MaxPackets : k \in Gone(e)' <=> k \in Gone(e) \/ (e = d /\ k = n)
  OBVIOUS
<1> HIDE DEF Waits, Held, InHand, Gone, OthersKeep
<1>8. WaitsInv'
  BY <1>3, <1>4, <1>6, <1>7 DEF PlacesInv, WaitsInv
<1>9. InHandInv'
  <2> SUFFICES ASSUME NEW e \in Ends, NEW k \in 1 .. MaxPackets
               PROVE  /\ Held(e, k)' => k \leq received'[e] /\ k \notin Gone(e)' /\ ~Waits(e, k)'
                      /\ \A u, v \in Workers : InHand(u, e, k)' /\ InHand(v, e, k)' => u = v
    BY DEF InHandInv
  <2>1. /\ Held(e, k) => k \leq received[e] /\ k \notin Gone(e) /\ ~Waits(e, k)
        /\ \A u, v \in Workers : InHand(u, e, k) /\ InHand(v, e, k) => u = v
    BY <1>3 DEF PlacesInv, InHandInv
  <2>2. \A v \in Workers : InHand(v, e, k)' => InHand(v, e, k)
    BY <1>2
  <2> QED BY <1>3, <1>4, <1>5, <1>7, <2>1, <2>2
<1>10. ArrivedInv'
  <2> SUFFICES ASSUME NEW e \in Ends, NEW k \in 1 .. MaxPackets
               PROVE  /\ k \in Gone(e)' => k \leq received'[e]
                      /\ k \leq received'[e] => k \in Gone(e)' \/ Waits(e, k)' \/ Held(e, k)'
    BY DEF ArrivedInv
  <2> QED BY <1>3, <1>4, <1>5, <1>6, <1>7 DEF PlacesInv, ArrivedInv
<1> QED BY <1>8, <1>9, <1>10 DEF PlacesInv

LEMMA NextPlaces ==
    ASSUME TypeOK, TypeOK', PlacesInv, ChunkStep
    PROVE  PlacesInv'
<1>1. lost \in [Ends -> SUBSET (1 .. MaxPackets)]
  BY DEF TypeOK
<1>2. ASSUME NEW w \in Workers, NEW e \in Ends, NEW k \in 1 .. MaxPackets, Passes(w, e, k)
      PROVE  PlacesInv'
  <2>1. Gone(e)' = Gone(e) \cup {k} /\ \A d \in Ends \ {e} : Gone(d)' = Gone(d)
    BY <1>2 DEF Passes, Gone
  <2> QED BY <1>2, <2>1, GonePlaces DEF Passes
<1>3. ASSUME NEW w \in Workers, NEW e \in Ends, NEW k \in 1 .. MaxPackets, Drops(w, e, k)
      PROVE  PlacesInv'
  <2>1. Gone(e)' = Gone(e) \cup {k} /\ \A d \in Ends \ {e} : Gone(d)' = Gone(d)
    BY <1>1, <1>3 DEF Drops, Gone
  <2> QED BY <1>3, <2>1, GonePlaces DEF Drops
<1> QED BY <1>2, <1>3, QuietPlaces, ArrivesPlaces, TakesPlaces DEF ChunkStep

-----------------------------------------------------------------------------
(* Nothing is sent twice, or sent and lost; and who is lost, and why.       *)
Excused(e, f) == m_pair[f] = e /\ conn[f] \in {"open", "eof"} => lost[e] \subseteq 1 .. early[e]

OnceInv ==
    \A e \in Ends :
        /\ Distinct(sent[e])
        /\ lost[e] \cap PassedOn(e) = {}
        /\ \A f \in Ends : Excused(e, f)

LEMMA InitOnce == Init => OnceInv
BY DEF Init, OnceInv, Distinct, Excused

(* A pair is open from ConnectCompletes on, that takes note of what has    *)
(* arrived at the other end.                                               *)
LEMMA OpenedStep ==
    ASSUME RInv, FreshInv, [Next]_vars, NEW e \in Ends, NEW f \in Ends, m_pair'[f] = e, conn'[f] \in {"open", "eof"}
    PROVE  \/ conn[f] \in {"open", "eof"} /\ early'[e] = early[e]
           \/ m_pair[f] = e /\ early'[e] = received[e] /\ UNCHANGED lost
<1>1. /\ conn \in [Ends -> Connections] /\ early \in [Ends -> 0 .. MaxPackets]
      /\ \A d \in Ends : EndFits(d)
      /\ e # NoEnd
  BY DEF RInv, TInv, TypeOK, Pairing, NoEnd, Ends
<1> DEFINE Goal == \/ conn[f] \in {"open", "eof"} /\ early'[e] = early[e]
                   \/ m_pair[f] = e /\ early'[e] = received[e] /\ UNCHANGED lost
<1>2. CASE UNCHANGED << early, conn >>
  BY <1>2
<1>3. ASSUME NEW w \in Workers, Worker(w)
      PROVE  Goal
  <2>1. UNCHANGED early
    BY <1>3, OthersStay
  <2>2. conn[f] \in {"open", "eof"}
    <3>1. CASE Accept(w)
      BY <1>1, <3>1 DEF Accept
    <3>2. CASE Connect(w)
      BY <1>1, <3>2 DEF Connect
    <3>3. CASE ~Accept(w) /\ ~Connect(w)
      <4>1. conn' = conn
        BY <1>3, <3>3 DEF Worker, ServerMain, TakeTask, GetCompletion, NewAccept, FirstRecvOfPair, FirstRecv,
         ClientConnected, SetPair, Rearm, Pair, Send, NextServerMain, kernelVars
      <4> QED BY <4>1
    <3> QED BY <3>1, <3>2, <3>3
  <2> QED BY <2>1, <2>2
<1>4. ASSUME NEW d \in Ends, Kernel(d)
      PROVE  Goal
  <2>1. UNCHANGED << m_pair, lost >> /\ \A g \in Ends \ {d} : conn'[g] = conn[g]
    BY <1>4, KernelStep DEF Posts
  <2>2. \/ UNCHANGED early /\ (conn'[d] \in {"open", "eof"} => conn[d] \in {"open", "eof"})
        \/ UNCHANGED early /\ conn[d] = "armed"
        \/ conn[d] = "connecting" /\ early' = [early EXCEPT ![m_pair[d]] = received[m_pair[d]]]
    BY <1>4, KernelStep DEF Posts
  <2>3. CASE UNCHANGED early /\ (conn'[d] \in {"open", "eof"} => conn[d] \in {"open", "eof"})
    BY <2>1, <2>3
  <2>4. CASE UNCHANGED early /\ conn[d] = "armed"
    <3>1. f # d
      BY <1>1, <2>1, <2>4 DEF EndFits
    <3> QED BY <2>1, <2>4, <3>1
  <2>5. CASE conn[d] = "connecting" /\ early' = [early EXCEPT ![m_pair[d]] = received[m_pair[d]]]
    <3>1. CASE f = d
      BY <1>1, <2>1, <2>5, <3>1
    <3>2. CASE f # d
      <4>1. m_pair[d] # NoEnd /\ m_pair[f] = e
        BY <1>1, <2>1, <2>5 DEF EndFits
      <4>2. m_pair[d] # e
        BY <1>1, <3>2, <4>1, PairsOnce
      <4> QED BY <1>1, <2>1, <2>5, <3>2, <4>2
    <3> QED BY <3>1, <3>2
  <2> QED BY <2>2, <2>3, <2>4, <2>5
<1> QED BY <1>2, <1>3, <1>4 DEF Next, vars, kernelVars

LEMMA NextExcused ==
    ASSUME RInv, FreshInv, RecvInv, SentInv, PlacesInv, OnceInv, [Next]_vars, NEW e \in Ends, NEW f \in Ends
    PROVE  Excused(e, f)'
<1> SUFFICES ASSUME m_pair'[f] = e, conn'[f] \in {"open", "eof"}
             PROVE  lost'[e] \subseteq 1 .. early'[e]
  BY DEF Excused
<1>1. TypeOK /\ lost \in [Ends -> SUBSET (1 .. MaxPackets)] /\ Excused(e, f) /\ ChunkStep
  BY ChunkSteps DEF RInv, TInv, TypeOK, OnceInv
<1>2. \A k \in lost[e] : k \in 1 .. MaxPackets /\ k \leq received[e]
  BY <1>1 DEF PlacesInv, ArrivedInv, Gone
<1>3. \A k \in 1 .. MaxPackets : k \in Nat \ {0}
  BY CpuCount
<1>4. CASE m_pair[f] = e /\ early'[e] = received[e] /\ UNCHANGED lost
  <2>1. received[e] \in Nat
    BY <1>1, CpuCount DEF TypeOK
  <2> QED BY <1>2, <1>3, <1>4, <2>1
<1>5. CASE conn[f] \in {"open", "eof"} /\ early'[e] = early[e]
  <2>1. CASE m_pair[f] = e
    <3>1. lost'[e] = lost[e]
      <4>1. ASSUME NEW w \in Workers, NEW d \in Ends, NEW k \in 1 .. MaxPackets, Drops(w, d, k)
            PROVE  lost'[e] = lost[e]
        BY <1>1, <1>5, <2>1, <4>1 DEF Drops
      <4> QED BY <1>1, <4>1 DEF ChunkStep, Quiet, SameGone, Arrives, Takes, Passes
    <3> QED BY <1>1, <1>5, <2>1, <3>1 DEF Excused
  <2>2. CASE m_pair[f] # e
    <3>1. PICK w \in Workers : Worker(w)
      BY <2>2, KernelStep DEF Next, vars, Posts
    <3>2. PICK a \in Ends, b \in Ends :
           /\ m_pair' = [m_pair EXCEPT ![a] = b] /\ UNCHANGED lost
           /\ \/ conn[a] = "new"
              \/ worker[w] = "setpair" /\ b = peer[w]
      BY <2>2, <3>1, PairStep
    <3>3. a = f /\ b = e
      BY <1>1, <2>2, <3>2 DEF TypeOK
    <3>4. conn[e] = "new"
      BY <1>5, <3>2, <3>3 DEF FreshInv, FreshOf
    <3>5. received[e] = 0
      BY <3>4 DEF RecvInv, RecvOf, NoRecv, NotOpen
    <3>6. lost[e] = {}
      BY <1>2, <1>3, <3>5
    <3> QED BY <3>2, <3>6
  <2> QED BY <2>1, <2>2
<1> QED BY <1>4, <1>5, OpenedStep

LEMMA NextOnce ==
    ASSUME RInv, FreshInv, RecvInv, SentInv, PlacesInv, OnceInv, [Next]_vars
    PROVE  OnceInv'
<1>1. TypeOK /\ lost \in [Ends -> SUBSET (1 .. MaxPackets)] /\ sent \in [Ends -> Seq(1 .. MaxPackets)] /\ ChunkStep
  BY ChunkSteps DEF RInv, TInv, TypeOK
<1> SUFFICES ASSUME NEW d \in Ends
             PROVE  Distinct(sent'[d]) /\ lost'[d] \cap PassedOn(d)' = {}
  BY NextExcused DEF OnceInv, Distinct
<1>2. Distinct(sent[d]) /\ lost[d] \cap PassedOn(d) = {}
  BY DEF OnceInv
<1>3. CASE UNCHANGED sent /\ SameGone
  BY <1>2, <1>3 DEF SameGone
<1>4. ASSUME NEW w \in Workers, NEW e \in Ends, NEW k \in 1 .. MaxPackets, InHand(w, e, k)
      PROVE  k \notin PassedOn(e) /\ k \notin lost[e]
  BY <1>4 DEF PlacesInv, InHandInv, Held, Gone
<1>5. ASSUME NEW w \in Workers, NEW e \in Ends, NEW k \in 1 .. MaxPackets, Passes(w, e, k)
      PROVE  Distinct(sent'[d]) /\ lost'[d] \cap PassedOn(d)' = {}
  <2>1. k \notin PassedOn(e) /\ k \notin lost[e] /\ m_pair[e] # NoEnd
    BY <1>4, <1>5 DEF Passes, NoEnd, Ends
  <2>2. lost'[d] \cap PassedOn(d)' = {}
    BY <1>2, <1>5, <2>1 DEF Passes
  <2>3. Distinct(sent'[d])
    <3>1. CASE d # m_pair[e]
      BY <1>1, <1>2, <1>5, <3>1 DEF Passes
    <3>2. CASE d = m_pair[e]
      <4> DEFINE S == 1 .. MaxPackets
      <4>1. sent'[d] = Append(sent[d], k) /\ sent[d] \in Seq(S) /\ k \in S /\ k \notin Packets(sent[d])
        BY <1>1, <1>5, <2>1, <3>2, PassedTypes DEF Passes
      <4> HIDE DEF S
      <4> QED BY <1>2, <4>1, AppendPackets
    <3> QED BY <3>1, <3>2
  <2> QED BY <2>2, <2>3
<1>6. ASSUME NEW w \in Workers, NEW e \in Ends, NEW k \in 1 .. MaxPackets, Drops(w, e, k)
      PROVE  Distinct(sent'[d]) /\ lost'[d] \cap PassedOn(d)' = {}
  <2>1. k \notin PassedOn(e)
    BY <1>4, <1>6 DEF Drops
  <2> QED BY <1>1, <1>2, <1>6, <2>1 DEF Drops
<1> QED BY <1>1, <1>3, <1>5, <1>6 DEF ChunkStep, Quiet, Arrives, Takes

-----------------------------------------------------------------------------
(* One of the workers never is in ServerMain, which is queued once for each *)
(* of the others.                                                           *)
MainTasks == Where(tasks, {"ServerMain"})
Mains == {w \in Workers : worker[w] \notin {"idle", "accept"}}

MainInv == Cardinality(MainTasks) + Cardinality(Mains) = nCpuCount - 1

LEMMA MainTypes ==
    ASSUME TypeOK
    PROVE  /\ IsFiniteSet(Mains) /\ Cardinality(Mains) \in Nat
           /\ Cardinality(MainTasks) \in Nat
<1>1. Cardinality(MainTasks) \in Nat
  BY WhereFinite DEF TypeOK, MainTasks
<1>2. Mains \in SUBSET Workers /\ IsFiniteSet(Workers)
  BY RelayAssumption DEF Mains
<1> QED BY <1>1, <1>2, FS_Subset, FS_CardinalityType

LEMMA InitMains == Init => MainInv
<1> SUFFICES ASSUME Init PROVE MainInv
  OBVIOUS
<1> DEFINE n == nCpuCount - 1
           mains == [i \in 1 .. n |-> "ServerMain"]
<1>1. n \in Nat
  BY CpuCount
<1>2. MainTasks = 2 .. n + 1
  <2>3. Len(tasks) = n + 1 /\ \A i \in 1 .. n + 1 : tasks[i] = IF i = 1 THEN "Accept" ELSE "ServerMain"
    BY InitTasks
  <2> HIDE DEF n
  <2> QED BY <1>1, <2>3 DEF MainTasks, Where
<1>3. Cardinality(2 .. n + 1) = n
  <2> HIDE DEF n
  <2> QED BY <1>1, FS_Interval
<1>4. Mains = {} /\ Cardinality(Mains) = 0
  BY FS_EmptySet DEF Init, Mains
<1> QED BY <1>1, <1>2, <1>3, <1>4 DEF MainInv

LEMMA GoesMains ==
    ASSUME TypeOK, NEW w \in Workers, NEW from, NEW to, Goes(w, from, to)
    PROVE  /\ (from \in {"idle", "accept"} <=> to \in {"idle", "accept"})
                  => Cardinality(Mains)' = Cardinality(Mains)
           /\ from \notin {"idle", "accept"} /\ to \in {"idle", "accept"}
                  => Cardinality(Mains)' = Cardinality(Mains) - 1
           /\ from \in {"idle", "accept"} /\ to \notin {"idle", "accept"}
                  => Cardinality(Mains)' = Cardinality(Mains) + 1
<1>1. /\ worker[w] = from /\ worker'[w] = to
      /\ \A v \in Workers \ {w} : worker'[v] = worker[v]
  BY DEF TypeOK, Goes
<1>2. IsFiniteSet(Mains) /\ Cardinality(Mains) \in Nat
  BY MainTypes
<1>3. CASE from \in {"idle", "accept"} <=> to \in {"idle", "accept"}
  BY <1>1, <1>3 DEF Mains
<1>4. CASE from \notin {"idle", "accept"} /\ to \in {"idle", "accept"}
  <2>1. w \in Mains /\ Mains' = Mains \ {w}
    BY <1>1, <1>4 DEF Mains
  <2> QED BY <1>2, <1>4, <2>1, FS_RemoveElement
<1>5. CASE from \in {"idle", "accept"} /\ to \notin {"idle", "accept"}
  <2>1. w \notin Mains /\ Mains' = Mains \cup {w}
    BY <1>1, <1>5 DEF Mains
  <2> QED BY <1>2, <1>5, <2>1, FS_AddElement
<1> QED BY <1>3, <1>4, <1>5

LEMMA NextMains == ASSUME TypeOK, MainInv, RInv, [Next]_vars PROVE MainInv'
<1>1. tasks \in Seq({"Accept", "ServerMain"}) /\ Cardinality(Mains) \in Nat /\ Cardinality(MainTasks) \in Nat
  BY MainTypes DEF TypeOK
<1>2. CASE UNCHANGED << tasks, worker >>
  BY <1>2 DEF MainInv, MainTasks, Mains
<1>3. ASSUME UNCHANGED tasks, Cardinality(Mains)' = Cardinality(Mains)
      PROVE  MainInv'
  BY <1>3 DEF MainInv, MainTasks
<1>4. ASSUME NEW w \in Workers, Worker(w)
      PROVE  MainInv'
  <2>1. CASE TakeTask(w)
    <3>1. /\ tasks # << >> /\ tasks' = Tail(tasks) /\ Head(tasks) \in {"Accept", "ServerMain"}
          /\ Goes(w, "idle", IF Head(tasks) = "Accept" THEN "accept" ELSE "get")
      BY <1>1, <2>1, TailQueue DEF TakeTask
    <3>2. CASE Head(tasks) = "Accept"
      <4>1. Cardinality(MainTasks)' = Cardinality(MainTasks)
        BY <1>1, <3>1, <3>2, TailCount DEF MainTasks
      <4>2. Cardinality(Mains)' = Cardinality(Mains)
        BY <3>1, <3>2, GoesMains
      <4> QED BY <4>1, <4>2 DEF MainInv
    <3>3. CASE Head(tasks) = "ServerMain"
      <4>1. Cardinality(MainTasks)' = Cardinality(MainTasks) - 1
        BY <1>1, <3>1, <3>3, TailCount DEF MainTasks
      <4>2. Cardinality(Mains)' = Cardinality(Mains) + 1
        BY <3>1, <3>3, GoesMains
      <4> QED BY <1>1, <4>1, <4>2 DEF MainInv
    <3> QED BY <3>1, <3>2, <3>3
  <2>2. CASE NextServerMain(w)
    <3>1. Cardinality(MainTasks)' = Cardinality(MainTasks) + 1
      BY <1>1, <2>2, AppendCount DEF NextServerMain, MainTasks
    <3>2. Cardinality(Mains)' = Cardinality(Mains) - 1
      BY <2>2, GoesMains DEF NextServerMain
    <3> QED BY <1>1, <3>1, <3>2 DEF MainInv
  <2>3. CASE NewAccept(w)
    <3>1. Cardinality(MainTasks)' = Cardinality(MainTasks)
      BY <1>1, <2>3, AppendCount DEF NewAccept, MainTasks
    <3>2. Cardinality(Mains)' = Cardinality(Mains)
      BY <2>3, GoesMains DEF NewAccept
    <3> QED BY <3>1, <3>2 DEF MainInv
  <2>4. CASE Accept(w) \/ FirstRecv(w) \/ FirstRecvOfPair(w) \/ SetPair(w) \/ Connect(w) \/ Rearm(w) \/ Send(w)
    BY <1>3, <2>4, GoesMains DEF Accept, FirstRecv, FirstRecvOfPair, SetPair, Connect, Rearm, Send
  <2>5. CASE GetCompletion(w)
    <3>1. Serves(Head(port)) \notin {"idle", "accept"}
      BY DEF Serves
    <3> QED BY <1>3, <2>5, <3>1, GoesMains DEF GetCompletion
  <2>6. CASE ClientConnected(w)
    BY <1>3, <2>6, GoesMains DEF ClientConnected
  <2>7. CASE Pair(w)
    BY <1>3, <2>7, GoesMains DEF Pair
  <2> QED BY <1>4, <2>1, <2>2, <2>3, <2>4, <2>5, <2>6, <2>7 DEF Worker, ServerMain
<1>5. ASSUME NEW e \in Ends, Kernel(e)
      PROVE  MainInv'
  BY <1>2, <1>5, KernelStep DEF Posts
<1> QED BY <1>2, <1>4, <1>5 DEF Next, vars, workerVars

-----------------------------------------------------------------------------
(* Everything is passed on, once and nearly in order.                      *)

(* The moment worker w passes on k, what arrived before it and is not gone  *)
(* is in the hands of the other ServerMains.                               *)
LEMMA LateWhenPassed ==
    ASSUME RInv, FreshInv, PlacesInv, MainInv,
           NEW w \in Workers, NEW e \in Ends, NEW k \in 1 .. MaxPackets, InHand(w, e, k)
    PROVE  Cardinality((1 .. k - 1) \ Gone(e)) \leq nCpuCount - 2
<1> DEFINE M == (1 .. k - 1) \ Gone(e)
           W == Mains \ {w}
           h == [v \in Workers |-> hand[v].packet]
<1>1. TypeOK /\ received[e] \in 0 .. MaxPackets /\ MaxPackets \in Nat /\ nCpuCount \in Nat \ {0}
  BY CpuCount DEF RInv, TInv, TypeOK
<1>2. k \leq received[e]
  BY DEF PlacesInv, InHandInv, Held
<1>3. ASSUME NEW v \in Workers, NEW d \in Ends, NEW l \in 1 .. MaxPackets, InHand(v, d, l)
      PROVE  v \in Mains /\ h[v] = l
  <2>1. hand[v].packet = l /\ l # 0
    BY <1>1, <1>3 DEF InHand
  <2> QED BY <2>1 DEF FreshInv, FreshOf, Mains
<1>4. ASSUME NEW l \in M
      PROVE  \E v \in W : h[v] = l
  <2>1. l \in 1 .. MaxPackets /\ l < k /\ l \leq received[e] /\ l # received[e] /\ l \notin Gone(e)
    BY <1>1, <1>2
  <2>2. PICK v \in Workers : InHand(v, e, l)
    BY <2>1 DEF PlacesInv, ArrivedInv, WaitsInv, Held
  <2>3. v # w
    BY <2>1, <2>2 DEF InHand
  <2> HIDE DEF M, h
  <2> QED BY <1>3, <2>1, <2>2, <2>3
<1>5. /\ Cardinality(W) = Cardinality(Mains) - 1 /\ IsFiniteSet(W)
      /\ Cardinality(Mains) \in Nat /\ Cardinality(MainTasks) \in Nat
  BY <1>1, <1>3, MainTypes, FS_RemoveElement
<1>6. Cardinality(Mains) \leq nCpuCount - 1
  BY <1>1, <1>5 DEF MainInv
<1>7. Cardinality(M) \in Nat /\ Cardinality(M) \leq Cardinality(W)
  <2> HIDE DEF M, W, h
  <2> QED BY <1>4, <1>5, HeldByFew
<1> HIDE DEF M, W
<1>8. Cardinality(M) \leq nCpuCount - 2
  BY <1>1, <1>5, <1>6, <1>7
<1> QED BY <1>8 DEF M

LEMMA GoneStays ==
    ASSUME TypeOK, ChunkStep, NEW e \in Ends
    PROVE  Gone(e) \subseteq Gone(e)'
<1>1. lost \in [Ends -> SUBSET (1 .. MaxPackets)]
  BY DEF TypeOK
<1>2. CASE SameGone
  BY <1>2 DEF SameGone, Gone
<1>3. ASSUME NEW w \in Workers, NEW d \in Ends, NEW k \in 1 .. MaxPackets, Passes(w, d, k)
      PROVE  Gone(e) \subseteq Gone(e)'
  <2>1. PassedOn(e) \subseteq PassedOn(e)' /\ lost' = lost
    BY <1>3 DEF Passes
  <2> QED BY <2>1 DEF Gone
<1>4. ASSUME NEW w \in Workers, NEW d \in Ends, NEW k \in 1 .. MaxPackets, Drops(w, d, k)
      PROVE  Gone(e) \subseteq Gone(e)'
  <2>1. PassedOn(e)' = PassedOn(e) /\ lost[e] \subseteq lost'[e]
    BY <1>1, <1>4 DEF Drops
  <2> QED BY <2>1 DEF Gone
<1> QED BY <1>2, <1>3, <1>4 DEF ChunkStep, Quiet, Arrives, Takes

LEMMA NextLate ==
    ASSUME RInv, FreshInv, PlacesInv, MainInv, ReorderBounded, ChunkStep
    PROVE  ReorderBounded'
<1> SUFFICES ASSUME NEW e \in Ends, NEW k \in PassedOn(e)'
             PROVE  Cardinality((1 .. k - 1) \ Gone(e)') \leq nCpuCount - 2
  BY DEF ReorderBounded, Gone
<1>1. TypeOK /\ nCpuCount \in Nat
  BY CpuCount DEF RInv, TInv
<1>2. \/ k \in PassedOn(e)
      \/ \E w \in Workers : k \in 1 .. MaxPackets /\ InHand(w, e, k)
  <2>1. CASE PassedOn(e)' = PassedOn(e)
    BY <2>1
  <2>2. ASSUME NEW w \in Workers, NEW d \in Ends, NEW l \in 1 .. MaxPackets, Passes(w, d, l)
        PROVE  k \in PassedOn(e) \/ (k = l /\ InHand(w, e, l))
    BY <2>2 DEF Passes
  <2> QED BY <2>1, <2>2 DEF ChunkStep, Quiet, Arrives, Takes, Drops, SameGone
<1>3. k \in Int
  BY <1>1, <1>2, PassedTypes, CpuCount
<1> DEFINE A == (1 .. k - 1) \ Gone(e)
           B == (1 .. k - 1) \ Gone(e)'
<1>4. Cardinality(A) \leq nCpuCount - 2
  <2>1. CASE k \in PassedOn(e)
    BY <2>1 DEF ReorderBounded, Gone
  <2>2. CASE \E w \in Workers : k \in 1 .. MaxPackets /\ InHand(w, e, k)
    BY <2>2, LateWhenPassed
  <2> QED BY <1>2, <2>1, <2>2
<1>5. IsFiniteSet(A)
  <2>1. IsFiniteSet(1 .. k - 1)
    BY <1>3, FS_Interval
  <2> QED BY <2>1, FS_Difference
<1>6. B \in SUBSET A
  BY <1>1, GoneStays
<1> HIDE DEF A, B
<1>7. Cardinality(B) \leq Cardinality(A) /\ Cardinality(A) \in Nat /\ Cardinality(B) \in Nat
  BY <1>5, <1>6, FS_Subset, FS_CardinalityType
<1>8. Cardinality(B) \leq nCpuCount - 2
  BY <1>1, <1>4, <1>7
<1> QED BY <1>8 DEF B

LEMMA OncePassed ==
    ASSUME RInv, OnceInv
    PROVE  ForwardedOnce
<1> SUFFICES ASSUME NEW e \in Ends, m_pair[e] # NoEnd
             PROVE  Len(sent[m_pair[e]]) = Cardinality(SentOf(e))
  BY DEF ForwardedOnce, OnceInv, Excused
<1>1. m_pair[e] \in Ends /\ PassedOn(e) = Packets(sent[m_pair[e]]) /\ sent[m_pair[e]] \in Seq(1 .. MaxPackets)
  BY PassedTypes DEF RInv, TInv
<1>2. SentOf(e) = Packets(sent[m_pair[e]]) /\ Distinct(sent[m_pair[e]])
  BY <1>1 DEF PassedOn, OnceInv
<1> QED BY <1>1, <1>2, DistinctCount

(* The relay's inductive invariant.                                        *)
RelayInv ==
    /\ RInv /\ FreshInv /\ RecvInv /\ SentInv
    /\ PlacesInv /\ OnceInv /\ MainInv /\ ReorderBounded

LEMMA InitRelayInv == Init => RelayInv
<1>1. Init => ReorderBounded
  BY DEF Init, ReorderBounded, PassedOn
<1> QED BY <1>1, InitInv, InitFresh, InitRecv, InitSent, InitPlaces, InitOnce, InitMains DEF RelayInv

LEMMA NextRelayInv == RelayInv /\ [Next]_vars => RelayInv'
<1> SUFFICES ASSUME RelayInv, [Next]_vars PROVE RelayInv'
  OBVIOUS
<1>1. /\ RInv /\ FreshInv /\ RecvInv /\ SentInv /\ PlacesInv /\ OnceInv /\ MainInv /\ ReorderBounded
      /\ TypeOK
  BY DEF RelayInv, RInv, TInv
<1>2. RInv' /\ FreshInv' /\ RecvInv' /\ SentInv' /\ ChunkStep
  BY <1>1, NextInv, NextFresh, NextRecv, NextSent, ChunkSteps
<1>3. PlacesInv' /\ OnceInv' /\ MainInv' /\ ReorderBounded'
  <2>1. TypeOK'
    BY <1>2 DEF RInv, TInv
  <2> QED BY <1>1, <1>2, <2>1, NextPlaces, NextOnce, NextMains, NextLate
<1> QED BY <1>2, <1>3 DEF RelayInv

(* What arrives from one end of a pair is sent to the other, no chunk      *)
(* twice and none sent that was lost; it is lost only to an end that is    *)
(* not connected; and never more than nCpuCount - 2 chunks are overtaken:  *)
(* for any number of workers, ends and chunks, in whatever order the       *)
(* workers go on.                                                          *)
THEOREM RelaysOnce == Spec => []DeliveredOnce
<1>1. RelayInv => DeliveredOnce
  BY OncePassed DEF RelayInv, DeliveredOnce
<1> QED BY <1>1, InitRelayInv, NextRelayInv, PTL DEF Spec
=============================================================================
