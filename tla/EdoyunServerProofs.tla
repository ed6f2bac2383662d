-------------------------- MODULE EdoyunServerProofs --------------------------
(***************************************************************************)
(* Proofs about module EdoyunServer, for any number of clients, requests,  *)
(* threads and workers, and any clock: its invariants; and, behind them,   *)
(* about module RequestUrl, by which DealPacket knows a request: its       *)
(* invariants, for any URLs and any names.                                 *)
(***************************************************************************)
EXTENDS EdoyunServer, RequestUrl, QueueLemmas, TLAPS

LEMMA Parts == MaxRequests \in Nat /\ MaxParts \in Nat /\ MaxParts = 4 * MaxRequests
BY EdoyunAssumption DEF MaxParts

(* A packet taken for a login holds the beginning of the URL of the        *)
(* request it is taken for.                                                *)
LEMMA LoginParses ==
    ASSUME NEW p \in Packet, IsLogin(p)
    PROVE  /\ Parser(p) \in 1 .. MaxRequests /\ OnMessageComplete(p)
           /\ Parser(p) = OnUrl(p) /\ HasParts(p)
           /\ p.from \leq 4 * Parser(p) - 2 /\ 4 * Parser(p) - 2 \leq p.to
<1>1. OnMessageComplete(p) /\ Parser(p) = OnUrl(p)
  BY DEF IsLogin, Parser
<1>2. p.from \in Nat /\ p.to \in Nat /\ p.to \leq 4 * MaxRequests /\ MaxRequests \in Nat
  BY Parts DEF Packet
<1>3. p.from + 3 \leq p.to
  BY <1>1, <1>2 DEF OnMessageComplete, FirstRead
<1>4. 4 * ((p.to + 2) \div 4) \leq p.to + 2 /\ p.to \leq 4 * ((p.to + 2) \div 4) + 1
  BY <1>2
<1>5. (p.to + 2) \div 4 \in Int
  BY <1>2
<1>6. p.from \geq 1
  BY DEF Packet
<1> DEFINE r == (p.to + 2) \div 4
<1>7. r \in Int /\ 4 * r \leq p.to + 2 /\ p.to \leq 4 * r + 1
  BY <1>4, <1>5
<1>8. Parser(p) = r
  BY <1>1 DEF OnUrl
<1> HIDE DEF r
<1> QED BY <1>1, <1>2, <1>3, <1>6, <1>7, <1>8 DEF HasParts

-----------------------------------------------------------------------------
(* Type correctness.  The answers are numbers of requests because a worker *)
(* gets to Send with nothing but a login.                                  *)

LoginInHand ==
    \A w \in Workers : worker[w] \in {"exec", "send"} => \A p \in hand[w] : IsLogin(p)

OfAccepted ==
    /\ \A p \in held : p.client \in accepted
    /\ \A i \in DOMAIN tasks : tasks[i].client \in accepted
    /\ \A w \in Workers : \A p \in hand[w] : p.client \in accepted
    /\ \A c \in Clients : answers[c] # << >> => c \in accepted

(* A worker has one packet in hand, or none; before Run there is no worker *)
(* and no pool.                                                            *)
OneInHand ==
    /\ \A w \in Workers :
           /\ \A p, q \in hand[w] : p = q
           /\ worker[w] \in {"none", "idle"} => hand[w] = {}
    /\ owner \in StartPlaces => pool = "none" /\ \A w \in Workers : worker[w] = "none"

TInv == TypeOK /\ LoginInHand /\ OfAccepted /\ OneInHand

LEMMA StartType == ASSUME TInv, Start PROVE TInv'
<1> USE DEF StartPlaces, ClosePlaces, poolVars, workVars, clientVars, tickVars, timerVars
<1>1. CASE StartServer
  BY <1>1 DEF TInv, TypeOK, LoginInHand, OfAccepted, OneInHand, StartServer, OwnerGoes
<1>2. CASE StartTick
  BY <1>2 DEF TInv, TypeOK, LoginInHand, OfAccepted, OneInHand, StartTick, OwnerGoes
<1>3. CASE Connect
  BY <1>3 DEF TInv, TypeOK, LoginInHand, OfAccepted, OneInHand, Connect, OwnerGoes
<1>4. CASE Run
  BY <1>4 DEF TInv, TypeOK, LoginInHand, OfAccepted, OneInHand, Run, OwnerGoes
<1> QED BY <1>1, <1>2, <1>3, <1>4 DEF Start

LEMMA CloseType == ASSUME TInv, Close PROVE TInv'
<1> USE DEF StartPlaces, ClosePlaces, poolVars, workVars, clientVars, tickVars, timerVars
<1>1. CASE CloseTick
  BY <1>1 DEF TInv, TypeOK, LoginInHand, OfAccepted, OneInHand, CloseTick, OwnerGoes
<1>2. CASE CloseServer
  BY <1>2 DEF TInv, TypeOK, LoginInHand, OfAccepted, OneInHand, CloseServer, OwnerGoes
<1>3. CASE CloseDb
  BY <1>3 DEF TInv, TypeOK, LoginInHand, OfAccepted, OneInHand, CloseDb, OwnerGoes
<1>4. CASE CloseTaskQueue
  BY <1>4, EmptySeq DEF TInv, TypeOK, LoginInHand, OfAccepted, OneInHand, CloseTaskQueue, OwnerGoes
<1>5. CASE CloseTaskStop
  BY <1>5 DEF TInv, TypeOK, LoginInHand, OfAccepted, OneInHand, CloseTaskStop, OwnerGoes
<1> QED BY <1>1, <1>2, <1>3, <1>4, <1>5 DEF Close

LEMMA UpdateType ==
    ASSUME TypeOK, NEW c \in accepted, Update(c)
    PROVE  m_tick' \in [Clients -> 0 .. MaxTime] /\ updated' \subseteq accepted
BY DEF TypeOK, Update

(* The packets that m_server's threads make are packets of the client.     *)
LEMMA NewPacket ==
    ASSUME TypeOK, NEW c \in Clients
    PROVE  /\ EmptyPacket(c) \in Packet
           /\ \A to \in arrived[c] + 1 .. MaxParts :
                  /\ to \in 0 .. MaxParts
                  /\ [client |-> c, from |-> arrived[c] + 1, to |-> to] \in Packet
<1>1. arrived[c] \in 0 .. MaxParts
  BY DEF TypeOK
<1>2. arrived[c] + 1 \in 1 .. MaxParts + 1
  BY <1>1, Parts
<1>3. \A to \in arrived[c] + 1 .. MaxParts : to \in 0 .. MaxParts
  BY <1>1, Parts
<1> QED BY <1>1, <1>2, <1>3 DEF EmptyPacket, Packet

LEMMA ServerType ==
    ASSUME TInv, NEW c \in Clients, Arrives(c) \/ Serves(c)
    PROVE  TInv'
<1> USE DEF poolVars, workVars, clientVars, tickVars, timerVars
<1>1. CASE Register(c)
  BY <1>1 DEF TInv, TypeOK, LoginInHand, OfAccepted, OneInHand, Register
<1>2. CASE PacketArrives(c)
  BY <1>2, NewPacket DEF TInv, TypeOK, LoginInHand, OfAccepted, OneInHand, PacketArrives
<1>3. CASE EndArrives(c)
  <2>1. EmptyPacket(c) \in Packet /\ EmptyPacket(c).client = c
    BY NewPacket DEF TInv, EmptyPacket
  <2>2. TypeOK'
    BY <1>3, <2>1 DEF TInv, TypeOK, EndArrives
  <2>3. OfAccepted'
    BY <1>3, <2>1 DEF TInv, OfAccepted, EndArrives
  <2> QED BY <1>3, <2>2, <2>3 DEF TInv, LoginInHand, OneInHand, EndArrives
<1>4. CASE ClientConnected(c)
  BY <1>4, UpdateType DEF TInv, TypeOK, LoginInHand, OfAccepted, OneInHand, ClientConnected
<1>5. CASE ClientSendDone(c)
  BY <1>5, UpdateType DEF TInv, TypeOK, LoginInHand, OfAccepted, OneInHand, ClientSendDone
<1> QED BY <1>1, <1>2, <1>3, <1>4, <1>5 DEF Arrives, Serves

LEMMA RecvDataType == ASSUME TInv, NEW p \in held, ClientRecvData(p) PROVE TInv'
<1> USE DEF poolVars, workVars, clientVars, tickVars, timerVars
<1>1. p \in Packet /\ p.client \in accepted /\ tasks \in Seq(Packet)
  BY DEF TInv, TypeOK, OfAccepted
<1>2. m_tick' \in [Clients -> 0 .. MaxTime] /\ updated' \subseteq accepted
  BY <1>1, UpdateType DEF TInv, ClientRecvData
<1>3. /\ tasks' \in Seq(Packet)
      /\ \A i \in DOMAIN tasks' : tasks'[i].client \in accepted
  <2>1. CASE pool = "running"
    BY <1>1, <2>1, AppendQueue, LenProperties DEF TInv, OfAccepted, OneInHand, ClientRecvData
  <2>2. CASE pool # "running"
    BY <1>1, <2>2 DEF TInv, OfAccepted, OneInHand, ClientRecvData
  <2> QED BY <2>1, <2>2
<1>4. TypeOK'
  BY <1>1, <1>2, <1>3 DEF TInv, TypeOK, ClientRecvData
<1>5. OfAccepted'
  BY <1>3 DEF TInv, OfAccepted, ClientRecvData
<1> QED BY <1>4, <1>5 DEF TInv, LoginInHand, OneInHand, ClientRecvData

LEMMA TimerType == ASSUME TInv, Tick \/ OnTimer PROVE TInv'
<1> USE DEF poolVars, workVars, clientVars, tickVars, timerVars
<1>1. CASE Tick
  BY <1>1, EdoyunAssumption DEF TInv, TypeOK, LoginInHand, OfAccepted, OneInHand, Tick
<1>2. CASE TimerFirst
  BY <1>2 DEF TInv, TypeOK, LoginInHand, OfAccepted, OneInHand, TimerFirst
<1>3. CASE TimerTest
  BY <1>3 DEF TInv, TypeOK, LoginInHand, OfAccepted, OneInHand, TimerTest
<1>4. CASE GetClients
  BY <1>4 DEF TInv, TypeOK, LoginInHand, OfAccepted, OneInHand, GetClients
<1>5. CASE DropClient
  BY <1>5 DEF TInv, TypeOK, LoginInHand, OfAccepted, OneInHand, DropClient
<1>6. ASSUME NEW c \in todo, TestClient(c) PROVE TInv'
  <2>1. todo' \subseteq accepted /\ victim' \subseteq accepted
    BY <1>6 DEF TInv, TypeOK, TestClient
  <2>2. timer' \in {"ended", "each", "drop"}
    BY <1>6 DEF TestClient, NextClient
  <2> QED BY <1>6, <2>1, <2>2 DEF TInv, TypeOK, LoginInHand, OfAccepted, OneInHand, TestClient
<1> QED BY <1>1, <1>2, <1>3, <1>4, <1>5, <1>6 DEF OnTimer

(* A worker that is through with its packet leaves the invariant alone.    *)
LEMMA DoneType ==
    ASSUME TInv, NEW w \in Workers, NEW from \in {"parse", "send"},
           WorkerGoes(w, from, "idle"), Done(w), UNCHANGED tasks,
           answers' \in [Clients -> Seq(1 .. MaxRequests)],
           \A c \in Clients : answers'[c] # << >> => c \in accepted
    PROVE  TInv'
<1> USE DEF poolVars, clientVars, tickVars, timerVars
<1>1. hand[w] \subseteq Packet /\ hand' = [hand EXCEPT ![w] = {}]
  BY DEF TInv, TypeOK, Done
<1>2. TypeOK'
  BY <1>1 DEF TInv, TypeOK, Done, WorkerGoes
<1>3. LoginInHand' /\ OneInHand'
  BY <1>1 DEF TInv, TypeOK, LoginInHand, OneInHand, StartPlaces, WorkerGoes
<1>4. OfAccepted'
  BY <1>1 DEF TInv, TypeOK, OfAccepted, WorkerGoes
<1> QED BY <1>2, <1>3, <1>4 DEF TInv

LEMMA WorkerType == ASSUME TInv, NEW w \in Workers, Worker(w) PROVE TInv'
<1> USE DEF poolVars, clientVars, tickVars, timerVars
<1>1. CASE TakeTask(w)
  <2>1. /\ tasks \in Seq(Packet) /\ tasks # << >> /\ tasks' = Tail(tasks)
        /\ hand' = [hand EXCEPT ![w] = {Head(tasks)}] /\ WorkerGoes(w, "idle", "parse")
    BY <1>1 DEF TInv, TypeOK, TakeTask
  <2>2. /\ tasks' \in Seq(Packet) /\ Head(tasks) \in Packet
        /\ Head(tasks).client \in accepted
        /\ \A i \in DOMAIN tasks' : tasks'[i].client \in accepted
    BY <2>1, TailQueue, LenProperties DEF TInv, OfAccepted
  <2>3. hand' \in [Workers -> SUBSET Packet]
    BY <2>1, <2>2 DEF TInv, TypeOK
  <2>4. TypeOK'
    BY <1>1, <2>1, <2>2, <2>3 DEF TInv, TypeOK, TakeTask, WorkerGoes
  <2>5. LoginInHand'
    BY <2>1 DEF TInv, TypeOK, LoginInHand, WorkerGoes
  <2>6. OfAccepted'
    BY <1>1, <2>1, <2>2 DEF TInv, TypeOK, OfAccepted, OneInHand, WorkerGoes, TakeTask
  <2>7. OneInHand'
    BY <1>1, <2>1 DEF TInv, TypeOK, OneInHand, StartPlaces, WorkerGoes, TakeTask
  <2> QED BY <2>4, <2>5, <2>6, <2>7 DEF TInv
<1>2. CASE DealPacket(w)
  <2>1. PICK p \in hand[w] :
          /\ \/ IsLogin(p) /\ WorkerGoes(w, "parse", "exec") /\ UNCHANGED << hand, dealt >>
             \/ ~IsLogin(p) /\ WorkerGoes(w, "parse", "idle") /\ Done(w)
          /\ UNCHANGED << tasks, answers >>
    BY <1>2 DEF DealPacket
  <2>2. p \in Packet
    BY <2>1 DEF TInv, TypeOK
  <2>3. CASE IsLogin(p)
    <3>1. \A q \in hand[w] : IsLogin(q)
      BY <2>1, <2>3 DEF TInv, OneInHand
    <3>2. /\ worker' = [worker EXCEPT ![w] = "exec"] /\ worker[w] = "parse"
          /\ UNCHANGED << tasks, answers, hand, dealt, owner, m_db, pool, refused, held, told,
                          accepted, arrived, ended, m_tick, updated, now, timer, tick, todo,
                          victim, m_mapClients >>
      BY <2>1, <2>3 DEF WorkerGoes
    <3>3. TypeOK'
      BY <3>2 DEF TInv, TypeOK
    <3>4. LoginInHand'
      BY <3>1, <3>2 DEF TInv, TypeOK, LoginInHand
    <3>5. OfAccepted' /\ OneInHand'
      BY <3>2 DEF TInv, TypeOK, OfAccepted, OneInHand, StartPlaces
    <3> QED BY <3>3, <3>4, <3>5 DEF TInv
  <2>4. CASE ~IsLogin(p)
    BY <2>1, <2>4, DoneType DEF TInv, TypeOK, OfAccepted
  <2> QED BY <2>3, <2>4
<1>3. CASE Exec(w)
  <2>1. PICK to \in {"send", "crashed"} : WorkerGoes(w, "exec", to)
    BY <1>3 DEF Exec
  <2> QED BY <1>3, <2>1 DEF TInv, TypeOK, LoginInHand, OfAccepted, OneInHand,
                            StartPlaces, WorkerGoes, Exec
<1>4. CASE Send(w)
  <2>1. PICK p \in hand[w] :
          /\ WorkerGoes(w, "send", "idle") /\ Done(w) /\ UNCHANGED tasks
          /\ answers' = [answers EXCEPT ![p.client] = Append(@, Parser(p))]
    BY <1>4 DEF Send
  <2>2. p \in Packet /\ p.client \in Clients /\ p.client \in accepted /\ IsLogin(p)
    BY <2>1 DEF TInv, TypeOK, OfAccepted, LoginInHand, WorkerGoes, Packet
  <2>3. answers' \in [Clients -> Seq(1 .. MaxRequests)]
    <3>1. Append(answers[p.client], Parser(p)) \in Seq(1 .. MaxRequests)
      BY <2>2, LoginParses, AppendQueue DEF TInv, TypeOK
    <3> QED BY <2>1, <3>1 DEF TInv, TypeOK
  <2>4. \A c \in Clients : answers'[c] # << >> => c \in accepted
    BY <2>1, <2>2 DEF TInv, TypeOK, OfAccepted
  <2> QED BY <2>1, <2>3, <2>4, DoneType
<1> QED BY <1>1, <1>2, <1>3, <1>4 DEF Worker

LEMMA TypeNext == ASSUME TInv, [Next]_vars PROVE TInv'
<1>1. CASE Next
  BY <1>1, StartType, CloseType, TimerType, ServerType, RecvDataType, WorkerType DEF Next
<1>2. CASE UNCHANGED vars
  BY <1>2 DEF vars, poolVars, workVars, clientVars, tickVars, timerVars,
              TInv, TypeOK, LoginInHand, OfAccepted, OneInHand
<1> QED BY <1>1, <1>2

LEMMA TypeInit == Init => TInv
BY Parts, EdoyunAssumption, EmptySeq
   DEF Init, TInv, TypeOK, LoginInHand, OfAccepted, OneInHand, StartPlaces

(* Every variable of the business layer keeps its type: in particular what *)
(* is answered is the number of a request, whatever the packets were cut   *)
(* from, and only clients that were accepted are updated, tested, dropped. *)
THEOREM TypeCorrect == Spec => []TypeOK
<1>1. Spec => []TInv
  BY TypeInit, TypeNext, PTL DEF Spec
<1> QED BY <1>1, PTL DEF TInv

-----------------------------------------------------------------------------
(* A login ends the process only while Close is between m_db->Close and    *)
(* the end of m_task.Close.                                                *)

CrashInv ==
    /\ m_db = "closed" => owner \in {"closetask", "stoptask", "closed"}
    /\ owner = "closed" => \A w \in Workers : worker[w] = "gone"
    /\ CrashOnlyWhileClosing

LEMMA CrashNext == ASSUME TInv, CrashInv, [Next]_vars PROVE CrashInv'
<1> USE DEF CrashInv, CrashOnlyWhileClosing, Crashed, vars, poolVars, workVars, clientVars,
            tickVars, timerVars
<1>1. CASE Start
  BY <1>1 DEF Start, StartServer, StartTick, Connect, Run, OwnerGoes
<1>2. CASE Close
  BY <1>2 DEF Close, CloseTick, CloseServer, CloseDb, CloseTaskQueue, CloseTaskStop, OwnerGoes
<1>3. CASE Tick \/ OnTimer
  BY <1>3 DEF Tick, OnTimer, TimerFirst, TimerTest, GetClients, DropClient, TestClient
<1>4. ASSUME NEW c \in Clients, Arrives(c) \/ Serves(c) PROVE CrashInv'
  BY <1>4 DEF Arrives, Serves, Register, PacketArrives, EndArrives, ClientConnected, ClientSendDone
<1>5. ASSUME NEW p \in held, ClientRecvData(p) PROVE CrashInv'
  BY <1>5 DEF ClientRecvData
<1>6. ASSUME NEW w \in Workers, Worker(w) PROVE CrashInv'
  <2>1. PICK from \in {"idle", "parse", "exec", "send"},
             to \in {"parse", "exec", "send", "idle", "crashed"} :
          WorkerGoes(w, from, to) /\ (to = "crashed" => m_db = "closed")
    BY <1>6 DEF Worker, TakeTask, DealPacket, Exec, Send
  <2>2. owner # "closed"
    BY <2>1 DEF WorkerGoes
  <2> QED BY <2>1, <2>2 DEF WorkerGoes, TInv, TypeOK
<1>7. CASE UNCHANGED vars
  BY <1>7
<1> QED BY <1>1, <1>2, <1>3, <1>4, <1>5, <1>6, <1>7 DEF Next

(* Close closes the database before it ends m_task: a login in between may *)
(* end the process, and at no other time.                                  *)
THEOREM CrashesOnlyWhileClosing == Spec => []CrashOnlyWhileClosing
<1>1. Init => CrashInv
  BY DEF Init, CrashInv, CrashOnlyWhileClosing, Crashed
<1>2. Spec => [](TInv /\ CrashInv)
  BY <1>1, TypeInit, TypeNext, CrashNext, PTL DEF Spec
<1> QED BY <1>2, PTL DEF CrashInv

-----------------------------------------------------------------------------
(* What OnTimer drops.                                                     *)

(* The static of OnTimer and the ticks of clients come from the same clock; *)
(* neither OnTimer nor Start comes back to a test while a client is in hand. *)
TickInv ==
    /\ tick \leq now
    /\ \A c \in Clients : m_tick[c] \leq now
    /\ victim # {} => timer \in {"drop", "ended"}
    /\ owner \in {"new", "timer"} => victim = {} /\ timer = "none"

DropInv == TickInv /\ DroppedWasIdle

LEMMA UpdateKeepsDrop ==
    ASSUME TInv, DropInv, NEW c \in accepted, Update(c),
           UNCHANGED << owner, now, timer, tick, victim >>
    PROVE  DropInv'
<1>1. /\ c \in Clients /\ m_tick' = [m_tick EXCEPT ![c] = now] /\ updated' = updated \cup {c}
      /\ now \in Nat /\ tick \in Nat /\ m_tick \in [Clients -> Nat] /\ victim \subseteq Clients
  BY EdoyunAssumption DEF TInv, TypeOK, Update
<1>2. TickInv'
  BY <1>1 DEF DropInv, TickInv
<1>3. DroppedWasIdle'
  BY <1>1, EdoyunAssumption DEF DropInv, TickInv, DroppedWasIdle
<1> QED BY <1>2, <1>3 DEF DropInv

LEMMA DropNext == ASSUME TInv, DropInv, [Next]_vars PROVE DropInv'
<1> USE DEF vars, poolVars, workVars, clientVars, tickVars, timerVars
<1> DEFINE Same == UNCHANGED << now, tick, victim, m_tick, updated >>
<1>1. ASSUME Same, UNCHANGED << owner, timer >> PROVE DropInv'
  BY <1>1 DEF DropInv, TickInv, DroppedWasIdle
<1>2. CASE Start
  BY <1>2 DEF Start, StartServer, StartTick, Connect, Run, OwnerGoes,
              DropInv, TickInv, DroppedWasIdle
<1>3. CASE Close
  BY <1>3 DEF Close, CloseTick, CloseServer, CloseDb, CloseTaskQueue, CloseTaskStop, OwnerGoes,
              DropInv, TickInv, DroppedWasIdle
<1>4. CASE Tick
  <2>1. now \in Nat /\ tick \in Nat /\ m_tick \in [Clients -> Nat]
    BY EdoyunAssumption DEF TInv, TypeOK
  <2> QED BY <1>4, <2>1 DEF Tick, DropInv, TickInv, DroppedWasIdle
<1>5. CASE OnTimer
  <2>1. CASE TimerFirst \/ TimerTest
    <3>1. victim = {} /\ victim' = {} /\ UNCHANGED << owner, now, m_tick, updated >>
      BY <2>1 DEF TimerFirst, TimerTest, DropInv, TickInv
    <3>2. tick' \in {tick, now} /\ owner \notin {"new", "timer"} /\ now \in Nat
      BY <2>1, EdoyunAssumption DEF TimerFirst, TimerTest, DropInv, TickInv, TInv, TypeOK
    <3> QED BY <3>1, <3>2 DEF DropInv, TickInv, DroppedWasIdle
  <2>2. CASE GetClients \/ DropClient
    BY <2>2 DEF GetClients, DropClient, DropInv, TickInv, DroppedWasIdle
  <2>3. ASSUME NEW c \in todo, TestClient(c) PROVE DropInv'
    <3>1. victim = {} /\ owner \notin {"new", "timer"}
      BY <2>3 DEF TestClient, DropInv, TickInv
    <3>2. TickInv'
      BY <2>3, <3>1 DEF TestClient, NextClient, DropInv, TickInv
    <3>3. DroppedWasIdle'
      BY <2>3, <3>1 DEF TestClient, IsTimeOut, DroppedWasIdle
    <3> QED BY <3>2, <3>3 DEF DropInv
  <2> QED BY <1>5, <2>1, <2>2, <2>3 DEF OnTimer
<1>6. ASSUME NEW c \in Clients, Arrives(c) \/ Serves(c) PROVE DropInv'
  <2>1. CASE Arrives(c)
    BY <1>1, <2>1 DEF Arrives, Register, PacketArrives, EndArrives
  <2>2. CASE Serves(c)
    <3>1. c \in accepted /\ Update(c) /\ UNCHANGED << owner, now, timer, tick, victim >>
      BY <2>2 DEF Serves, ClientConnected, ClientSendDone, TInv, OfAccepted
    <3> QED BY <3>1, UpdateKeepsDrop
  <2> QED BY <1>6, <2>1, <2>2
<1>7. ASSUME NEW p \in held, ClientRecvData(p) PROVE DropInv'
  <2>1. p.client \in accepted /\ Update(p.client) /\ UNCHANGED << owner, now, timer, tick, victim >>
    BY <1>7 DEF ClientRecvData, TInv, OfAccepted
  <2> QED BY <2>1, UpdateKeepsDrop
<1>8. ASSUME NEW w \in Workers, Worker(w) PROVE DropInv'
  BY <1>1, <1>8 DEF Worker, TakeTask, DealPacket, Exec, Send, WorkerGoes
<1>9. CASE UNCHANGED vars
  BY <1>1, <1>9
<1> QED BY <1>2, <1>3, <1>4, <1>5, <1>6, <1>7, <1>8, <1>9 DEF Next

(* A client OnClientTimeOut drops was idle for long when it was tested,    *)
(* except for what an Update before its first, or after the test, hides.   *)
THEOREM DroppedWereIdle == Spec => []DroppedWasIdle
<1>1. Init => DropInv
  BY EdoyunAssumption DEF Init, DropInv, TickInv, DroppedWasIdle
<1>2. Spec => [](TInv /\ DropInv)
  BY <1>1, TypeInit, TypeNext, DropNext, PTL DEF Spec
<1> QED BY <1>2, PTL DEF DropInv

-----------------------------------------------------------------------------
(* Where packets are.  Waiting ones are in one place; settled ones, refused *)
(* or dealt with, do not come back; and those of a client follow each      *)
(* other without gaps while m_server passes them on.                       *)

Waiting == held \cup Packets(tasks) \cup UNION {hand[w] : w \in Workers}
Settled == dealt \cup refused
All == Waiting \cup Settled

Passing == owner = "new" \/ ServerRuns

Before(p, q) == p.to < q.from

OnePlace ==
    /\ Distinct(tasks)
    /\ held \cap Packets(tasks) = {}
    /\ \A w \in Workers : hand[w] \cap (held \cup Packets(tasks)) = {}
    /\ \A v, w \in Workers : v # w => hand[v] \cap hand[w] = {}
    /\ \A p \in Settled : HasParts(p) => p \notin Waiting
    /\ \A p \in dealt \cap refused : ~HasParts(p)

InOrder ==
    /\ \A p \in All : p.to \leq arrived[p.client]
    /\ \A p, q \in All :
           HasParts(p) /\ HasParts(q) /\ p.client = q.client /\ p # q
               => Before(p, q) \/ Before(q, p)

NoneLost ==
    Passing => \A c \in Clients : \A k \in 1 .. arrived[c] :
                   \E p \in All : p.client = c /\ k \in p.from .. p.to

PacketInv == OnePlace /\ InOrder /\ NoneLost

(* A step that moves packets from place to place.                          *)
LEMMA MovedInOrder ==
    ASSUME PacketInv, All' \subseteq All, Passing' => Passing /\ All' = All, UNCHANGED arrived
    PROVE  InOrder' /\ NoneLost'
<1>1. InOrder'
  BY DEF PacketInv, InOrder
<1>2. NoneLost'
  BY DEF PacketInv, NoneLost
<1> QED BY <1>1, <1>2

(* A step that moves none.                                                 *)
LEMMA PacketsStay ==
    ASSUME PacketInv, UNCHANGED << tasks, hand, held, arrived, dealt, refused >>,
           Passing' => Passing
    PROVE  PacketInv'
<1>1. UNCHANGED << All, Waiting, Settled, Packets(tasks), Distinct(tasks) >>
  BY DEF All, Waiting, Settled, Packets, Distinct
<1>2. InOrder' /\ NoneLost'
  BY <1>1, MovedInOrder
<1>3. OnePlace'
  BY <1>1 DEF PacketInv, OnePlace
<1> QED BY <1>2, <1>3 DEF PacketInv

LEMMA AllPackets == ASSUME TypeOK PROVE All \subseteq Packet /\ tasks \in Seq(Packet)
<1>1. tasks \in Seq(Packet)
  BY DEF TypeOK
<1>2. Packets(tasks) \subseteq Packet
  BY <1>1, LenProperties, ElementOfSeq DEF Packets
<1> QED BY <1>1, <1>2 DEF TypeOK, All, Waiting, Settled

(* A packet comes into the hands of m_server's threads.                    *)
LEMMA PacketComes ==
    ASSUME TInv, PacketInv, NEW c \in Clients, NEW to \in arrived[c] .. MaxParts,
           NEW p, p = [client |-> c, from |-> arrived[c] + 1, to |-> to],
           p \notin Waiting, ServerRuns,
           held' = held \cup {p}, arrived' = [arrived EXCEPT ![c] = to],
           UNCHANGED << owner, tasks, hand, dealt, refused >>
    PROVE  PacketInv'
<1>1. /\ arrived \in [Clients -> Nat] /\ to \in Nat /\ MaxParts \in Nat
      /\ arrived'[c] = to /\ arrived[c] \leq to
      /\ \A d \in Clients : d # c => arrived'[d] = arrived[d]
  BY Parts DEF TInv, TypeOK
<1>2. /\ Packets(tasks)' = Packets(tasks) /\ Distinct(tasks)' = Distinct(tasks)
      /\ Settled' = Settled /\ Waiting' = Waiting \cup {p} /\ All' = All \cup {p}
  BY DEF Packets, Distinct, Settled, Waiting, All
<1>3. /\ p.client = c /\ p.from = arrived[c] + 1 /\ p.to = to
      /\ HasParts(p) => arrived[c] < to
  BY <1>1 DEF HasParts
<1>4. \A q \in All : /\ q.client \in Clients /\ q.to \in Nat /\ q.from \in Nat
                    /\ q.to \leq arrived[q.client]
  BY AllPackets, Parts DEF TInv, PacketInv, InOrder, Packet
<1>5. HasParts(p) => p \notin All
  BY <1>3, <1>4, <1>1
<1>6. OnePlace'
  BY <1>2, <1>5 DEF PacketInv, OnePlace, All, Settled, Waiting
<1>7. \A q \in All : q.client = c => Before(q, p)
  BY <1>1, <1>3, <1>4 DEF Before
<1>8. InOrder'
  <2>1. \A q \in All' : q.to \leq arrived'[q.client]
    BY <1>1, <1>2, <1>3, <1>4
  <2>2. ASSUME NEW q \in All', NEW r \in All', HasParts(q), HasParts(r),
               q.client = r.client, q # r
        PROVE  Before(q, r) \/ Before(r, q)
    BY <1>2, <1>3, <1>7, <2>2 DEF PacketInv, InOrder
  <2> QED BY <2>1, <2>2 DEF InOrder, Before, HasParts
<1>9. NoneLost'
  <2> SUFFICES ASSUME NEW d \in Clients, NEW k \in 1 .. arrived'[d]
               PROVE  \E q \in All' : q.client = d /\ k \in q.from .. q.to
    BY DEF NoneLost
  <2>1. CASE d = c /\ k > arrived[c]
    BY <1>1, <1>2, <1>3, <2>1
  <2>2. CASE ~(d = c /\ k > arrived[c])
    <3>1. k \in 1 .. arrived[d]
      BY <1>1, <2>2
    <3> QED BY <1>2, <3>1 DEF PacketInv, NoneLost, Passing
  <2> QED BY <2>1, <2>2
<1> QED BY <1>6, <1>8, <1>9 DEF PacketInv

(* From m_server into m_task, or refused by it.                            *)
LEMMA PacketPassed ==
    ASSUME TInv, PacketInv, NEW p \in held, ClientRecvData(p)
    PROVE  PacketInv'
<1>1. /\ p \in Packet /\ tasks \in Seq(Packet) /\ held' = held \ {p}
      /\ UNCHANGED << owner, hand, dealt, arrived >>
  BY AllPackets DEF TInv, TypeOK, ClientRecvData, workVars
<1>2. p \notin Packets(tasks) /\ (HasParts(p) => p \notin Settled)
      /\ \A w \in Workers : p \notin hand[w]
  BY DEF PacketInv, OnePlace, Waiting
<1>3. CASE pool = "running"
  <2>1. /\ Packets(tasks)' = Packets(tasks) \cup {p} /\ Distinct(tasks)' /\ UNCHANGED refused
    <3>1. tasks' = Append(tasks, p) /\ UNCHANGED refused
      BY <1>3 DEF ClientRecvData
    <3> QED BY <1>1, <1>2, <3>1, AppendPackets DEF PacketInv, OnePlace, Packets, Distinct
  <2>2. Waiting' = Waiting /\ Settled' = Settled /\ All' = All
    BY <1>1, <2>1 DEF Waiting, Settled, All
  <2>3. OnePlace'
    BY <1>1, <1>2, <2>1, <2>2 DEF PacketInv, OnePlace, HasParts
  <2> QED BY <1>1, <2>2, <2>3, MovedInOrder DEF PacketInv, Passing, ServerRuns
<1>4. CASE pool # "running"
  <2>1. UNCHANGED tasks /\ refused' = refused \cup {p}
    BY <1>4 DEF ClientRecvData
  <2>2. /\ Packets(tasks)' = Packets(tasks) /\ Distinct(tasks)' = Distinct(tasks)
        /\ Waiting' = Waiting \ {p} /\ Settled' = Settled \cup {p} /\ All' = All
    BY <1>1, <1>2, <2>1 DEF Waiting, Settled, All, Packets, Distinct
  <2>3. OnePlace'
    BY <1>1, <1>2, <2>1, <2>2 DEF PacketInv, OnePlace, HasParts, Settled
  <2> QED BY <1>1, <2>2, <2>3, MovedInOrder DEF PacketInv, Passing, ServerRuns
<1> QED BY <1>3, <1>4

(* From the queue of m_task into a worker's hand.                          *)
LEMMA PacketTaken ==
    ASSUME TInv, PacketInv, NEW w \in Workers, TakeTask(w)
    PROVE  PacketInv'
<1> DEFINE p == Head(tasks)
<1>1. /\ tasks \in Seq(Packet) /\ tasks # << >> /\ tasks' = Tail(tasks)
      /\ hand \in [Workers -> SUBSET Packet] /\ hand[w] = {}
      /\ hand' = [hand EXCEPT ![w] = {p}]
      /\ UNCHANGED << owner, held, dealt, arrived, refused >>
  BY DEF TInv, TypeOK, OneInHand, TakeTask, WorkerGoes, clientVars
<1>2. /\ Packets(tasks) = Packets(tasks') \cup {p} /\ Distinct(tasks')
      /\ p \notin Packets(tasks')
  BY <1>1, TailPackets DEF PacketInv, OnePlace
<1>3. Packets(tasks') = Packets(tasks)' /\ Distinct(tasks') = Distinct(tasks)'
  BY DEF Packets, Distinct
<1>4. hand'[w] = {p} /\ \A v \in Workers : v # w => hand'[v] = hand[v]
  BY <1>1
<1> HIDE DEF p
<1>5. Waiting' = Waiting
  <2>1. ASSUME NEW q PROVE (\E v \in Workers : q \in hand'[v])
                              <=> (\E v \in Workers : q \in hand[v]) \/ q = p
    BY <1>1, <1>4
  <2>2. ASSUME NEW q PROVE q \in Waiting' <=> q \in Waiting
    BY <1>1, <1>2, <1>3, <2>1 DEF Waiting
  <2> QED BY <2>2, Zenon DEF Waiting
<1>6. Settled' = Settled /\ All' = All
  BY <1>1, <1>5 DEF Settled, All
<1>7. p \notin held /\ \A v \in Workers : p \notin hand[v]
  BY <1>2 DEF PacketInv, OnePlace
<1>8. OnePlace'
  BY <1>1, <1>2, <1>3, <1>4, <1>5, <1>6, <1>7 DEF PacketInv, OnePlace, HasParts
<1> QED BY <1>1, <1>6, <1>8, MovedInOrder DEF PacketInv, Passing, ServerRuns

(* A worker is through with its packet.                                    *)
LEMMA PacketDone ==
    ASSUME TInv, PacketInv, NEW w \in Workers, Done(w),
           UNCHANGED << owner, tasks, held, arrived, refused >>
    PROVE  PacketInv'
<1>1. /\ hand \in [Workers -> SUBSET Packet] /\ hand' = [hand EXCEPT ![w] = {}]
      /\ dealt' = dealt \cup hand[w]
      /\ hand'[w] = {} /\ \A v \in Workers : v # w => hand'[v] = hand[v]
  BY DEF TInv, TypeOK, Done
<1>2. Packets(tasks)' = Packets(tasks) /\ Distinct(tasks)' = Distinct(tasks)
  BY DEF Packets, Distinct
<1>3. \A p \in hand[w] :
          /\ p \notin held /\ p \notin Packets(tasks)
          /\ \A v \in Workers : v # w => p \notin hand[v]
          /\ HasParts(p) => p \notin Settled
  BY DEF PacketInv, OnePlace, Waiting
<1>4. Waiting' = Waiting \ hand[w]
  <2>1. UNION {hand'[v] : v \in Workers} = (UNION {hand[v] : v \in Workers}) \ hand[w]
    BY <1>1, <1>3
  <2> QED BY <1>2, <1>3, <2>1 DEF Waiting
<1>5. Settled' = Settled \cup hand[w] /\ All' = All
  BY <1>1, <1>4 DEF Settled, All, Waiting
<1>6. OnePlace'
  BY <1>1, <1>2, <1>3, <1>4, <1>5 DEF PacketInv, OnePlace, HasParts, Settled
<1> QED BY <1>5, <1>6, MovedInOrder DEF PacketInv, Passing, ServerRuns

LEMMA PacketsClose == ASSUME TInv, PacketInv, Close PROVE PacketInv'
<1> USE DEF OwnerGoes, workVars, poolVars, clientVars
<1>1. CASE CloseTick \/ CloseDb \/ CloseTaskStop
  BY <1>1, PacketsStay DEF CloseTick, CloseDb, CloseTaskStop, Passing, ServerRuns
<1>2. CASE CloseServer
  <2>1. /\ held' = {} /\ UNCHANGED << tasks, hand, arrived, dealt, refused >> /\ ~Passing'
    BY <1>2 DEF CloseServer, Passing, ServerRuns
  <2>2. /\ Packets(tasks)' = Packets(tasks) /\ Distinct(tasks)' = Distinct(tasks)
        /\ Waiting' \subseteq Waiting /\ Settled' = Settled /\ All' \subseteq All
    BY <2>1 DEF Waiting, Settled, All, Packets, Distinct
  <2>3. OnePlace'
    BY <2>1, <2>2 DEF PacketInv, OnePlace, HasParts
  <2> QED BY <2>1, <2>2, <2>3, MovedInOrder DEF PacketInv
<1>3. CASE CloseTaskQueue
  <2>1. /\ tasks' = << >> /\ UNCHANGED << held, hand, arrived, dealt, refused >> /\ ~Passing'
    BY <1>3 DEF CloseTaskQueue, Passing, ServerRuns
  <2>2. Packets(tasks)' = {} /\ Distinct(tasks)'
    BY <2>1 DEF Packets, Distinct
  <2>3. Waiting' \subseteq Waiting /\ Settled' = Settled /\ All' \subseteq All
    BY <2>1, <2>2 DEF Waiting, Settled, All
  <2>4. OnePlace'
    BY <2>1, <2>2, <2>3 DEF PacketInv, OnePlace, HasParts
  <2> QED BY <2>1, <2>3, <2>4, MovedInOrder DEF PacketInv
<1> QED BY <1>1, <1>2, <1>3 DEF Close

LEMMA PacketsNext == ASSUME TInv, PacketInv, [Next]_vars PROVE PacketInv'
<1> USE DEF workVars, poolVars, clientVars, tickVars, timerVars
<1>1. CASE Start
  BY <1>1, PacketsStay DEF Start, StartServer, StartTick, Connect, Run, OwnerGoes,
                           Passing, ServerRuns
<1>2. CASE Tick \/ OnTimer
  BY <1>2, PacketsStay DEF Tick, OnTimer, TimerFirst, TimerTest, GetClients, DropClient,
                           TestClient, Passing, ServerRuns
<1>3. ASSUME NEW c \in Clients, Arrives(c) \/ Serves(c) PROVE PacketInv'
  <2>1. CASE Register(c) \/ Serves(c)
    BY <2>1, PacketsStay DEF Register, Serves, ClientConnected, ClientSendDone,
                             Passing, ServerRuns
  <2>2. CASE PacketArrives(c)
    <3>1. PICK to \in arrived[c] + 1 .. MaxParts :
             /\ held' = held \cup {[client |-> c, from |-> arrived[c] + 1, to |-> to]}
             /\ arrived' = [arrived EXCEPT ![c] = to]
      BY <2>2 DEF PacketArrives
    <3> DEFINE p == [client |-> c, from |-> arrived[c] + 1, to |-> to]
    <3>2. arrived[c] \in Nat /\ to \in arrived[c] .. MaxParts /\ ~(to \leq arrived[c])
      BY Parts DEF TInv, TypeOK
    <3>3. p \notin Waiting
      BY <3>2 DEF PacketInv, InOrder, All
    <3> QED BY <2>2, <3>1, <3>2, <3>3, PacketComes DEF PacketArrives
  <2>3. CASE EndArrives(c)
    <3>1. /\ arrived[c] \in arrived[c] .. MaxParts
          /\ arrived' = [arrived EXCEPT ![c] = arrived[c]]
      BY <2>3, Parts DEF EndArrives, TInv, TypeOK
    <3>2. EmptyPacket(c) \notin Waiting
      BY <2>3 DEF EndArrives, Waiting, Packets, Queued, InHand
    <3> QED BY <2>3, <3>1, <3>2, PacketComes DEF EndArrives, EmptyPacket
  <2> QED BY <1>3, <2>1, <2>2, <2>3 DEF Arrives
<1>4. ASSUME NEW w \in Workers, Worker(w) PROVE PacketInv'
  <2>1. CASE DealPacket(w) \/ Exec(w) \/ Send(w)
    <3>1. UNCHANGED << owner, tasks, held, arrived, refused >>
      BY <2>1 DEF DealPacket, Exec, Send, WorkerGoes
    <3>2. Done(w) \/ UNCHANGED << hand, dealt >>
      BY <2>1 DEF DealPacket, Exec, Send
    <3> QED BY <3>1, <3>2, PacketDone, PacketsStay DEF Passing, ServerRuns
  <2> QED BY <1>4, <2>1, PacketTaken DEF Worker
<1>5. CASE UNCHANGED vars
  BY <1>5, PacketsStay DEF vars, Passing, ServerRuns
<1> QED BY <1>1, <1>2, <1>3, <1>4, <1>5, PacketsClose, PacketPassed DEF Next

LEMMA PacketsInit == Init => PacketInv
<1> SUFFICES ASSUME Init PROVE PacketInv
  OBVIOUS
<1>1. Packets(tasks) = {} /\ Distinct(tasks) /\ All = {} /\ Waiting = {} /\ Settled = {}
  BY DEF Init, Packets, Distinct, All, Waiting, Settled
<1>2. OnePlace /\ InOrder
  BY <1>1 DEF Init, OnePlace, InOrder
<1>3. NoneLost
  BY DEF Init, NoneLost
<1> QED BY <1>2, <1>3 DEF PacketInv

LEMMA PacketsInvariant == Spec => [](TInv /\ PacketInv)
BY TypeInit, TypeNext, PacketsInit, PacketsNext, PTL DEF Spec

(* Every packet m_server got is in exactly one place, and all that arrived *)
(* is in some packet as long as m_server runs: nothing is dealt with twice *)
(* and nothing is lost on the way, for any number of threads and workers.  *)
THEOREM PacketsInOnePlace == Spec => []PacketsOnce
<1>1. ASSUME TInv, PacketInv PROVE PacketsOnce
  <2>1. Queued = Packets(tasks) /\ DOMAIN Places = 1 .. 5
    BY DEF Queued, Packets, Places
  <2>2. /\ Places[1] = held /\ Places[2] = Packets(tasks) /\ Places[3] = InHand
        /\ Places[4] = dealt /\ Places[5] = refused
    BY <2>1 DEF Places
  <2>3. \A i, j \in DOMAIN Places : i # j => \A p \in Places[i] \cap Places[j] : ~HasParts(p)
    <3> SUFFICES ASSUME NEW i \in 1 .. 5, NEW j \in 1 .. 5, i # j,
                        NEW p \in Places[i] \cap Places[j], HasParts(p)
                 PROVE  FALSE
      BY <2>1
    <3>1. p \in Waiting => p \notin Settled
      BY <1>1 DEF PacketInv, OnePlace
    <3>2. /\ p \in held => p \notin Packets(tasks) /\ p \notin InHand
          /\ p \in Packets(tasks) => p \notin InHand
          /\ p \in dealt => p \notin refused
      BY <1>1 DEF PacketInv, OnePlace, InHand
    <3>3. /\ p \in held \/ p \in Packets(tasks) \/ p \in InHand => p \in Waiting
          /\ p \in dealt \/ p \in refused => p \in Settled
      BY DEF Waiting, Settled, InHand
    <3>4. ASSUME NEW k \in 1 .. 5, p \in Places[k]
          PROVE  \/ k = 1 /\ p \in held
                 \/ k = 2 /\ p \in Packets(tasks)
                 \/ k = 3 /\ p \in InHand
                 \/ k = 4 /\ p \in dealt
                 \/ k = 5 /\ p \in refused
      BY <2>2, <3>4
    <3>5. p \in Places[i] /\ p \in Places[j]
      OBVIOUS
    <3> HIDE DEF Places
    <3> QED BY <3>1, <3>2, <3>3, <3>4, <3>5
  <2>4. \A v, w \in Workers : v # w => hand[v] \cap hand[w] = {}
    BY <1>1 DEF PacketInv, OnePlace
  <2>5. ServerRuns =>
            \A c \in Clients : \A k \in 1 .. arrived[c] :
                \E i \in DOMAIN Places : \E p \in Places[i] :
                    p.client = c /\ k \in p.from .. p.to
    <3> SUFFICES ASSUME ServerRuns, NEW c \in Clients, NEW k \in 1 .. arrived[c]
                 PROVE  \E i \in DOMAIN Places : \E p \in Places[i] :
                            p.client = c /\ k \in p.from .. p.to
      OBVIOUS
    <3>1. PICK p \in All : p.client = c /\ k \in p.from .. p.to
      BY <1>1 DEF PacketInv, NoneLost, Passing, ServerRuns
    <3>2. \/ p \in held \/ p \in Packets(tasks) \/ p \in InHand
          \/ p \in dealt \/ p \in refused
      BY DEF All, Waiting, Settled, InHand
    <3> QED BY <2>1, <2>2, <3>1, <3>2
  <2> QED BY <1>1, <2>3, <2>4, <2>5 DEF PacketInv, OnePlace, PacketsOnce, Distinct
<1> QED BY <1>1, PacketsInvariant, PTL

-----------------------------------------------------------------------------
(* What is answered.  The beginning of the URL of the request a packet was *)
(* taken for is in that packet and in no other.                            *)

AnswerInv ==
    \A c \in Clients : \A i \in DOMAIN answers[c] :
        /\ \E p \in dealt : p.client = c /\ IsLogin(p) /\ Parser(p) = answers[c][i]
        /\ \A j \in DOMAIN answers[c] : answers[c][i] = answers[c][j] => i = j

(* What a packet is taken for depends on nothing but the packet.           *)
LEMMA ParsedAlike == \A p : IsLogin(p)' = IsLogin(p) /\ Parser(p)' = Parser(p)
BY DEF IsLogin, Parser, OnMessageComplete, FirstRead, OnUrl, UrlIsLogin, MethodIsGet

LEMMA AnswersStay ==
    ASSUME AnswerInv, UNCHANGED answers, dealt \subseteq dealt'
    PROVE  AnswerInv'
BY ParsedAlike DEF AnswerInv

LEMMA AnswerSent ==
    ASSUME TInv, PacketInv, AnswerInv, NEW w \in Workers, Send(w)
    PROVE  AnswerInv'
<1>1. PICK p \in hand[w] :
          /\ worker[w] = "send" /\ dealt' = dealt \cup hand[w]
          /\ answers' = [answers EXCEPT ![p.client] = Append(@, Parser(p))]
  BY DEF Send, WorkerGoes, Done
<1> DEFINE c == p.client
           r == Parser(p)
<1>2. /\ p \in Packet /\ c \in Clients /\ IsLogin(p) /\ r \in 1 .. MaxRequests
      /\ answers \in [Clients -> Seq(1 .. MaxRequests)]
  BY <1>1, LoginParses DEF TInv, TypeOK, LoginInHand, Packet
<1>3. p \in All /\ p \notin dealt
  BY <1>1, <1>2, LoginParses DEF All, Waiting, Settled, PacketInv, OnePlace
<1>4. ASSUME NEW q \in dealt, q.client = c, IsLogin(q) PROVE Parser(q) # r
  <2>1. q \in All /\ q \in Packet /\ q # p
    BY <1>3, <1>4, AllPackets DEF All, Settled, TInv
  <2>2. Before(q, p) \/ Before(p, q)
    BY <1>2, <1>3, <1>4, <2>1, LoginParses DEF PacketInv, InOrder
  <2>3. /\ p.from \in Nat /\ p.to \in Nat /\ q.from \in Nat /\ q.to \in Nat
    BY <1>2, <2>1, Parts DEF Packet
  <2> QED BY <1>2, <1>4, <2>1, <2>2, <2>3, LoginParses DEF Before
<1>5. \A i \in DOMAIN answers[c] : answers[c][i] # r
  BY <1>2, <1>4 DEF AnswerInv
<1>6. /\ answers'[c] = Append(answers[c], r) /\ answers[c] \in Seq(1 .. MaxRequests)
      /\ \A d \in Clients : d # c => answers'[d] = answers[d]
  BY <1>1, <1>2
<1>7. /\ DOMAIN answers[c] = 1 .. Len(answers[c]) /\ Len(answers[c]) \in Nat
      /\ DOMAIN answers'[c] = 1 .. Len(answers[c]) + 1
      /\ \A i \in DOMAIN answers[c] : answers'[c][i] = answers[c][i]
      /\ answers'[c][Len(answers[c]) + 1] = r
  BY <1>2, <1>6, AppendQueue, LenProperties
<1>8. \A i \in DOMAIN answers'[c] : i \in DOMAIN answers[c] \/ i = Len(answers[c]) + 1
  BY <1>7
<1>9. p \in dealt' /\ dealt \subseteq dealt'
  BY <1>1
<1> SUFFICES ASSUME NEW d \in Clients, NEW i \in DOMAIN answers'[d]
             PROVE  /\ \E q \in dealt' : q.client = d /\ IsLogin(q) /\ Parser(q) = answers'[d][i]
                    /\ \A j \in DOMAIN answers'[d] : answers'[d][i] = answers'[d][j] => i = j
  BY ParsedAlike DEF AnswerInv
<1>10. CASE d # c
  BY <1>6, <1>9, <1>10 DEF AnswerInv
<1>11. CASE d = c
  <2>1. \E q \in dealt' : q.client = c /\ IsLogin(q) /\ Parser(q) = answers'[c][i]
    <3>1. CASE i \in DOMAIN answers[c]
      <4>1. PICK q \in dealt : q.client = c /\ IsLogin(q) /\ Parser(q) = answers[c][i]
        BY <1>2, <3>1 DEF AnswerInv
      <4> QED BY <1>7, <1>9, <3>1, <4>1
    <3>2. CASE i = Len(answers[c]) + 1
      BY <1>2, <1>7, <1>9, <3>2
    <3> QED BY <1>8, <1>11, <3>1, <3>2
  <2>2. \A j \in DOMAIN answers'[c] : answers'[c][i] = answers'[c][j] => i = j
    BY <1>5, <1>7, <1>8, <1>11 DEF AnswerInv
  <2> QED BY <1>11, <2>1, <2>2
<1> QED BY <1>10, <1>11

LEMMA AnswersNext == ASSUME TInv, PacketInv, AnswerInv, [Next]_vars PROVE AnswerInv'
<1> USE DEF workVars, poolVars, clientVars, tickVars, timerVars
<1>1. CASE Start \/ Close \/ Tick \/ OnTimer
  BY <1>1, AnswersStay
     DEF Start, StartServer, StartTick, Connect, Run, Close, CloseTick, CloseServer, CloseDb,
         CloseTaskQueue, CloseTaskStop, Tick, OnTimer, TimerFirst, TimerTest, GetClients,
         DropClient, TestClient
<1>2. ASSUME NEW c \in Clients, Arrives(c) \/ Serves(c) PROVE AnswerInv'
  BY <1>2, AnswersStay DEF Arrives, Serves, Register, PacketArrives, EndArrives,
                           ClientConnected, ClientSendDone
<1>3. ASSUME NEW p \in held, ClientRecvData(p) PROVE AnswerInv'
  BY <1>3, AnswersStay DEF ClientRecvData
<1>4. ASSUME NEW w \in Workers, TakeTask(w) \/ DealPacket(w) \/ Exec(w) PROVE AnswerInv'
  <2>1. UNCHANGED answers /\ dealt \subseteq dealt'
    BY <1>4 DEF TakeTask, DealPacket, Exec, Done
  <2> QED BY <2>1, AnswersStay
<1>5. CASE UNCHANGED vars
  BY <1>5, AnswersStay DEF vars
<1> QED BY <1>1, <1>2, <1>3, <1>4, <1>5, AnswerSent DEF Next, Worker

(* A client gets at most one answer to a request, and none before its URL  *)
(* begins to arrive, for any threads, any requests and any cut into        *)
(* packets: no worker of m_task repeats what another one answered.  The    *)
(* answers are to logins whose request lines arrived, except where a       *)
(* packet that ends inside a request line was mistaken for one.            *)
THEOREM AnsweredAtMostOnce == Spec => []AnsweredOnce
<1>1. Init => AnswerInv
  BY DEF Init, AnswerInv
<1>2. Spec => [](TInv /\ PacketInv /\ AnswerInv)
  BY <1>1, TypeInit, TypeNext, PacketsInit, PacketsNext, AnswersNext, PTL DEF Spec
<1>3. ASSUME TInv, PacketInv, AnswerInv PROVE AnsweredOnce
  <2> SUFFICES ASSUME NEW c \in Clients, NEW i \in DOMAIN answers[c], NEW r,
                      r = answers[c][i]
               PROVE  /\ 4 * r - 2 \leq arrived[c]
                      /\ (<< c, r >> \in Logins /\ 4 * r - 1 \leq arrived[c]) \/ CutInLine(c, r)
                      /\ \A j \in DOMAIN answers[c] : answers[c][j] = r => i = j
    BY DEF AnsweredOnce
  <2>1. PICK p \in dealt : p.client = c /\ IsLogin(p) /\ Parser(p) = r
    BY <1>3 DEF AnswerInv
  <2>2. p \in All /\ p \in Packet /\ arrived[c] \in Nat /\ p.to \in Nat
    BY <1>3, AllPackets, Parts DEF All, Settled, TInv, TypeOK, Packet
  <2>3. p.to \leq arrived[c]
    BY <1>3, <2>1, <2>2 DEF PacketInv, InOrder
  <2>4. /\ r \in Nat /\ r = (p.to + 2) \div 4 /\ 4 * r - 2 \leq p.to
    BY <2>1, <2>2, LoginParses DEF OnUrl
  <2>5. CASE p.to % 4 \in {1, 2}
    <3>1. CutInLine(c, r)
      BY <2>1, <2>5 DEF CutInLine
    <3>2. \A j \in DOMAIN answers[c] : answers[c][j] = r => i = j
      BY <1>3 DEF AnswerInv
    <3> QED BY <2>2, <2>3, <2>4, <3>1, <3>2
  <2>6. CASE p.to % 4 \notin {1, 2}
    <3>1. p.to = 4 * r - 1 \/ p.to = 4 * r
      BY <2>2, <2>4, <2>6
    <3>2. (p.to + 3) \div 4 = r /\ 4 * r - 1 \leq p.to
      BY <2>2, <2>4, <3>1
    <3>3. << c, r >> \in Logins
      BY <2>1, <2>4, <3>2 DEF IsLogin, MethodIsGet, UrlIsLogin, OnUrl, Logins
    <3>4. \A j \in DOMAIN answers[c] : answers[c][j] = r => i = j
      BY <1>3 DEF AnswerInv
    <3> QED BY <2>2, <2>3, <2>4, <3>2, <3>3, <3>4
  <2> QED BY <2>5, <2>6
<1> QED BY <1>2, <1>3, PTL

-----------------------------------------------------------------------------
(* How late packets can be.  Two ways to be overtaken: by a packet that    *)
(* another thread of m_server puts into m_task first, and by one that      *)
(* another worker is through with first.  So what a packet overtakes is    *)
(* followed from place to place: what is earlier and still behind it in    *)
(* m_task were packets in the hands of m_server's other threads when it    *)
(* was put there; and only other workers have earlier ones in hand.  None  *)
(* comes to be earlier later on, as what arrives is what follows.          *)

AtMost(A, n) == IsFiniteSet(A) /\ Cardinality(A) \leq n

EarlierIn(p, A) == {q \in A : q.client = p.client /\ q.from < p.from}

(* The packets of a queue that are behind its i-th.                        *)
BehindIn(q, i) == {q[j] : j \in {k \in DOMAIN q : k > i}}

FewInServer == AtMost(held, Servers)

QueuedLate ==
    \A i \in DOMAIN tasks : HasParts(tasks[i]) =>
        AtMost(EarlierIn(tasks[i], held \cup BehindIn(tasks, i)), Servers - 1)

TakenLate ==
    \A w \in Workers : \A p \in hand[w] : HasParts(p) =>
        AtMost(EarlierIn(p, held \cup Packets(tasks)), Servers - 1)

DealtLate ==
    \A p \in dealt : HasParts(p) =>
        AtMost(EarlierIn(p, Waiting), (Servers - 1) + (Cardinality(Workers) - 1))

LateInv == FewInServer /\ QueuedLate /\ TakenLate /\ DealtLate

LEMMA FewerAtMost ==
    ASSUME NEW A, NEW n \in Int, AtMost(A, n), NEW B \in SUBSET A
    PROVE  AtMost(B, n)
<1>1. IsFiniteSet(B) /\ Cardinality(B) \leq Cardinality(A)
  BY FS_Subset DEF AtMost
<1>2. Cardinality(A) \in Nat /\ Cardinality(B) \in Nat
  BY <1>1, FS_CardinalityType DEF AtMost
<1> QED BY <1>1, <1>2 DEF AtMost

LEMMA OneFewer ==
    ASSUME NEW A, NEW n \in Int, AtMost(A, n), NEW x \in A
    PROVE  AtMost(A \ {x}, n - 1)
<1>1. IsFiniteSet(A \ {x}) /\ Cardinality(A \ {x}) = Cardinality(A) - 1
  BY FS_RemoveElement DEF AtMost
<1> QED BY <1>1, FS_CardinalityType DEF AtMost

LEMMA OneMore ==
    ASSUME NEW A, NEW n \in Int, IsFiniteSet(A), Cardinality(A) < n, NEW x
    PROVE  AtMost(A \cup {x}, n)
<1>1. IsFiniteSet(A \cup {x}) /\ Cardinality(A \cup {x}) \in {Cardinality(A), Cardinality(A) + 1}
  BY FS_AddElement
<1> QED BY <1>1, FS_CardinalityType DEF AtMost

LEMMA BothAtMost ==
    ASSUME NEW A, NEW B, NEW m \in Int, NEW n \in Int, AtMost(A, m), AtMost(B, n)
    PROVE  AtMost(A \cup B, m + n)
<1>1. /\ IsFiniteSet(A \cup B) /\ IsFiniteSet(A \cap B)
      /\ Cardinality(A \cup B) = Cardinality(A) + Cardinality(B) - Cardinality(A \cap B)
  BY FS_Union, FS_Intersection DEF AtMost
<1>2. Cardinality(A) \in Nat /\ Cardinality(B) \in Nat /\ Cardinality(A \cap B) \in Nat
  BY <1>1, FS_CardinalityType DEF AtMost
<1> QED BY <1>1, <1>2 DEF AtMost

LEMMA Bounds ==
    /\ Servers \in Nat \ {0} /\ Cardinality(Workers) \in Nat /\ IsFiniteSet(Workers)
    /\ Servers - 1 \in Int /\ Cardinality(Workers) - 1 \in Int
    /\ (Servers - 1) + (Cardinality(Workers) - 1) \in Int
BY EdoyunAssumption, FS_CardinalityType

LEMMA FewerEarlier ==
    ASSUME NEW p, NEW A, NEW B \in SUBSET A, NEW n \in Int, AtMost(EarlierIn(p, A), n)
    PROVE  AtMost(EarlierIn(p, B), n)
<1>1. EarlierIn(p, B) \in SUBSET EarlierIn(p, A)
  BY DEF EarlierIn
<1> QED BY <1>1, FewerAtMost

(* What is behind a packet in a queue after a post, and after a packet is  *)
(* taken.                                                                  *)
LEMMA BehindAppended ==
    ASSUME NEW S, NEW q \in Seq(S), NEW e \in S
    PROVE  /\ BehindIn(Append(q, e), Len(q) + 1) = {}
           /\ \A i \in DOMAIN q : BehindIn(Append(q, e), i) = BehindIn(q, i) \cup {e}
<1>1. /\ DOMAIN q = 1 .. Len(q) /\ DOMAIN Append(q, e) = 1 .. Len(q) + 1 /\ Len(q) \in Nat
      /\ \A i \in DOMAIN q : Append(q, e)[i] = q[i]
      /\ Append(q, e)[Len(q) + 1] = e
  BY AppendQueue, LenProperties
<1>2. BehindIn(Append(q, e), Len(q) + 1) = {}
  BY <1>1 DEF BehindIn
<1>3. ASSUME NEW i \in DOMAIN q PROVE BehindIn(Append(q, e), i) = BehindIn(q, i) \cup {e}
  <2>1. /\ \A k \in DOMAIN q : k \in DOMAIN Append(q, e)
        /\ Len(q) + 1 \in DOMAIN Append(q, e) /\ Len(q) + 1 > i
        /\ \A k \in DOMAIN Append(q, e) : k \in DOMAIN q \/ k = Len(q) + 1
    BY <1>1, <1>3
  <2> QED BY <1>1, <2>1 DEF BehindIn
<1> QED BY <1>2, <1>3

LEMMA BehindTaken ==
    ASSUME NEW S, NEW q \in Seq(S), q # << >>
    PROVE  /\ 1 \in DOMAIN q /\ q[1] = Head(q) /\ BehindIn(q, 1) = Packets(Tail(q))
           /\ \A i \in DOMAIN Tail(q) : /\ i + 1 \in DOMAIN q /\ q[i + 1] = Tail(q)[i]
                                        /\ BehindIn(Tail(q), i) = BehindIn(q, i + 1)
<1>1. /\ DOMAIN q = 1 .. Len(q) /\ DOMAIN Tail(q) = 1 .. Len(q) - 1
      /\ Len(q) \in Nat \ {0} /\ Head(q) = q[1]
  BY TailQueue, LenProperties
<1>2. \A i \in DOMAIN Tail(q) : i + 1 \in DOMAIN q /\ i + 1 > 1 /\ q[i + 1] = Tail(q)[i]
  BY <1>1, TailQueue
<1>3. \A k \in DOMAIN q : k > 1 => k - 1 \in DOMAIN Tail(q) /\ (k - 1) + 1 = k
  BY <1>1
<1>4. 1 \in DOMAIN q
  BY <1>1
<1>5. BehindIn(q, 1) = Packets(Tail(q))
  <2>1. \A k \in DOMAIN q : k > 1 => k - 1 \in DOMAIN Tail(q) /\ q[k] = Tail(q)[k - 1]
    BY <1>2, <1>3
  <2> QED BY <1>2, <2>1 DEF BehindIn, Packets
<1>6. ASSUME NEW i \in DOMAIN Tail(q) PROVE BehindIn(Tail(q), i) = BehindIn(q, i + 1)
  <2>1. \A k \in DOMAIN Tail(q) : k > i => k + 1 \in DOMAIN q /\ k + 1 > i + 1 /\ q[k + 1] = Tail(q)[k]
    BY <1>1, <1>2, <1>6
  <2>2. \A k \in DOMAIN q : k > i + 1 => /\ k - 1 \in DOMAIN Tail(q) /\ k - 1 > i
                                        /\ q[k] = Tail(q)[k - 1]
    BY <1>1, <1>2, <1>3, <1>6
  <2> QED BY <2>1, <2>2 DEF BehindIn
<1> QED BY <1>1, <1>2, <1>4, <1>5, <1>6

LEMMA BehindPackets == ASSUME NEW q, NEW i PROVE BehindIn(q, i) \subseteq Packets(q)
BY DEF BehindIn, Packets

(* A step that moves none from place to place, but may lose some.          *)
LEMMA LateStays ==
    ASSUME LateInv, held' \subseteq held, tasks' \in {tasks, << >>}, UNCHANGED << hand, dealt >>
    PROVE  LateInv'
<1>1. /\ held' \in SUBSET held
      /\ Packets(tasks') \subseteq Packets(tasks) /\ Packets(tasks)' = Packets(tasks')
  BY DEF Packets
<1>2. FewInServer'
  BY <1>1, FewerAtMost, Bounds DEF LateInv, FewInServer
<1>3. QueuedLate'
  <2>1. CASE tasks' = << >>
    BY <2>1 DEF QueuedLate
  <2>2. CASE tasks' = tasks
    <3> SUFFICES ASSUME NEW i \in DOMAIN tasks, HasParts(tasks[i])
                 PROVE  AtMost(EarlierIn(tasks[i], held' \cup BehindIn(tasks, i)), Servers - 1)
      BY <2>2 DEF QueuedLate, HasParts, EarlierIn, AtMost, BehindIn
    <3> QED BY <1>1, FewerEarlier, Bounds DEF LateInv, QueuedLate
  <2> QED BY <2>1, <2>2
<1>4. TakenLate'
  <2> SUFFICES ASSUME NEW w \in Workers, NEW p \in hand[w], HasParts(p)
               PROVE  AtMost(EarlierIn(p, held' \cup Packets(tasks')), Servers - 1)
    BY <1>1 DEF TakenLate, HasParts, EarlierIn, AtMost
  <2>1. held' \cup Packets(tasks') \in SUBSET (held \cup Packets(tasks))
    BY <1>1
  <2> QED BY <2>1, FewerEarlier, Bounds DEF LateInv, TakenLate
<1>5. DealtLate'
  <2> SUFFICES ASSUME NEW p \in dealt, HasParts(p)
               PROVE  AtMost(EarlierIn(p, Waiting'), (Servers - 1) + (Cardinality(Workers) - 1))
    BY DEF DealtLate, HasParts, EarlierIn, AtMost
  <2>1. Waiting' \in SUBSET Waiting
    BY <1>1 DEF Waiting
  <2> QED BY <2>1, FewerEarlier, Bounds DEF LateInv, DealtLate
<1> QED BY <1>2, <1>3, <1>4, <1>5 DEF LateInv

(* What arrives is not earlier than anything that has.                     *)
LEMMA LateComes ==
    ASSUME TInv, PacketInv, LateInv, NEW c \in Clients,
           NEW n, n.client = c, n.from = arrived[c] + 1,
           Cardinality(held) < Servers, held' = held \cup {n},
           UNCHANGED << tasks, hand, dealt >>
    PROVE  LateInv'
<1>1. /\ Packets(tasks)' = Packets(tasks) /\ Waiting' = Waiting \cup {n}
      /\ \A i : BehindIn(tasks, i)' = BehindIn(tasks, i)
  BY DEF Packets, Waiting, BehindIn
<1>2. ASSUME NEW p \in All, HasParts(p), NEW A PROVE EarlierIn(p, A \cup {n}) = EarlierIn(p, A)
  <2>1. p.from \in Nat /\ p.to \in Nat /\ p.to \leq arrived[p.client] /\ p.client \in Clients
    BY AllPackets, Parts DEF TInv, PacketInv, InOrder, Packet
  <2>2. arrived \in [Clients -> Nat]
    BY Parts DEF TInv, TypeOK
  <2>3. ~(n.client = p.client /\ n.from < p.from)
    BY <1>2, <2>1, <2>2 DEF HasParts
  <2> QED BY <2>3 DEF EarlierIn
<1>3. FewInServer'
  BY OneMore, Bounds DEF LateInv, FewInServer, AtMost
<1>4. QueuedLate'
  <2> SUFFICES ASSUME NEW i \in DOMAIN tasks, HasParts(tasks[i])
               PROVE  AtMost(EarlierIn(tasks[i], held' \cup BehindIn(tasks, i)), Servers - 1)
    BY <1>1 DEF QueuedLate, HasParts, EarlierIn, AtMost
  <2>1. tasks[i] \in All
    BY DEF All, Waiting, Packets
  <2>2. held' \cup BehindIn(tasks, i) = (held \cup BehindIn(tasks, i)) \cup {n}
    OBVIOUS
  <2> QED BY <1>2, <2>1, <2>2 DEF LateInv, QueuedLate
<1>5. TakenLate'
  <2> SUFFICES ASSUME NEW w \in Workers, NEW p \in hand[w], HasParts(p)
               PROVE  AtMost(EarlierIn(p, held' \cup Packets(tasks)), Servers - 1)
    BY <1>1 DEF TakenLate, HasParts, EarlierIn, AtMost
  <2>1. p \in All
    BY DEF All, Waiting
  <2>2. held' \cup Packets(tasks) = (held \cup Packets(tasks)) \cup {n}
    OBVIOUS
  <2> QED BY <1>2, <2>1, <2>2 DEF LateInv, TakenLate
<1>6. DealtLate'
  <2> SUFFICES ASSUME NEW p \in dealt, HasParts(p)
               PROVE  AtMost(EarlierIn(p, Waiting'), (Servers - 1) + (Cardinality(Workers) - 1))
    BY DEF DealtLate, HasParts, EarlierIn, AtMost
  <2>1. p \in All
    BY DEF All, Settled
  <2> QED BY <1>1, <1>2, <2>1 DEF LateInv, DealtLate
<1> QED BY <1>3, <1>4, <1>5, <1>6 DEF LateInv

(* A packet that m_server passes on leaves behind what the other threads   *)
(* have in hand; one it refuses leaves.                                    *)
LEMMA LatePassed ==
    ASSUME TInv, PacketInv, LateInv, NEW p \in held, ClientRecvData(p)
    PROVE  LateInv'
<1>1. /\ p \in Packet /\ tasks \in Seq(Packet) /\ held' = held \ {p}
      /\ UNCHANGED << hand, dealt >>
  BY AllPackets DEF TInv, TypeOK, ClientRecvData, workVars
<1>2. CASE pool # "running"
  BY <1>1, <1>2, LateStays DEF ClientRecvData
<1>3. CASE pool = "running"
  <2>1. tasks' = Append(tasks, p)
    BY <1>3 DEF ClientRecvData
  <2>2. /\ DOMAIN tasks' = DOMAIN tasks \cup {Len(tasks) + 1}
        /\ \A i \in DOMAIN tasks : tasks'[i] = tasks[i]
        /\ tasks'[Len(tasks) + 1] = p
    <3>1. DOMAIN tasks = 1 .. Len(tasks) /\ DOMAIN tasks' = 1 .. Len(tasks) + 1 /\ Len(tasks) \in Nat
      BY <1>1, <2>1, AppendQueue, LenProperties
    <3> QED BY <1>1, <2>1, <3>1, AppendQueue
  <2>3. /\ Packets(tasks') = Packets(tasks) \cup {p}
        /\ BehindIn(tasks', Len(tasks) + 1) = {}
        /\ \A i \in DOMAIN tasks : BehindIn(tasks', i) = BehindIn(tasks, i) \cup {p}
    BY <1>1, <2>1, AppendPackets, BehindAppended
  <2>4. Packets(tasks)' = Packets(tasks') /\ Waiting' = Waiting
    <3>1. Packets(tasks)' = Packets(tasks')
      BY DEF Packets
    <3> QED BY <1>1, <2>3, <3>1 DEF Waiting
  <2>5. AtMost(held', Servers - 1)
    BY <1>1, OneFewer, Bounds DEF LateInv, FewInServer
  <2>6. FewInServer'
    BY <1>1, FewerAtMost, Bounds DEF LateInv, FewInServer
  <2>7. QueuedLate'
    <3> SUFFICES ASSUME NEW i \in DOMAIN tasks', HasParts(tasks'[i])
                 PROVE  AtMost(EarlierIn(tasks'[i], held' \cup BehindIn(tasks', i)), Servers - 1)
      BY DEF QueuedLate, HasParts, EarlierIn, AtMost, BehindIn
    <3>1. CASE i = Len(tasks) + 1
      <4>1. EarlierIn(tasks'[i], held' \cup BehindIn(tasks', i)) \in SUBSET held'
        BY <2>3, <3>1 DEF EarlierIn
      <4> QED BY <2>5, <4>1, FewerAtMost, Bounds
    <3>2. CASE i \in DOMAIN tasks
      <4>1. held' \cup BehindIn(tasks', i) = held \cup BehindIn(tasks, i)
        BY <1>1, <2>3, <3>2
      <4> QED BY <2>2, <3>2, <4>1 DEF LateInv, QueuedLate
    <3> QED BY <2>2, <3>1, <3>2
  <2>8. TakenLate'
    <3>1. held' \cup Packets(tasks)' = held \cup Packets(tasks)
      BY <1>1, <2>3, <2>4
    <3> QED BY <1>1, <3>1 DEF LateInv, TakenLate, HasParts, EarlierIn, AtMost
  <2>9. DealtLate'
    BY <1>1, <2>4 DEF LateInv, DealtLate, HasParts, EarlierIn, AtMost
  <2> QED BY <2>6, <2>7, <2>8, <2>9 DEF LateInv
<1> QED BY <1>2, <1>3

(* The first of the queue leaves all others behind it.                     *)
LEMMA LateTaken ==
    ASSUME TInv, PacketInv, LateInv, NEW w \in Workers, TakeTask(w)
    PROVE  LateInv'
<1> DEFINE p == Head(tasks)
<1>1. /\ tasks \in Seq(Packet) /\ tasks # << >> /\ tasks' = Tail(tasks)
      /\ hand \in [Workers -> SUBSET Packet] /\ hand[w] = {}
      /\ hand' = [hand EXCEPT ![w] = {p}]
      /\ UNCHANGED << held, dealt >>
  BY DEF TInv, TypeOK, OneInHand, TakeTask, WorkerGoes, clientVars
<1>2. /\ Packets(tasks) = Packets(tasks') \cup {p}
      /\ 1 \in DOMAIN tasks /\ tasks[1] = p /\ BehindIn(tasks, 1) = Packets(tasks')
      /\ \A i \in DOMAIN tasks' : /\ i + 1 \in DOMAIN tasks /\ tasks[i + 1] = tasks'[i]
                                  /\ BehindIn(tasks', i) = BehindIn(tasks, i + 1)
  BY <1>1, TailPackets, BehindTaken
<1>3. Packets(tasks)' = Packets(tasks')
  BY DEF Packets
<1>4. hand'[w] = {p} /\ \A v \in Workers : v # w => hand'[v] = hand[v]
  BY <1>1
<1> HIDE DEF p
<1>5. FewInServer'
  BY <1>1 DEF LateInv, FewInServer, AtMost
<1>6. QueuedLate'
  <2> SUFFICES ASSUME NEW i \in DOMAIN tasks', HasParts(tasks'[i])
               PROVE  AtMost(EarlierIn(tasks'[i], held \cup BehindIn(tasks', i)), Servers - 1)
    BY <1>1 DEF QueuedLate, HasParts, EarlierIn, AtMost, BehindIn
  <2> QED BY <1>2 DEF LateInv, QueuedLate
<1>7. TakenLate'
  <2> SUFFICES ASSUME NEW v \in Workers, NEW q \in hand'[v], HasParts(q)
               PROVE  AtMost(EarlierIn(q, held \cup Packets(tasks')), Servers - 1)
    BY <1>1, <1>3 DEF TakenLate, HasParts, EarlierIn, AtMost
  <2>1. CASE v = w
    BY <1>2, <1>4, <2>1 DEF LateInv, QueuedLate
  <2>2. CASE v # w
    <3>1. held \cup Packets(tasks') \in SUBSET (held \cup Packets(tasks))
      BY <1>2
    <3> QED BY <1>4, <2>2, <3>1, FewerEarlier, Bounds DEF LateInv, TakenLate
  <2> QED BY <2>1, <2>2
<1>8. DealtLate'
  <2>1. Waiting' = Waiting
    <3>1. ASSUME NEW q PROVE (\E v \in Workers : q \in hand'[v])
                                <=> (\E v \in Workers : q \in hand[v]) \/ q = p
      BY <1>1, <1>4
    <3>2. ASSUME NEW q PROVE q \in Waiting' <=> q \in Waiting
      BY <1>1, <1>2, <1>3, <3>1 DEF Waiting
    <3> QED BY <3>2, Zenon DEF Waiting
  <2> QED BY <1>1, <2>1 DEF LateInv, DealtLate, HasParts, EarlierIn, AtMost
<1> QED BY <1>5, <1>6, <1>7, <1>8 DEF LateInv

(* What the workers other than one have in hand.                           *)
LEMMA OthersHands ==
    ASSUME TInv, NEW w \in Workers
    PROVE  AtMost(UNION {hand[v] : v \in Workers \ {w}}, Cardinality(Workers) - 1)
<1> DEFINE V == Workers \ {w}
           M == UNION {hand[v] : v \in V}
           h == [v \in V |-> CHOOSE q : q \in hand[v]]
<1>1. IsFiniteSet(V) /\ Cardinality(V) = Cardinality(Workers) - 1
  BY Bounds, FS_RemoveElement
<1>2. \A x \in M : \E v \in V : h[v] = x
  BY DEF TInv, OneInHand
<1>3. IsFiniteSet(M) /\ Cardinality(M) \leq Cardinality(V)
  <2> HIDE DEF V, M, h
  <2> QED BY <1>1, <1>2, HeldByFew
<1> QED BY <1>1, <1>3 DEF AtMost

(* A worker that is through with a packet leaves behind what was, and what *)
(* the other workers have in hand.                                         *)
LEMMA LateDone ==
    ASSUME TInv, PacketInv, LateInv, NEW w \in Workers, Done(w), UNCHANGED << tasks, held >>
    PROVE  LateInv'
<1> DEFINE Others == UNION {hand[v] : v \in Workers \ {w}}
<1>1. /\ hand' = [hand EXCEPT ![w] = {}] /\ dealt' = dealt \cup hand[w]
      /\ hand'[w] = {} /\ \A v \in Workers : v # w => hand'[v] = hand[v]
  BY DEF TInv, TypeOK, Done
<1>2. Packets(tasks)' = Packets(tasks)
  BY DEF Packets
<1>3. Waiting' = (held \cup Packets(tasks)) \cup Others /\ Waiting' \in SUBSET Waiting
  <2>1. UNION {hand'[v] : v \in Workers} = Others
    BY <1>1
  <2> QED BY <1>2, <2>1 DEF Waiting
<1>4. AtMost(Others, Cardinality(Workers) - 1)
  BY OthersHands
<1> HIDE DEF Others
<1>5. FewInServer'
  BY DEF LateInv, FewInServer, AtMost
<1>6. QueuedLate'
  BY DEF LateInv, QueuedLate, HasParts, EarlierIn, AtMost, BehindIn
<1>7. TakenLate'
  BY <1>1, <1>2 DEF LateInv, TakenLate, HasParts, EarlierIn, AtMost
<1>8. DealtLate'
  <2> SUFFICES ASSUME NEW p \in dealt \cup hand[w], HasParts(p)
               PROVE  AtMost(EarlierIn(p, Waiting'), (Servers - 1) + (Cardinality(Workers) - 1))
    BY <1>1 DEF DealtLate, HasParts, EarlierIn, AtMost
  <2>1. CASE p \in dealt
    BY <1>3, <2>1, FewerEarlier, Bounds DEF LateInv, DealtLate
  <2>2. CASE p \in hand[w]
    <3>1. AtMost(EarlierIn(p, held \cup Packets(tasks)), Servers - 1)
      BY <2>2 DEF LateInv, TakenLate
    <3>2. EarlierIn(p, Waiting') \in SUBSET (EarlierIn(p, held \cup Packets(tasks)) \cup Others)
      BY <1>3 DEF EarlierIn
    <3> DEFINE n == (Servers - 1) + (Cardinality(Workers) - 1)
               Both == EarlierIn(p, held \cup Packets(tasks)) \cup Others
    <3>3. n \in Int /\ AtMost(Both, n)
      BY <1>4, <3>1, BothAtMost, Bounds
    <3>4. EarlierIn(p, Waiting') \in SUBSET Both
      BY <3>2
    <3> HIDE DEF n, Both
    <3>5. AtMost(EarlierIn(p, Waiting'), n)
      BY <3>3, <3>4, FewerAtMost
    <3> QED BY <3>5 DEF n
  <2> QED BY <2>1, <2>2
<1> QED BY <1>5, <1>6, <1>7, <1>8 DEF LateInv

LEMMA LateNext == ASSUME TInv, PacketInv, LateInv, [Next]_vars PROVE LateInv'
<1> USE DEF workVars, poolVars, clientVars, tickVars, timerVars
<1>1. CASE Start \/ Close \/ Tick \/ OnTimer
  BY <1>1, LateStays
     DEF Start, StartServer, StartTick, Connect, Run, Close, CloseTick, CloseServer, CloseDb,
         CloseTaskQueue, CloseTaskStop, OwnerGoes, Tick, OnTimer, TimerFirst, TimerTest,
         GetClients, DropClient, TestClient
<1>2. ASSUME NEW c \in Clients, Arrives(c) \/ Serves(c) PROVE LateInv'
  <2>1. CASE Register(c) \/ Serves(c)
    BY <2>1, LateStays DEF Register, Serves, ClientConnected, ClientSendDone
  <2>2. CASE PacketArrives(c)
    BY <2>2, LateComes DEF PacketArrives
  <2>3. CASE EndArrives(c)
    <3>1. EmptyPacket(c).client = c /\ EmptyPacket(c).from = arrived[c] + 1
      BY DEF EmptyPacket
    <3> QED BY <2>3, <3>1, LateComes DEF EndArrives
  <2> QED BY <1>2, <2>1, <2>2, <2>3 DEF Arrives
<1>3. ASSUME NEW w \in Workers, Worker(w) PROVE LateInv'
  <2>1. CASE DealPacket(w) \/ Exec(w) \/ Send(w)
    <3>1. UNCHANGED << tasks, held >> /\ (Done(w) \/ UNCHANGED << hand, dealt >>)
      BY <2>1 DEF DealPacket, Exec, Send, WorkerGoes
    <3> QED BY <3>1, LateDone, LateStays
  <2> QED BY <1>3, <2>1, LateTaken DEF Worker
<1>4. CASE UNCHANGED vars
  BY <1>4, LateStays DEF vars
<1> QED BY <1>1, <1>2, <1>3, <1>4, LatePassed DEF Next

LEMMA LateInit == Init => LateInv
<1> SUFFICES ASSUME Init PROVE LateInv
  OBVIOUS
<1>1. FewInServer
  BY Bounds, FS_EmptySet DEF Init, FewInServer, AtMost
<1> QED BY <1>1 DEF Init, LateInv, QueuedLate, TakenLate, DealtLate

(* A client's packets are overtaken on their way through DealPacket by no  *)
(* more packets than there are other threads in m_server and in m_task, for *)
(* any number of them, any cut into packets and any Close.                 *)
THEOREM DealtLateByFew == Spec => []LateBounded
<1>1. Spec => [](TInv /\ PacketInv /\ LateInv)
  BY TypeInit, TypeNext, PacketsInit, PacketsNext, LateInit, LateNext, PTL DEF Spec
<1>2. ASSUME LateInv PROVE LateBounded
  <2>1. held \cup Queued \cup InHand = Waiting
    BY DEF Queued, InHand, Waiting, Packets
  <2> QED BY <1>2, <2>1 DEF LateInv, DealtLate, LateBounded, EarlierIn, AtMost
<1> QED BY <1>1, <1>2, PTL

-----------------------------------------------------------------------------
(* The URL that DealPacket takes apart: modules RequestUrl and TParseUrl.  *)

(* Where FindStr finds a word, and a character.                            *)
LEMMA MinIs ==
    ASSUME NEW T, T \subseteq Nat, T # {}
    PROVE  Url!Min(T) \in T /\ \A y \in T : Url!Min(T) <= y
<1> DEFINE P(x) == \A y \in T : x <= y
<1>1. \E x \in T : P(x)
  BY LeastOf
<1>2. Url!Min(T) = CHOOSE x \in T : P(x)
  BY DEF Url!Min
<1> HIDE DEF P
<1>3. Url!Min(T) \in T /\ P(Url!Min(T))
  BY <1>1, <1>2
<1> QED BY <1>3 DEF P

LEMMA FindIs ==
    ASSUME NEW S, NEW u \in Seq(S), NEW w, Len(w) \in Nat
    PROVE  \/ Url!Occurrences(u, w) = {} /\ Url!FindStr(u, w) = -1
           \/ /\ Url!FindStr(u, w) \in Url!Occurrences(u, w)
              /\ Url!FindStr(u, w) \in Nat
              /\ \A k \in Url!Occurrences(u, w) : Url!FindStr(u, w) <= k
<1>1. Url!Occurrences(u, w) \subseteq Nat
  BY LenProperties DEF Url!Occurrences
<1> QED BY <1>1, MinIs DEF Url!FindStr

(* A character that ends the text is not found, so it is assumed not to.   *)
LEMMA FindChar ==
    ASSUME NEW S, NEW u \in Seq(S), NEW c, u = << >> \/ u[Len(u)] # c
    PROVE  \/ Url!At(u, c) = {} /\ Url!FindStr(u, << c >>) = -1
           \/ /\ Url!FindStr(u, << c >>) \in 0 .. Len(u) - 2
              /\ Url!FindStr(u, << c >>) + 1 \in Url!At(u, c)
              /\ \A k \in Url!At(u, c) : Url!FindStr(u, << c >>) + 1 <= k
<1>1. Len(u) \in Nat /\ DOMAIN u = 1 .. Len(u) /\ Len(<< c >>) = 1
  BY LenProperties
<1>2. ASSUME NEW k \in 0 .. Len(u) - 2
      PROVE  Url!Chunk(u, k, k + 1) = << c >> <=> u[k + 1] = c
  <2>1. /\ SubSeq(u, k + 1, k + 1) \in Seq(S) /\ Len(SubSeq(u, k + 1, k + 1)) = 1
        /\ SubSeq(u, k + 1, k + 1)[1] = u[k + 1]
    BY <1>1, Part
  <2>2. << u[k + 1] >> \in Seq(S) /\ Len(<< u[k + 1] >>) = 1 /\ << u[k + 1] >>[1] = u[k + 1]
    BY <1>1, ElementOfSeq
  <2>3. \A i \in 1 .. 1 : SubSeq(u, k + 1, k + 1)[i] = << u[k + 1] >>[i]
    BY <2>1, <2>2
  <2>4. SubSeq(u, k + 1, k + 1) = << u[k + 1] >>
    BY <2>1, <2>2, <2>3, SeqEqual
  <2> QED BY <2>4 DEF Url!Chunk
<1>3. Url!Occurrences(u, << c >>) = {k \in 0 .. Len(u) - 2 : u[k + 1] = c}
  BY <1>1, <1>2 DEF Url!Occurrences
<1>4. \A k \in Url!At(u, c) : k - 1 \in Url!Occurrences(u, << c >>)
  <2> SUFFICES ASSUME NEW k \in Url!At(u, c) PROVE k - 1 \in Url!Occurrences(u, << c >>)
    OBVIOUS
  <2>1. k \in 1 .. Len(u) /\ u[k] = c
    BY <1>1 DEF Url!At
  <2>2. u # << >> /\ k # Len(u)
    <3>1. CASE u = << >>
      <4>1. Len(u) = 0
        BY <3>1
      <4> QED BY <2>1, <4>1
    <3> QED BY <2>1, <3>1
  <2>3. \A n \in Nat : k \in 1 .. n /\ k # n => k - 1 \in 0 .. n - 2 /\ (k - 1) + 1 = k
    OBVIOUS
  <2> QED BY <1>1, <1>3, <2>1, <2>2, <2>3
<1>5. \A k \in Url!Occurrences(u, << c >>) : k + 1 \in Url!At(u, c) /\ k \in 0 .. Len(u) - 2
  BY <1>1, <1>3 DEF Url!At
<1>6. \A k \in Url!At(u, c) : k \in Nat
  BY <1>1 DEF Url!At
<1>7. CASE Url!Occurrences(u, << c >>) = {} /\ Url!FindStr(u, << c >>) = -1
  BY <1>4, <1>7
<1>8. CASE /\ Url!FindStr(u, << c >>) \in Url!Occurrences(u, << c >>)
           /\ \A k \in Url!Occurrences(u, << c >>) : Url!FindStr(u, << c >>) <= k
  <2>1. \A k \in Url!At(u, c) : Url!FindStr(u, << c >>) <= k - 1
    BY <1>4, <1>8
  <2> QED BY <1>5, <1>6, <1>8, <2>1
<1> QED BY <1>1, <1>7, <1>8, FindIs

-----------------------------------------------------------------------------
(* Where the colon of "://" and the third slash of a regular URL are.      *)
Shape(u, i, s) ==
    /\ u \in Seq(Chars) /\ i \in 2 .. Len(u) - 4 /\ s \in DOMAIN u
    /\ u[i] = ":" /\ \A j \in Url!At(u, ":") : i <= j
    /\ Url!At(u, "/") = {i + 1, i + 2, s} /\ i + 2 < s
    /\ \A m \in Url!At(u, "?") : s < m
    /\ \A m, n \in Url!At(u, "?") : m = n
    /\ u[Len(u)] \notin {"/", "?", "&", ":"}

LEMMA HasShape == ASSUME NEW u, Url!Regular(u) PROVE \E i, s : Shape(u, i, s)
BY DEF Url!Regular, Shape

LEMMA ShapeIs ==
    ASSUME NEW u, NEW i, NEW s, Shape(u, i, s)
    PROVE  /\ Len(u) \in Nat /\ DOMAIN u = 1 .. Len(u) /\ i \in Nat /\ 2 <= i /\ i <= Len(u) - 4
           /\ s \in Nat /\ i + 3 <= s /\ s < Len(u)
           /\ u[i + 1] = "/" /\ u[i + 2] = "/" /\ u[s] = "/"
           /\ \A k \in i + 3 .. Len(u) : u[k] = "/" => k = s
           /\ Url!Begin(u) = i + 3 /\ Url!Slash(u) = s
<1>1. Len(u) \in Nat /\ DOMAIN u = 1 .. Len(u)
  BY LenProperties DEF Shape
<1>2. /\ i \in Nat /\ 2 <= i /\ i <= Len(u) - 4 /\ s \in 1 .. Len(u) /\ i + 3 <= s
  BY <1>1 DEF Shape
<1>3. \A k \in 1 .. Len(u) : u[k] = "/" <=> k \in {i + 1, i + 2, s}
  BY <1>1 DEF Shape, Url!At
<1>4. u[i + 1] = "/" /\ u[i + 2] = "/" /\ u[s] = "/"
  BY <1>1, <1>2, <1>3
<1>5. s \in Nat /\ s < Len(u)
  <2>1. s # Len(u)
    BY <1>4 DEF Shape
  <2>2. \A n \in Nat : s \in 1 .. n /\ s # n => s \in Nat /\ s < n
    OBVIOUS
  <2> QED BY <1>1, <1>2, <2>1, <2>2
<1>6. \A k \in i + 3 .. Len(u) : u[k] = "/" => k = s
  BY <1>1, <1>2, <1>3
<1>7. Url!Begin(u) = i + 3
  <2>1. /\ Url!At(u, "/") = {i + 1, i + 2, s}
        /\ Url!At(u, "/") \subseteq Nat /\ i + 1 \in Url!At(u, "/")
    BY <1>2 DEF Shape
  <2>2. Url!Min(Url!At(u, "/")) \in Url!At(u, "/") /\ Url!Min(Url!At(u, "/")) <= i + 1
    BY <2>1, MinIs
  <2>3. Url!Min(Url!At(u, "/")) = i + 1
    BY <1>2, <2>1, <2>2
  <2> QED BY <1>2, <2>3 DEF Url!Begin
<1>8. Url!Slash(u) = s
  <2>1. \A x \in {i + 1, i + 2, s} : (\A y \in {i + 1, i + 2, s} : x >= y) <=> x = s
    BY <1>2
  <2> QED BY <2>1 DEF Shape, Url!Slash, Url!Max
<1> QED BY <1>1, <1>2, <1>4, <1>5, <1>6, <1>7, <1>8

(* What is behind the "://".                                               *)
LEMMA RestIs ==
    ASSUME NEW u, NEW i, NEW s, Shape(u, i, s)
    PROVE  /\ Url!From(u, i + 2) \in Seq(Chars)
           /\ Len(Url!From(u, i + 2)) = Len(u) - i - 2
           /\ \A k \in 1 .. Len(u) - i - 2 : Url!From(u, i + 2)[k] = u[k + i + 2]
           /\ Url!From(u, i + 2) = SubSeq(u, i + 3, Len(u))
<1>1. Url!From(u, i + 2) = SubSeq(u, i + 3, Len(u))
  <2>1. i + 2 + 1 = i + 3
    BY ShapeIs
  <2> QED BY <2>1 DEF Url!From, Url!Chunk
<1>2. /\ u \in Seq(Chars) /\ i + 3 \in Nat \ {0} /\ Len(u) \in Int /\ Len(u) <= Len(u)
      /\ i + 3 <= Len(u) /\ Len(u) - (i + 3) + 1 = Len(u) - i - 2
  BY ShapeIs DEF Shape
<1>3. /\ SubSeq(u, i + 3, Len(u)) \in Seq(Chars)
      /\ Len(SubSeq(u, i + 3, Len(u))) = Len(u) - i - 2
      /\ \A k \in 1 .. Len(u) - i - 2 : SubSeq(u, i + 3, Len(u))[k] = u[k + (i + 3) - 1]
  BY <1>2, Part
<1>4. \A k \in 1 .. Len(u) - i - 2 : k + (i + 3) - 1 = k + i + 2
  BY ShapeIs
<1> QED BY <1>1, <1>3, <1>4

LEMMA ProtocolFound ==
    ASSUME NEW u, NEW i, NEW s, Shape(u, i, s)
    PROVE  Url!FindStr(u, << ":", "/", "/" >>) = i - 1
<1> DEFINE w == << ":", "/", "/" >>
<1>1. u \in Seq(Chars) /\ Len(w) = 3 /\ w[1] = ":" /\ w[2] = "/" /\ w[3] = "/"
  BY DEF Shape
<1> HIDE DEF w
<1>2. /\ Len(u) \in Nat /\ i \in Nat /\ 2 <= i /\ i <= Len(u) - 4
      /\ u[i] = ":" /\ u[i + 1] = "/" /\ u[i + 2] = "/" /\ DOMAIN u = 1 .. Len(u)
  BY ShapeIs DEF Shape
<1>3. ASSUME NEW k \in 0 .. Len(u) - 4
      PROVE  /\ Url!Chunk(u, k, k + 3) \in Seq(Chars) /\ Len(Url!Chunk(u, k, k + 3)) = 3
             /\ \A j \in 1 .. 3 : Url!Chunk(u, k, k + 3)[j] = u[k + j]
  <2>1. /\ k + 1 \in Nat \ {0} /\ k + 3 \in Int /\ k + 3 <= Len(u) /\ k + 1 <= k + 3
        /\ (k + 3) - (k + 1) + 1 = 3 /\ \A j \in 1 .. 3 : j + (k + 1) - 1 = k + j
    BY <1>2
  <2>2. /\ SubSeq(u, k + 1, k + 3) \in Seq(Chars) /\ Len(SubSeq(u, k + 1, k + 3)) = 3
        /\ \A j \in 1 .. 3 : SubSeq(u, k + 1, k + 3)[j] = u[j + (k + 1) - 1]
    BY <1>1, <2>1, Part
  <2> QED BY <2>1, <2>2 DEF Url!Chunk
<1>4. i - 1 \in Url!Occurrences(u, w)
  <2>1. i - 1 \in 0 .. Len(u) - 4 /\ (i - 1) + 1 = i /\ (i - 1) + 2 = i + 1 /\ (i - 1) + 3 = i + 2
    BY <1>2
  <2>2. \A j \in 1 .. 3 : j = 1 \/ j = 2 \/ j = 3
    OBVIOUS
  <2>3. \A j \in 1 .. 3 : u[(i - 1) + j] = w[j]
    BY <1>1, <1>2, <2>1, <2>2
  <2> DEFINE c == Url!Chunk(u, i - 1, (i - 1) + 3)
  <2>4. c \in Seq(Chars) /\ Len(c) = 3 /\ \A j \in 1 .. 3 : c[j] = w[j]
    BY <1>3, <2>1, <2>3
  <2> HIDE DEF c
  <2>5. w \in Seq(Chars)
    <3>1. \A j \in 1 .. 3 : w[j] \in Chars
      BY <2>4, ElementOfSeq
    <3>2. 1 \in 1 .. 3 /\ 2 \in 1 .. 3 /\ 3 \in 1 .. 3
      OBVIOUS
    <3> QED BY <1>1, <3>1, <3>2 DEF w
  <2>6. c = w
    BY <1>1, <2>4, <2>5, SeqEqual
  <2> QED BY <1>1, <1>2, <2>1, <2>6 DEF Url!Occurrences, c
<1>5. \A k \in Url!Occurrences(u, w) : k \in Nat /\ i - 1 <= k
  <2> SUFFICES ASSUME NEW k \in Url!Occurrences(u, w) PROVE k \in Nat /\ i - 1 <= k
    OBVIOUS
  <2>1. k \in 0 .. Len(u) - 4 /\ Url!Chunk(u, k, k + 3) = w
    BY <1>1, <1>2 DEF Url!Occurrences
  <2>2. u[k + 1] = ":" /\ k + 1 \in 1 .. Len(u)
    BY <1>1, <1>2, <1>3, <2>1
  <2>3. i <= k + 1
    BY <1>2, <2>2 DEF Shape, Url!At
  <2> QED BY <1>2, <2>1, <2>3
<1>6. Url!FindStr(u, w) \in Url!Occurrences(u, w) /\ Url!FindStr(u, w) <= i - 1
  BY <1>1, <1>4, FindIs
<1> QED BY <1>2, <1>5, <1>6 DEF w

LEMMA ShapeNums ==
    ASSUME NEW u, NEW i, NEW s, Shape(u, i, s)
    PROVE  Len(u) \in Nat /\ i \in Nat /\ s \in Nat /\ 2 <= i /\ i + 3 <= s /\ s < Len(u)
BY ShapeIs

(* The offsets the code computes between those places.                     *)
LEMMA Offsets ==
    ASSUME NEW u, NEW i, NEW s, Shape(u, i, s)
    PROVE  /\ i + 3 \in Nat \ {0} /\ Len(u) \in Int /\ Len(u) <= Len(u)
           /\ s - i - 3 \in Nat /\ s - i - 3 <= Len(u) - i - 2 /\ ~(s - i - 3 < 0)
           /\ Len(u) - (i + 3) + 1 = Len(u) - i - 2
           /\ Len(u) - i - 2 \in Nat /\ 1 < Len(u) - i - 2 /\ Len(u) - i - 2 <= Len(u)
           /\ (i + 3) + 1 - 1 = i + 3
           /\ (i + 3) + (s - i - 3) - 1 = s - 1
           /\ (s - i - 3) + 1 + 1 \in Nat \ {0} /\ (s - i - 3) + 1 \in Nat
           /\ (i + 3) + ((s - i - 3) + 1 + 1) - 1 = s + 1
           /\ (i + 3) + (Len(u) - i - 2) - 1 = Len(u)
<1> DEFINE L == Len(u)
<1>1. L \in Nat /\ i \in Nat /\ s \in Nat /\ 2 <= i /\ i + 3 <= s /\ s < L
  BY ShapeNums
<1> HIDE DEF L
<1>2. /\ i + 3 \in Nat \ {0} /\ L \in Int /\ L <= L
      /\ s - i - 3 \in Nat /\ s - i - 3 <= L - i - 2 /\ ~(s - i - 3 < 0)
      /\ L - (i + 3) + 1 = L - i - 2
      /\ L - i - 2 \in Nat /\ 1 < L - i - 2 /\ L - i - 2 <= L
  BY <1>1
<1>3. /\ (i + 3) + 1 - 1 = i + 3
      /\ (i + 3) + (s - i - 3) - 1 = s - 1
      /\ (s - i - 3) + 1 + 1 \in Nat \ {0} /\ (s - i - 3) + 1 \in Nat
      /\ (i + 3) + ((s - i - 3) + 1 + 1) - 1 = s + 1
      /\ (i + 3) + (L - i - 2) - 1 = L
  BY <1>1
<1> QED BY <1>2, <1>3 DEF L

LEMMA RestAt ==
    ASSUME NEW u, NEW i, NEW s, Shape(u, i, s), NEW c, c \in {"/", "?", "&", ":"}
    PROVE  LET r == Url!From(u, i + 2) IN
           /\ \A k : k \in Url!At(r, c) <=> k \in 1 .. Len(u) - i - 2 /\ u[k + i + 2] = c
           /\ r = << >> \/ r[Len(r)] # c
<1> DEFINE r == Url!From(u, i + 2)
<1>1. /\ r \in Seq(Chars) /\ Len(r) = Len(u) - i - 2
      /\ \A k \in 1 .. Len(u) - i - 2 : r[k] = u[k + i + 2]
  BY RestIs
<1>2. DOMAIN r = 1 .. Len(u) - i - 2
  <2> HIDE DEF r
  <2> QED BY <1>1, LenProperties
<1>3. Len(u) - i - 2 \in 1 .. Len(u) - i - 2 /\ (Len(u) - i - 2) + i + 2 = Len(u)
  BY ShapeIs
<1>4. r[Len(r)] = u[Len(u)]
  BY <1>1, <1>3
<1>5. u[Len(u)] # c
  BY DEF Shape
<1> HIDE DEF r
<1>6. \A k : k \in Url!At(r, c) <=> k \in 1 .. Len(u) - i - 2 /\ u[k + i + 2] = c
  BY <1>1, <1>2 DEF Url!At
<1> QED BY <1>4, <1>5, <1>6 DEF r

LEMMA SlashFound ==
    ASSUME NEW u, NEW i, NEW s, Shape(u, i, s)
    PROVE  Url!FindStr(Url!From(u, i + 2), << "/" >>) = s - i - 3
<1> DEFINE r == Url!From(u, i + 2)
<1>1. r \in Seq(Chars) /\ (r = << >> \/ r[Len(r)] # "/")
  BY RestIs, RestAt
<1>2. \A k : k \in Url!At(r, "/") <=> k \in 1 .. Len(u) - i - 2 /\ u[k + i + 2] = "/"
  BY RestAt
<1> HIDE DEF r
<1>3. s - i - 2 \in 1 .. Len(u) - i - 2 /\ (s - i - 2) + i + 2 = s /\ u[s] = "/"
  BY ShapeIs
<1>4. s - i - 2 \in Url!At(r, "/")
  BY <1>2, <1>3
<1>5. ASSUME NEW k, k \in Url!At(r, "/") PROVE k \in Nat /\ k = s - i - 2
  <2>1. k \in 1 .. Len(u) - i - 2 /\ u[k + i + 2] = "/"
    BY <1>2, <1>5
  <2>2. k \in Nat /\ k + i + 2 \in i + 3 .. Len(u)
    BY <2>1, ShapeIs
  <2>3. k + i + 2 = s
    BY <2>1, <2>2, ShapeIs
  <2> QED BY <2>2, <2>3, ShapeIs
<1>6. /\ Url!FindStr(r, << "/" >>) \in 0 .. Len(r) - 2
      /\ Url!FindStr(r, << "/" >>) + 1 \in Url!At(r, "/")
  BY <1>1, <1>4, FindChar
<1>7. Url!FindStr(r, << "/" >>) + 1 = s - i - 2 /\ Url!FindStr(r, << "/" >>) \in Int
  BY <1>5, <1>6
<1>8. \A x \in Int : x + 1 = s - i - 2 => x = s - i - 3
  BY ShapeIs
<1> QED BY <1>7, <1>8 DEF r

(* The domain is what is between the "://" and the third slash.            *)
LEMMA DomainIs ==
    ASSUME NEW u, NEW i, NEW s, Shape(u, i, s)
    PROVE  /\ Url!Domain(u) = SubSeq(Url!From(u, i + 2), 1, s - i - 3)
           /\ Url!Domain(u) \in Seq(Chars) /\ Len(Url!Domain(u)) = s - i - 3
           /\ DOMAIN Url!Domain(u) = 1 .. s - i - 3
           /\ \A c, k : k \in Url!At(Url!Domain(u), c) <=>
                            k \in 1 .. s - i - 3 /\ u[k + i + 2] = c
<1> DEFINE r == Url!From(u, i + 2)
           n == s - i - 3
           d == SubSeq(r, 1, n)
<1>1. /\ r \in Seq(Chars) /\ Len(r) = Len(u) - i - 2 /\ r = SubSeq(u, i + 3, Len(u))
      /\ \A k \in 1 .. Len(u) - i - 2 : r[k] = u[k + i + 2]
  BY RestIs
<1>2. /\ i + 3 \in Nat \ {0} /\ Len(u) \in Int /\ Len(u) <= Len(u)
      /\ n \in Nat /\ n <= Len(u) - i - 2 /\ Len(u) - (i + 3) + 1 = Len(u) - i - 2
      /\ Len(u) - i - 2 \in Nat
      /\ (i + 3) + 1 - 1 = i + 3 /\ (i + 3) + n - 1 = s - 1
  BY Offsets
<1>3. u \in Seq(Chars)
  BY DEF Shape
<1> HIDE DEF r, n, d
<1>4. SubSeq(SubSeq(u, i + 3, Len(u)), 1, n) = SubSeq(u, i + 3, s - 1)
  <2>1. /\ 1 \in Nat \ {0} /\ n \in Int /\ n <= Len(u) - (i + 3) + 1
        /\ i + 3 = (i + 3) + 1 - 1 /\ s - 1 = (i + 3) + n - 1
    BY <1>2
  <2> DEFINE x == i + 3
             v == Len(u)
             y == s - 1
  <2>2. /\ u \in Seq(Chars) /\ x \in Nat \ {0} /\ v \in Int /\ v <= Len(u) /\ 1 \in Nat \ {0}
        /\ n \in Int /\ n <= v - x + 1 /\ x = x + 1 - 1 /\ y = x + n - 1
    BY <1>2, <1>3, <2>1
  <2> HIDE DEF x, v, y
  <2>3. SubSeq(SubSeq(u, x, v), 1, n) = SubSeq(u, x, y)
    BY <2>2, PartOfPartIs
  <2> QED BY <2>3 DEF x, v, y
<1>5. Url!Domain(u) = d
  BY <1>1, <1>4, ShapeIs DEF Url!Domain, d
<1>6. /\ d \in Seq(Chars) /\ Len(d) = n /\ DOMAIN d = 1 .. n
      /\ \A k \in 1 .. n : d[k] = r[k]
  <2>1. n \in 0 .. Len(r)
    BY <1>1, <1>2
  <2> QED BY <1>1, <2>1, FirstPart DEF d
<1>7. \A k \in 1 .. n : k \in 1 .. Len(u) - i - 2
  BY <1>2
<1>8. \A k \in 1 .. n : d[k] = u[k + i + 2]
  BY <1>1, <1>6, <1>7
<1>9. \A c, k : k \in Url!At(d, c) <=> k \in 1 .. n /\ u[k + i + 2] = c
  BY <1>6, <1>8 DEF Url!At
<1> QED BY <1>5, <1>6, <1>9 DEF d, r, n

(* ParseUrl of a regular URL.                                              *)
Begun(u, i) ==
    [protocol |-> Url!From(u, i - 1), host |-> Url!Domain(u), port |-> 80, uri |-> u]

LEMMA BegunIs ==
    ASSUME NEW u, NEW p, NEW h
    PROVE  [[[Url!UrlParam EXCEPT !.uri = u] EXCEPT !.protocol = p] EXCEPT !.host = h]
               = [protocol |-> p, host |-> h, port |-> 80, uri |-> u]
<1>1. [Url!UrlParam EXCEPT !.uri = u] = [protocol |-> << >>, host |-> << >>, port |-> 80, uri |-> u]
  BY DEF Url!UrlParam
<1>2. [[protocol |-> << >>, host |-> << >>, port |-> 80, uri |-> u] EXCEPT !.protocol = p]
          = [protocol |-> p, host |-> << >>, port |-> 80, uri |-> u]
  OBVIOUS
<1>3. [[protocol |-> p, host |-> << >>, port |-> 80, uri |-> u] EXCEPT !.host = h]
          = [protocol |-> p, host |-> h, port |-> 80, uri |-> u]
  OBVIOUS
<1> QED BY <1>1, <1>2, <1>3, Zenon

LEMMA ParseUrlIs ==
    ASSUME NEW u, NEW i, NEW s, Shape(u, i, s)
    PROVE  LET parsed == Url!ParseDomain(Url!From(u, i + 2), s - i - 3, Begun(u, i))
           IN  Url!ParseUrl(u, Url!UrlParam) =
                   IF parsed.thrown THEN parsed
                   ELSE [parsed EXCEPT !.param.uri = SubSeq(u, s + 1, Len(u))]
<1> DEFINE r == Url!From(u, i + 2)
           n == s - i - 3
<1>1. /\ Url!FindStr(u, << ":", "/", "/" >>) = i - 1
      /\ (i - 1) + 3 = i + 2 /\ ~(i - 1 < 0) /\ i - 1 >= 0
  BY ProtocolFound, ShapeNums
<1>2. Url!FindStr(r, << "/" >>) = n /\ ~(n < 0)
  BY SlashFound, Offsets
<1>3. ~(Len(r) <= 1) /\ Len(r) > 1
  <2>1. Len(r) = Len(u) - i - 2 /\ Len(u) - i - 2 \in Nat /\ 1 < Len(u) - i - 2
    BY RestIs, Offsets
  <2> HIDE DEF r
  <2> QED BY <2>1
<1>4. Url!Chunk(r, 0, n) = Url!Domain(u)
  BY DomainIs DEF Url!Chunk
<1>5. [[[Url!UrlParam EXCEPT !.uri = u] EXCEPT !.protocol = Url!From(u, i - 1)]
           EXCEPT !.host = Url!Domain(u)] = Begun(u, i)
  BY BegunIs DEF Begun
<1>6. Url!From(r, n + 1) = SubSeq(u, s + 1, Len(u))
  <2>1. r = SubSeq(u, i + 3, Len(u)) /\ Len(r) = Len(u) - i - 2 /\ u \in Seq(Chars)
    BY RestIs DEF Shape
  <2>2. /\ i + 3 \in Nat \ {0} /\ Len(u) \in Int /\ Len(u) <= Len(u)
        /\ n + 1 + 1 \in Nat \ {0} /\ Len(u) - i - 2 \in Int
        /\ Len(u) - (i + 3) + 1 = Len(u) - i - 2
        /\ Len(u) - i - 2 <= Len(u) - (i + 3) + 1
        /\ (i + 3) + (n + 1 + 1) - 1 = s + 1
        /\ (i + 3) + (Len(u) - i - 2) - 1 = Len(u)
    BY Offsets
  <2> HIDE DEF r, n
  <2>3. SubSeq(SubSeq(u, i + 3, Len(u)), n + 1 + 1, Len(u) - i - 2) = SubSeq(u, s + 1, Len(u))
    <3> DEFINE x == i + 3
               v == Len(u)
               y == s + 1
               m == n + 1 + 1
               w == Len(u) - i - 2
    <3>1. /\ u \in Seq(Chars) /\ x \in Nat \ {0} /\ v \in Int /\ v <= Len(u) /\ m \in Nat \ {0}
          /\ w \in Int /\ w <= v - x + 1 /\ y = x + m - 1 /\ v = x + w - 1
      BY <2>1, <2>2
    <3> HIDE DEF x, v, y, m, w
    <3>2. SubSeq(SubSeq(u, x, v), m, w) = SubSeq(u, y, v)
      BY <3>1, PartOfPartIs
    <3> QED BY <3>2 DEF x, v, y, m, w
  <2>5. Url!From(r, n + 1) = SubSeq(SubSeq(u, i + 3, Len(u)), n + 1 + 1, Len(u) - i - 2)
    BY <2>1 DEF Url!From, Url!Chunk
  <2> QED BY <2>3, <2>5
<1> DEFINE parsed == Url!ParseDomain(r, n, Begun(u, i))
<1>7. Url!ParseUrl(u, Url!UrlParam) =
          IF parsed.thrown THEN parsed ELSE [parsed EXCEPT !.param.uri = Url!From(r, n + 1)]
  <2> HIDE DEF n
  <2> QED BY <1>1, <1>2, <1>3, <1>4, <1>5 DEF Url!ParseUrl
<1> QED BY <1>6, <1>7

(* Where ParseDomain finds the first colon of what is behind the "://".    *)
LEMMA ColonAt ==
    ASSUME NEW u, NEW i, NEW s, Shape(u, i, s)
    PROVE  LET r == Url!From(u, i + 2)
               n == s - i - 3
           IN  \/ /\ Url!FindStr(r, << ":" >>) = -1
                  /\ Url!At(Url!Domain(u), ":") = {} /\ ~Url!LateColon(u)
               \/ \E c \in Nat :
                    /\ Url!FindStr(r, << ":" >>) = c /\ c + 1 > n
                    /\ Url!At(Url!Domain(u), ":") = {} /\ Url!LateColon(u)
               \/ \E c \in Nat :
                    /\ Url!FindStr(r, << ":" >>) = c /\ c + 1 <= n
                    /\ c + 1 \in Url!At(Url!Domain(u), ":")
                    /\ Url!Min(Url!At(Url!Domain(u), ":")) = c + 1 /\ ~Url!LateColon(u)
<1> DEFINE r == Url!From(u, i + 2)
           n == s - i - 3
           d == Url!Domain(u)
           L == Len(u)
<1>1. /\ L \in Nat /\ i \in Nat /\ s \in Nat /\ 2 <= i /\ i + 3 <= s /\ s < L
  BY ShapeNums
<1>2. /\ r \in Seq(Chars) /\ (r = << >> \/ r[Len(r)] # ":") /\ Len(r) = L - i - 2
      /\ \A k : k \in Url!At(r, ":") <=> k \in 1 .. L - i - 2 /\ u[k + i + 2] = ":"
  BY RestIs, RestAt
<1>3. \A k : k \in Url!At(d, ":") <=> k \in 1 .. n /\ u[k + i + 2] = ":"
  BY DomainIs
<1>4. \A j : j \in Url!At(u, ":") <=> j \in 1 .. L /\ u[j] = ":"
  BY ShapeIs DEF Url!At
<1>5. Url!Slash(u) = s /\ u[s] = "/" /\ n \in Nat
  BY ShapeIs, Offsets
<1>6. Url!LateColon(u) <=> Url!At(d, ":") = {} /\ \E j \in Url!At(u, ":") : j > s
  BY <1>5 DEF Url!LateColon
<1> HIDE DEF r, d, L
<1>7. CASE Url!At(r, ":") = {} /\ Url!FindStr(r, << ":" >>) = -1
  <2>1. Url!At(d, ":") = {}
    <3> SUFFICES ASSUME NEW k \in Url!At(d, ":") PROVE FALSE
      OBVIOUS
    <3>1. k \in 1 .. n /\ u[k + i + 2] = ":"
      BY <1>3
    <3>2. k \in 1 .. L - i - 2
      BY <1>1, <3>1
    <3> QED BY <1>2, <1>7, <3>1, <3>2
  <2>2. \A j \in Url!At(u, ":") : ~(j > s)
    <3> SUFFICES ASSUME NEW j \in Url!At(u, ":"), j > s PROVE FALSE
      OBVIOUS
    <3>1. j \in 1 .. L /\ u[j] = ":"
      BY <1>4
    <3>2. j - i - 2 \in 1 .. L - i - 2 /\ (j - i - 2) + i + 2 = j
      BY <1>1, <3>1
    <3> QED BY <1>2, <1>7, <3>1, <3>2
  <2> QED BY <1>6, <1>7, <2>1, <2>2 DEF r, d
<1>8. CASE /\ Url!FindStr(r, << ":" >>) \in 0 .. Len(r) - 2
           /\ Url!FindStr(r, << ":" >>) + 1 \in Url!At(r, ":")
           /\ \A k \in Url!At(r, ":") : Url!FindStr(r, << ":" >>) + 1 <= k
  <2> DEFINE c == Url!FindStr(r, << ":" >>)
  <2>1. c \in Nat /\ c + 1 \in 1 .. L - i - 2 /\ u[(c + 1) + i + 2] = ":"
    BY <1>2, <1>8
  <2>2. \A k \in Url!At(r, ":") : c + 1 <= k
    BY <1>8
  <2> HIDE DEF c
  <2>3. CASE c + 1 > n
    <3>1. Url!At(d, ":") = {}
      <4> SUFFICES ASSUME NEW k \in Url!At(d, ":") PROVE FALSE
        OBVIOUS
      <4>1. k \in 1 .. n /\ u[k + i + 2] = ":"
        BY <1>3
      <4>2. k \in 1 .. L - i - 2 /\ k \in Int
        BY <1>1, <4>1
      <4>3. c + 1 <= k
        BY <1>2, <2>2, <4>1, <4>2
      <4> QED BY <1>5, <2>1, <2>3, <4>1, <4>3
    <3>2. (c + 1) + i + 2 # s
      BY <1>5, <2>1
    <3>3. (c + 1) + i + 2 > s /\ (c + 1) + i + 2 \in 1 .. L
      BY <1>1, <2>1, <2>3, <3>2
    <3>4. (c + 1) + i + 2 \in Url!At(u, ":")
      BY <1>4, <2>1, <3>3
    <3> QED BY <1>6, <2>1, <2>3, <3>1, <3>3, <3>4 DEF c, r, d
  <2>4. CASE c + 1 <= n
    <3>1. c + 1 \in 1 .. n
      BY <1>5, <2>1, <2>4
    <3>2. c + 1 \in Url!At(d, ":")
      BY <1>3, <2>1, <3>1
    <3>3. Url!At(d, ":") \subseteq Nat /\ \A k \in Url!At(d, ":") : c + 1 <= k
      <4> SUFFICES ASSUME NEW k \in Url!At(d, ":") PROVE k \in Nat /\ c + 1 <= k
        OBVIOUS
      <4>1. k \in 1 .. n /\ u[k + i + 2] = ":"
        BY <1>3
      <4>2. k \in 1 .. L - i - 2 /\ k \in Nat
        BY <1>1, <4>1
      <4> QED BY <1>2, <2>2, <4>1, <4>2
    <3>4. /\ Url!Min(Url!At(d, ":")) \in Url!At(d, ":")
          /\ Url!Min(Url!At(d, ":")) <= c + 1
      BY <3>2, <3>3, MinIs
    <3>5. Url!Min(Url!At(d, ":")) = c + 1
      <4>1. c + 1 <= Url!Min(Url!At(d, ":")) /\ Url!Min(Url!At(d, ":")) \in Nat
        BY <3>3, <3>4
      <4> QED BY <2>1, <3>4, <4>1
    <3>6. ~Url!LateColon(u)
      BY <1>6, <3>2
    <3> QED BY <2>1, <2>4, <3>2, <3>5, <3>6 DEF c, r, d
  <2> QED BY <1>5, <2>1, <2>3, <2>4
<1> QED BY <1>2, <1>7, <1>8, FindChar

(* The parts of the domain that ParseDomain takes.                         *)
LEMMA DomainParts ==
    ASSUME NEW u, NEW i, NEW s, Shape(u, i, s), NEW c \in Nat, c + 1 <= s - i - 3
    PROVE  LET r == Url!From(u, i + 2)
               d == Url!Domain(u)
           IN  /\ Url!Chunk(r, 0, c) = SubSeq(d, 1, (c + 1) - 1)
               /\ Url!Chunk(r, c + 1, s - i - 3) = SubSeq(d, (c + 1) + 1, Len(d))
<1> DEFINE r == Url!From(u, i + 2)
           d == Url!Domain(u)
           n == s - i - 3
<1>1. r \in Seq(Chars) /\ d = SubSeq(r, 1, n) /\ Len(d) = n
  BY RestIs, DomainIs
<1>2. Len(r) = Len(u) - i - 2 /\ n \in Nat /\ n <= Len(u) - i - 2 /\ c + 1 <= n
  BY RestIs, Offsets
<1> HIDE DEF r, d, n
<1>3. n <= Len(r)
  BY <1>2
<1>4. SubSeq(SubSeq(r, 1, n), 1, c) = SubSeq(r, 1, c)
  <2>1. /\ 1 \in Nat \ {0} /\ n \in Int /\ c \in Int /\ c <= n - 1 + 1
        /\ 1 = 1 + 1 - 1 /\ c = 1 + c - 1
    BY <1>2
  <2> QED BY <1>1, <1>3, <2>1, PartOfPartIs
<1>5. SubSeq(SubSeq(r, 1, n), c + 1 + 1, n) = SubSeq(r, c + 1 + 1, n)
  <2> DEFINE m == c + 1 + 1
  <2>1. /\ 1 \in Nat \ {0} /\ n \in Int /\ m \in Nat \ {0} /\ n <= n - 1 + 1
        /\ m = 1 + m - 1 /\ n = 1 + n - 1
    BY <1>2
  <2> HIDE DEF m
  <2>2. SubSeq(SubSeq(r, 1, n), m, n) = SubSeq(r, m, n)
    BY <1>1, <1>3, <2>1, PartOfPartIs
  <2> QED BY <2>2 DEF m
<1>6. 0 + 1 = 1 /\ (c + 1) - 1 = c
  OBVIOUS
<1>7. Url!Chunk(r, 0, c) = SubSeq(d, 1, (c + 1) - 1)
  BY <1>1, <1>4, <1>6 DEF Url!Chunk
<1>8. Url!Chunk(r, c + 1, n) = SubSeq(d, (c + 1) + 1, Len(d))
  BY <1>1, <1>5 DEF Url!Chunk
<1> QED BY <1>7, <1>8 DEF r, d, n

LEMMA UriSet ==
    ASSUME NEW p, NEW h, NEW o, NEW u, NEW e
    PROVE  [[param |-> [protocol |-> p, host |-> h, port |-> o, uri |-> u], thrown |-> FALSE]
                EXCEPT !.param.uri = e]
               = [param |-> [protocol |-> p, host |-> h, port |-> o, uri |-> e], thrown |-> FALSE]
<1>1. [[protocol |-> p, host |-> h, port |-> o, uri |-> u] EXCEPT !.uri = e]
          = [protocol |-> p, host |-> h, port |-> o, uri |-> e]
  OBVIOUS
<1> DEFINE a == [protocol |-> p, host |-> h, port |-> o, uri |-> u]
           b == [protocol |-> p, host |-> h, port |-> o, uri |-> e]
<1>2. [a EXCEPT !.uri = e] = b
  BY <1>1
<1> HIDE DEF a, b
<1>3. [[param |-> a, thrown |-> FALSE] EXCEPT !.param.uri = e] = [param |-> b, thrown |-> FALSE]
  <2>1. [param |-> a, thrown |-> FALSE].param = a
    OBVIOUS
  <2>2. \A t : [[param |-> a, thrown |-> t] EXCEPT !.param = b] = [param |-> b, thrown |-> t]
    OBVIOUS
  <2> QED BY <1>2, <2>1, <2>2, Zenon
<1> QED BY <1>3 DEF a, b

(* What ParseUrl leaves: where it throws, and else host, port and uri.     *)
Port(t) == IF Url!IsNumber(t) THEN Url!Atoi(t) ELSE 80

LEMMA ParsedIs ==
    ASSUME NEW u, NEW i, NEW s, Shape(u, i, s)
    PROVE  LET parsed == Url!ParseUrl(u, Url!UrlParam)
               d == Url!Domain(u)
               c == Url!Min(Url!At(d, ":"))
               t == SubSeq(d, c + 1, Len(d))
           IN  /\ parsed.thrown <=> Url!LateColon(u)
               /\ ~parsed.thrown =>
                    /\ parsed.param.uri = SubSeq(u, s + 1, Len(u))
                    /\ Url!At(d, ":") = {} =>
                           parsed.param.host = d /\ parsed.param.port = 80
                    /\ Url!At(d, ":") # {} =>
                           /\ c \in Url!At(d, ":")
                           /\ parsed.param.host = SubSeq(d, 1, c - 1)
                           /\ parsed.param.port = Port(t)
<1> DEFINE r == Url!From(u, i + 2)
           n == s - i - 3
           d == Url!Domain(u)
           b == Begun(u, i)
           p == Url!From(u, i - 1)
           q == Url!ParseDomain(r, n, b)
           e == SubSeq(u, s + 1, Len(u))
<1>1. Url!ParseUrl(u, Url!UrlParam) = IF q.thrown THEN q ELSE [q EXCEPT !.param.uri = e]
  BY ParseUrlIs
<1>2. n \in Nat
  BY Offsets
<1>3. b = [protocol |-> p, host |-> d, port |-> 80, uri |-> u]
  BY DEF Begun
<1>4. ASSUME NEW h, NEW o
      PROVE  [[param |-> [protocol |-> p, host |-> h, port |-> o, uri |-> u], thrown |-> FALSE]
                  EXCEPT !.param.uri = e]
                 = [param |-> [protocol |-> p, host |-> h, port |-> o, uri |-> e], thrown |-> FALSE]
  <2> HIDE DEF p, e
  <2> QED BY UriSet
<1>5. ASSUME NEW h, NEW o,
             q = [param |-> [protocol |-> p, host |-> h, port |-> o, uri |-> u], thrown |-> FALSE]
      PROVE  Url!ParseUrl(u, Url!UrlParam) =
                 [param |-> [protocol |-> p, host |-> h, port |-> o, uri |-> e], thrown |-> FALSE]
  <2> HIDE DEF q, p, e
  <2> QED BY <1>1, <1>4, <1>5
<1>6. CASE /\ Url!FindStr(r, << ":" >>) = -1
           /\ Url!At(d, ":") = {} /\ ~Url!LateColon(u)
  <2>1. q = [param |-> b, thrown |-> FALSE]
    <3> HIDE DEF r, n, b
    <3> QED BY <1>2, <1>6 DEF Url!ParseDomain
  <2>2. Url!ParseUrl(u, Url!UrlParam) =
            [param |-> [protocol |-> p, host |-> d, port |-> 80, uri |-> e], thrown |-> FALSE]
    <3>1. q = [param |-> [protocol |-> p, host |-> d, port |-> 80, uri |-> u], thrown |-> FALSE]
      BY <1>3, <2>1
    <3> HIDE DEF q, p, e, d
    <3> QED BY <1>5, <3>1
  <2> HIDE DEF p, e, d
  <2> QED BY <1>6, <2>2 DEF d, e
<1>7. ASSUME NEW c \in Nat, Url!FindStr(r, << ":" >>) = c, c + 1 > n,
             Url!At(d, ":") = {}, Url!LateColon(u)
      PROVE  /\ Url!ParseUrl(u, Url!UrlParam).thrown <=> Url!LateColon(u)
             /\ Url!ParseUrl(u, Url!UrlParam).thrown
  <2>1. q = [param |-> [b EXCEPT !.host = Url!Chunk(r, 0, c)], thrown |-> TRUE]
    <3>1. ~(c < 0) /\ c >= 0 /\ n < c + 1 /\ ~(n >= c + 1)
      BY <1>2, <1>7
    <3> HIDE DEF r, n, b
    <3> QED BY <1>7, <3>1 DEF Url!ParseDomain
  <2> HIDE DEF q, e, b, r
  <2> QED BY <1>1, <1>7, <2>1
<1>8. ASSUME NEW c \in Nat, Url!FindStr(r, << ":" >>) = c, c + 1 <= n
      PROVE  Url!ParseUrl(u, Url!UrlParam) =
                 [param |-> [protocol |-> p, host |-> SubSeq(d, 1, (c + 1) - 1),
                             port |-> Port(SubSeq(d, (c + 1) + 1, Len(d))), uri |-> e],
                  thrown |-> FALSE]
  <2> DEFINE h == SubSeq(d, 1, (c + 1) - 1)
             t == SubSeq(d, (c + 1) + 1, Len(d))
  <2>1. Url!Chunk(r, 0, c) = h /\ Url!Chunk(r, c + 1, n) = t
    BY <1>8, DomainParts
  <2>2. ~(c < 0) /\ c >= 0 /\ ~(n < c + 1) /\ n >= c + 1
    BY <1>2, <1>8
  <2>3. q = [param |-> IF Url!IsNumber(t) THEN [[b EXCEPT !.host = h] EXCEPT !.port = Url!Atoi(t)]
                       ELSE [b EXCEPT !.host = h], thrown |-> FALSE]
    <3> HIDE DEF r, n, b, h, t
    <3> QED BY <1>8, <2>1, <2>2 DEF Url!ParseDomain
  <2>4. [b EXCEPT !.host = h] = [protocol |-> p, host |-> h, port |-> 80, uri |-> u]
    <3> HIDE DEF p, d, h
    <3> QED BY <1>3
  <2>5. [[protocol |-> p, host |-> h, port |-> 80, uri |-> u] EXCEPT !.port = Url!Atoi(t)]
            = [protocol |-> p, host |-> h, port |-> Url!Atoi(t), uri |-> u]
    <3> HIDE DEF p, h, t
    <3> QED OBVIOUS
  <2>6. q = [param |-> [protocol |-> p, host |-> h, port |-> Port(t), uri |-> u], thrown |-> FALSE]
    <3> HIDE DEF q, p, h, t, b
    <3> QED BY <2>3, <2>4, <2>5 DEF Port
  <2>7. Url!ParseUrl(u, Url!UrlParam) =
            [param |-> [protocol |-> p, host |-> h, port |-> Port(t), uri |-> e], thrown |-> FALSE]
    <3> HIDE DEF q, p, h, t, e
    <3> QED BY <1>5, <2>6
  <2> QED BY <2>7
<1>9. ASSUME NEW c \in Nat, Url!FindStr(r, << ":" >>) = c, c + 1 <= n,
             c + 1 \in Url!At(d, ":"), Url!Min(Url!At(d, ":")) = c + 1, ~Url!LateColon(u)
      PROVE  LET parsed == Url!ParseUrl(u, Url!UrlParam) IN
             /\ ~parsed.thrown /\ parsed.param.uri = e
             /\ parsed.param.host = SubSeq(d, 1, Url!Min(Url!At(d, ":")) - 1)
             /\ parsed.param.port = Port(SubSeq(d, Url!Min(Url!At(d, ":")) + 1, Len(d)))
  <2> HIDE DEF q, p, e, d, r, n
  <2> QED BY <1>8, <1>9
<1> HIDE DEF q, p, b
<1>10. \/ /\ Url!FindStr(r, << ":" >>) = -1
          /\ Url!At(d, ":") = {} /\ ~Url!LateColon(u)
       \/ \E c \in Nat : /\ Url!FindStr(r, << ":" >>) = c /\ c + 1 > n
                         /\ Url!At(d, ":") = {} /\ Url!LateColon(u)
       \/ \E c \in Nat :
             /\ Url!FindStr(r, << ":" >>) = c /\ c + 1 <= n
             /\ c + 1 \in Url!At(d, ":")
             /\ Url!Min(Url!At(d, ":")) = c + 1 /\ ~Url!LateColon(u)
  BY ColonAt
<1> HIDE DEF r, n
<1>11. CASE \E c \in Nat : /\ Url!FindStr(r, << ":" >>) = c /\ c + 1 > n
                           /\ Url!At(d, ":") = {} /\ Url!LateColon(u)
  BY <1>7, <1>11
<1>12. CASE \E c \in Nat :
             /\ Url!FindStr(r, << ":" >>) = c /\ c + 1 <= n
             /\ c + 1 \in Url!At(d, ":")
             /\ Url!Min(Url!At(d, ":")) = c + 1 /\ ~Url!LateColon(u)
  BY <1>9, <1>12
<1> QED BY <1>6, <1>10, <1>11, <1>12

LEMMA DigitIs == \A d \in Url!Range(Url!Digits) : Url!DigitValue(d) \in Nat /\ d \notin {"+", "-"}
<1>1. DOMAIN Url!Digits = 1 .. 10
  BY DEF Url!Digits
<1>2. Url!Range(Url!Digits) = {"0", "1", "2", "3", "4", "5", "6", "7", "8", "9"}
  <2>1. \A i \in 1 .. 10 : \/ i = 1 \/ i = 2 \/ i = 3 \/ i = 4 \/ i = 5
                           \/ i = 6 \/ i = 7 \/ i = 8 \/ i = 9 \/ i = 10
    OBVIOUS
  <2> QED BY <1>1, <2>1 DEF Url!Range, Url!Digits
<1>3. ASSUME NEW d \in Url!Range(Url!Digits) PROVE Url!DigitValue(d) \in Nat
  <2>1. \E i \in DOMAIN Url!Digits : Url!Digits[i] = d
    BY DEF Url!Range
  <2>2. (CHOOSE i \in DOMAIN Url!Digits : Url!Digits[i] = d) \in DOMAIN Url!Digits
    BY <2>1
  <2>3. \A i \in 1 .. 10 : i - 1 \in Nat
    OBVIOUS
  <2> QED BY <1>1, <2>2, <2>3, Zenon DEF Url!DigitValue
<1> QED BY <1>2, <1>3

(* What the three functions of a number's digits are.                      *)
LEMMA CountedIs ==
    ASSUME NEW n, Len(n) \in Nat, \A i \in 1 .. Len(n) : Url!DigitValue(n[i]) \in Nat
    PROVE  \E a \in [0 .. Len(n) -> Nat] :
               /\ a[0] = 0 /\ \A i \in 1 .. Len(n) : a[i] = 10 * a[i - 1] + Url!DigitValue(n[i])
               /\ Url!Counted(n) = a[Len(n)]
<1> DEFINE N == Len(n)
           Rec(f) == [i \in 0 .. N |-> IF i = 0 THEN 0 ELSE 10 * f[i - 1] + Url!DigitValue(n[i])]
           G == [x \in (1 .. N) \X Nat |-> 10 * x[2] + Url!DigitValue(n[x[1]])]
           c == CHOOSE f : f = Rec(f)
<1>1. Url!Counted(n) = c[N]
  BY DEF Url!Counted
<1>2. G \in [(1 .. N) \X Nat -> Nat]
  OBVIOUS
<1> HIDE DEF G
<1>3. PICK g \in [0 .. N -> Nat] : g[0] = 0 /\ \A i \in 1 .. N : g[i] = G[i, g[i - 1]]
  <2>1. N \in Nat /\ 0 \in Nat
    OBVIOUS
  <2> HIDE DEF N
  <2> QED BY <1>2, <2>1, Stepwise
<1>4. ASSUME NEW i \in 1 .. N
      PROVE  g[i] = 10 * g[i - 1] + Url!DigitValue(n[i])
  <2>1. i - 1 \in 0 .. N
    OBVIOUS
  <2>2. g[i - 1] \in Nat
    BY <2>1
  <2> QED BY <1>3, <2>2 DEF G
<1>5. g = Rec(g)
  <2>1. \A i \in 0 .. N : i = 0 \/ i \in 1 .. N
    OBVIOUS
  <2>2. \A i \in 0 .. N : g[i] = Rec(g)[i]
    BY <1>3, <1>4, <2>1
  <2>3. g = [i \in 0 .. N |-> g[i]]
    OBVIOUS
  <2> QED BY <2>2, <2>3
<1>6. c = Rec(c)
  <2> HIDE DEF Rec
  <2> QED BY <1>5
<1> HIDE DEF c
<1>7. c[0] = 0 /\ \A i \in 1 .. N : c[i] = 10 * c[i - 1] + Url!DigitValue(n[i])
  <2>1. \A i \in 0 .. N : Rec(c)[i] = IF i = 0 THEN 0 ELSE 10 * c[i - 1] + Url!DigitValue(n[i])
    OBVIOUS
  <2>2. \A i \in 1 .. N : i \in 0 .. N /\ i # 0
    OBVIOUS
  <2>3. 0 \in 0 .. N
    OBVIOUS
  <2> HIDE DEF Rec
  <2> QED BY <1>6, <2>1, <2>2, <2>3
<1> DEFINE T == {k \in Nat : k <= N => c[k] \in Nat}
<1>8. 0 \in T
  BY <1>7
<1>9. ASSUME NEW k \in Nat, k \in T PROVE k + 1 \in T
  <2> SUFFICES ASSUME k + 1 <= N PROVE c[k + 1] \in Nat
    OBVIOUS
  <2>1. k + 1 \in 1 .. N /\ (k + 1) - 1 = k /\ c[k] \in Nat
    BY <1>9
  <2>2. c[k + 1] = 10 * c[k] + Url!DigitValue(n[k + 1]) /\ Url!DigitValue(n[k + 1]) \in Nat
    BY <1>7, <2>1
  <2> QED BY <2>1, <2>2
<1>10. \A k \in Nat : k \in T
  <2> HIDE DEF T
  <2> QED BY <1>8, <1>9, AllFromZero
<1>11. c \in [0 .. N -> Nat]
  <2>1. \A k \in 0 .. N : c[k] \in Nat
    BY <1>10
  <2>2. c = [i \in 0 .. N |-> c[i]]
    BY <1>6
  <2> QED BY <2>1, <2>2
<1> QED BY <1>1, <1>7, <1>11

LEMMA PlacesIs ==
    ASSUME NEW n, Len(n) \in Nat
    PROVE  /\ Url!Places(n) \in [0 .. Len(n) -> Nat] /\ Url!Places(n)[0] = 1
           /\ \A i \in 1 .. Len(n) : Url!Places(n)[i] = 10 * Url!Places(n)[i - 1]
<1> DEFINE N == Len(n)
           Rec(f) == [k \in 0 .. N |-> IF k = 0 THEN 1 ELSE 10 * f[k - 1]]
           G == [x \in (1 .. N) \X Nat |-> 10 * x[2]]
           c == CHOOSE f : f = Rec(f)
<1>1. Url!Places(n) = c
  BY DEF Url!Places
<1>2. G \in [(1 .. N) \X Nat -> Nat]
  OBVIOUS
<1> HIDE DEF G
<1>3. PICK g \in [0 .. N -> Nat] : g[0] = 1 /\ \A i \in 1 .. N : g[i] = G[i, g[i - 1]]
  <2>1. N \in Nat /\ 1 \in Nat
    OBVIOUS
  <2> HIDE DEF N
  <2> QED BY <1>2, <2>1, Stepwise
<1>4. ASSUME NEW i \in 1 .. N
      PROVE  g[i] = 10 * g[i - 1]
  <2>1. i - 1 \in 0 .. N
    OBVIOUS
  <2>2. g[i - 1] \in Nat
    BY <2>1
  <2> QED BY <1>3, <2>2 DEF G
<1>5. g = Rec(g)
  <2>1. \A i \in 0 .. N : i = 0 \/ i \in 1 .. N
    OBVIOUS
  <2>2. \A i \in 0 .. N : g[i] = Rec(g)[i]
    BY <1>3, <1>4, <2>1
  <2>3. g = [i \in 0 .. N |-> g[i]]
    OBVIOUS
  <2> QED BY <2>2, <2>3
<1>6. c = Rec(c)
  <2> HIDE DEF Rec
  <2> QED BY <1>5
<1> HIDE DEF c
<1>7. c[0] = 1 /\ \A i \in 1 .. N : c[i] = 10 * c[i - 1]
  <2>1. \A i \in 0 .. N : Rec(c)[i] = IF i = 0 THEN 1 ELSE 10 * c[i - 1]
    OBVIOUS
  <2>2. \A i \in 1 .. N : i \in 0 .. N /\ i # 0
    OBVIOUS
  <2>3. 0 \in 0 .. N
    OBVIOUS
  <2> HIDE DEF Rec
  <2> QED BY <1>6, <2>1, <2>2, <2>3
<1> DEFINE T == {k \in Nat : k <= N => c[k] \in Nat}
<1>8. 0 \in T
  BY <1>7
<1>9. ASSUME NEW k \in Nat, k \in T PROVE k + 1 \in T
  <2> SUFFICES ASSUME k + 1 <= N PROVE c[k + 1] \in Nat
    OBVIOUS
  <2>1. k + 1 \in 1 .. N /\ (k + 1) - 1 = k /\ c[k] \in Nat
    BY <1>9
  <2>2. c[k + 1] = 10 * c[k]
    BY <1>7, <2>1
  <2> QED BY <2>1, <2>2
<1>10. \A k \in Nat : k \in T
  <2> HIDE DEF T
  <2> QED BY <1>8, <1>9, AllFromZero
<1>11. c \in [0 .. N -> Nat]
  <2>1. \A k \in 0 .. N : c[k] \in Nat
    BY <1>10
  <2>2. c = [i \in 0 .. N |-> c[i]]
    BY <1>6
  <2> QED BY <2>1, <2>2
<1> QED BY <1>1, <1>7, <1>11

LEMMA DecimalIs ==
    ASSUME NEW n, Len(n) \in Nat, \A i \in 1 .. Len(n) : Url!DigitValue(n[i]) \in Nat
    PROVE  \E a \in [0 .. Len(n) -> Nat] :
               /\ a[0] = 0
               /\ \A i \in 1 .. Len(n) :
                      a[i] = a[i - 1] + Url!DigitValue(n[Len(n) + 1 - i]) * Url!Places(n)[i - 1]
               /\ Url!Decimal(n) = a[Len(n)]
<1> DEFINE N == Len(n)
           E(i) == Url!DigitValue(n[N + 1 - i]) * Url!Places(n)[i - 1]
<1>0. ASSUME NEW i \in 1 .. N PROVE E(i) \in Nat
  <2>1. i - 1 \in 0 .. N /\ N + 1 - i \in 1 .. N
    OBVIOUS
  <2>2. Url!Places(n)[i - 1] \in Nat /\ Url!DigitValue(n[N + 1 - i]) \in Nat
    BY <2>1, PlacesIs
  <2>3. \A x, y \in Nat : x * y \in Nat
    OBVIOUS
  <2> QED BY <2>2, <2>3
<1> DEFINE Rec(f) == [k \in 0 .. N |-> IF k = 0 THEN 0 ELSE f[k - 1] + E(k)]
           G == [x \in (1 .. N) \X Nat |-> x[2] + E(x[1])]
           c == CHOOSE f : f = Rec(f)
<1>1. Url!Decimal(n) = c[N]
  BY DEF Url!Decimal
<1> HIDE DEF E
<1>2. G \in [(1 .. N) \X Nat -> Nat]
  BY <1>0
<1> HIDE DEF G
<1>3. PICK g \in [0 .. N -> Nat] : g[0] = 0 /\ \A i \in 1 .. N : g[i] = G[i, g[i - 1]]
  <2>1. N \in Nat /\ 0 \in Nat
    OBVIOUS
  <2> HIDE DEF N
  <2> QED BY <1>2, <2>1, Stepwise
<1>4. ASSUME NEW i \in 1 .. N
      PROVE  g[i] = g[i - 1] + E(i)
  <2>1. i - 1 \in 0 .. N
    OBVIOUS
  <2>2. g[i - 1] \in Nat
    BY <2>1
  <2> QED BY <1>3, <2>2 DEF G
<1>5. g = Rec(g)
  <2>1. \A i \in 0 .. N : i = 0 \/ i \in 1 .. N
    OBVIOUS
  <2>2. \A i \in 0 .. N : g[i] = Rec(g)[i]
    BY <1>3, <1>4, <2>1
  <2>3. g = [i \in 0 .. N |-> g[i]]
    OBVIOUS
  <2> QED BY <2>2, <2>3
<1>6. c = Rec(c)
  <2> HIDE DEF Rec
  <2> QED BY <1>5
<1> HIDE DEF c
<1>7. c[0] = 0 /\ \A i \in 1 .. N : c[i] = c[i - 1] + E(i)
  <2>1. \A i \in 0 .. N : Rec(c)[i] = IF i = 0 THEN 0 ELSE c[i - 1] + E(i)
    OBVIOUS
  <2>2. \A i \in 1 .. N : i \in 0 .. N /\ i # 0
    OBVIOUS
  <2>3. 0 \in 0 .. N
    OBVIOUS
  <2> HIDE DEF Rec
  <2> QED BY <1>6, <2>1, <2>2, <2>3
<1> DEFINE T == {k \in Nat : k <= N => c[k] \in Nat}
<1>8. 0 \in T
  BY <1>7
<1>9. ASSUME NEW k \in Nat, k \in T PROVE k + 1 \in T
  <2> SUFFICES ASSUME k + 1 <= N PROVE c[k + 1] \in Nat
    OBVIOUS
  <2>1. k + 1 \in 1 .. N /\ (k + 1) - 1 = k /\ c[k] \in Nat
    BY <1>9
  <2>2. c[k + 1] = c[k] + E(k + 1) /\ E(k + 1) \in Nat
    BY <1>0, <1>7, <2>1
  <2> QED BY <2>1, <2>2
<1>10. \A k \in Nat : k \in T
  <2> HIDE DEF T
  <2> QED BY <1>8, <1>9, AllFromZero
<1>11. c \in [0 .. N -> Nat]
  <2>1. \A k \in 0 .. N : c[k] \in Nat
    BY <1>10
  <2>2. c = [i \in 0 .. N |-> c[i]]
    BY <1>6
  <2> QED BY <2>1, <2>2
<1> QED BY <1>1, <1>7, <1>11 DEF E

(* Counting from the first digit on and from the last one back is the same. *)
LEMMA SameNumber ==
    ASSUME NEW n, Len(n) \in Nat, \A i \in 1 .. Len(n) : Url!DigitValue(n[i]) \in Nat
    PROVE  Url!Counted(n) = Url!Decimal(n) /\ Url!Counted(n) \in Nat
<1> DEFINE N == Len(n)
           v(i) == Url!DigitValue(n[i])
           p == Url!Places(n)
<1>0. N \in Nat /\ \A i \in 1 .. N : v(i) \in Nat
  OBVIOUS
<1>1. PICK a \in [0 .. N -> Nat] : /\ a[0] = 0 /\ \A i \in 1 .. N : a[i] = 10 * a[i - 1] + v(i)
                                   /\ Url!Counted(n) = a[N]
  BY CountedIs
<1>2. PICK b \in [0 .. N -> Nat] : /\ b[0] = 0
                                   /\ \A i \in 1 .. N : b[i] = b[i - 1] + v(N + 1 - i) * p[i - 1]
                                   /\ Url!Decimal(n) = b[N]
  BY DecimalIs
<1>3. p \in [0 .. N -> Nat] /\ p[0] = 1 /\ \A i \in 1 .. N : p[i] = 10 * p[i - 1]
  BY PlacesIs
<1> HIDE DEF N, v, p
<1> DEFINE T == {k \in Nat : k <= N => a[N - k] * p[k] + b[k] = a[N]}
<1>4. 0 \in T
  <2>1. N - 0 = N /\ N \in 0 .. N
    BY <1>0
  <2>2. a[N] \in Nat
    BY <2>1
  <2> QED BY <1>2, <1>3, <2>1, <2>2
<1>5. ASSUME NEW k \in Nat, k \in T PROVE k + 1 \in T
  <2> SUFFICES ASSUME k + 1 <= N PROVE a[N - (k + 1)] * p[k + 1] + b[k + 1] = a[N]
    OBVIOUS
  <2> DEFINE m == N - k
  <2>1. /\ m \in 1 .. N /\ m \in 0 .. N /\ N - (k + 1) = m - 1 /\ m - 1 \in 0 .. N
        /\ k + 1 \in 1 .. N /\ (k + 1) - 1 = k /\ N + 1 - (k + 1) = m /\ k \in 0 .. N
        /\ k + 1 \in 0 .. N /\ N \in 0 .. N
    BY <1>0
  <2>2. a[m] * p[k] + b[k] = a[N]
    BY <1>0, <1>5
  <2> HIDE DEF m
  <2>3. /\ a[m] = 10 * a[m - 1] + v(m) /\ p[k + 1] = 10 * p[k]
        /\ b[k + 1] = b[k] + v(m) * p[k]
    <3>1. b[k + 1] = b[(k + 1) - 1] + v(N + 1 - (k + 1)) * p[(k + 1) - 1]
      BY <1>2, <2>1
    <3>2. p[k + 1] = 10 * p[(k + 1) - 1]
      BY <1>3, <2>1
    <3>3. a[m] = 10 * a[m - 1] + v(m)
      BY <1>1, <2>1
    <3> QED BY <2>1, <3>1, <3>2, <3>3
  <2>4. a[m - 1] \in Nat /\ v(m) \in Nat /\ p[k] \in Nat /\ b[k] \in Nat /\ a[N] \in Nat
    BY <1>0, <1>3, <2>1
  <2>5. \A x, w, y, z, t \in Nat :
            (10 * x + w) * y + z = t => x * (10 * y) + (z + w * y) = t
    OBVIOUS
  <2>6. a[m - 1] * (10 * p[k]) + (b[k] + v(m) * p[k]) = a[N]
    <3> DEFINE x == a[m - 1]
               w == v(m)
               y == p[k]
               z == b[k]
               t == a[N]
    <3>1. x \in Nat /\ w \in Nat /\ y \in Nat /\ z \in Nat /\ t \in Nat
      BY <2>4
    <3>2. (10 * x + w) * y + z = t
      BY <2>2, <2>3
    <3> HIDE DEF x, w, y, z, t
    <3>3. x * (10 * y) + (z + w * y) = t
      BY <2>5, <3>1, <3>2
    <3> QED BY <3>3 DEF x, w, y, z, t
  <2> QED BY <2>1, <2>3, <2>6
<1>6. N \in T
  <2> HIDE DEF T
  <2> QED BY <1>0, <1>4, <1>5, AllFromZero
<1>7. a[0] * p[N] + b[N] = a[N] /\ N - N = 0 /\ N \in 0 .. N
  BY <1>0, <1>6
<1>8. p[N] \in Nat /\ b[N] \in Nat /\ a[N] \in Nat
  BY <1>3, <1>7
<1>9. b[N] = a[N]
  <2>1. \A y \in Nat : 0 * y = 0
    OBVIOUS
  <2>2. 0 + b[N] = a[N]
    BY <1>1, <1>7, <1>8, <2>1
  <2> QED BY <1>8, <2>2
<1> QED BY <1>1, <1>2, <1>8, <1>9

(* What the text behind the colon makes the port.                          *)
LEMMA PortIs ==
    ASSUME NEW S, NEW n \in Seq(S)
    PROVE  Url!PortExact(n, Port(n))
<1> DEFINE N == Len(n)
<1>1. N \in Nat /\ DOMAIN n = 1 .. N
  BY LenProperties
<1>2. ASSUME \A i \in DOMAIN n : n[i] \in Url!Range(Url!Digits)
      PROVE  Port(n) = IF Url!Decimal(n) > Url!INT_MAX THEN 65535 ELSE Url!Decimal(n) % 65536
  <2>1. \A i \in 1 .. N : n[i] \in Url!Range(Url!Digits)
    BY <1>1, <1>2
  <2>2. \A i \in 1 .. N : Url!DigitValue(n[i]) \in Nat /\ n[i] \notin {"+", "-"}
    BY <2>1, DigitIs
  <2>3. ~Url!Signed(n)
    <3> SUFFICES ASSUME N > 1 PROVE n[1] \notin {"+", "-"}
      BY DEF Url!Signed
    <3>1. 1 \in 1 .. N
      BY <1>1
    <3> QED BY <2>2, <3>1
  <2>4. Url!Unsigned(n) = n
    BY <2>3 DEF Url!Unsigned
  <2>5. Url!IsNumber(n)
    BY <1>1, <2>1, <2>4 DEF Url!IsNumber
  <2>6. Url!Counted(n) = Url!Decimal(n) /\ Url!Counted(n) \in Nat
    BY <1>1, <2>2, SameNumber
  <2>7. Url!Atoi(n) = Url!Clipped(Url!Decimal(n)) % 65536
    BY <2>3, <2>4, <2>6 DEF Url!Atoi
  <2>8. \A d \in Nat : Url!Clipped(d) % 65536 = IF d > Url!INT_MAX THEN 65535 ELSE d % 65536
    BY DEF Url!Clipped, Url!INT_MAX
  <2> QED BY <2>5, <2>6, <2>7, <2>8 DEF Port
<1>3. ASSUME \A i \in DOMAIN n : n[i] \notin Url!Range(Url!Digits), n # << >>
      PROVE  Port(n) = 80
  <2>1. \A i \in 1 .. N : n[i] \notin Url!Range(Url!Digits)
    BY <1>1, <1>3
  <2>2. N # 0
    BY <1>3, EmptySeq
  <2>3. ~Url!IsNumber(n)
    <3>1. CASE Url!Signed(n)
      <4>1. N > 1 /\ Url!Unsigned(n) = Tail(n)
        BY <3>1 DEF Url!Signed, Url!Unsigned
      <4>2. /\ Tail(n) \in Seq(S) /\ Len(Tail(n)) = N - 1
            /\ \A i \in 1 .. N - 1 : Tail(n)[i] = n[i + 1]
        BY <1>3, TailQueue
      <4>3. 1 \in 1 .. N - 1 /\ 1 + 1 \in 1 .. N
        BY <1>1, <4>1
      <4>4. 1 \in DOMAIN Tail(n)
        BY <4>2, <4>3, LenProperties
      <4>5. Tail(n)[1] \notin Url!Range(Url!Digits)
        BY <2>1, <4>2, <4>3
      <4> QED BY <4>1, <4>4, <4>5 DEF Url!IsNumber
    <3>2. CASE ~Url!Signed(n)
      <4>1. 1 \in 1 .. N
        BY <1>1, <2>2
      <4> QED BY <1>1, <2>1, <3>2, <4>1 DEF Url!IsNumber, Url!Unsigned
    <3> QED BY <3>1, <3>2
  <2> QED BY <2>3 DEF Port
<1> QED BY <1>2, <1>3 DEF Url!PortExact

LEMMA SuffixIs ==
    ASSUME NEW S, NEW p \in Seq(S), NEW t \in Seq(S)
    PROVE  Url!IsSuffix(p, t) <=> /\ Len(p) <= Len(t)
                                  /\ \A j \in 1 .. Len(p) : t[Len(t) - Len(p) + j] = p[j]
<1> DEFINE P == Len(p)
           T == Len(t)
           rp == Url!Reverse(p)
           rt == Url!Reverse(t)
<1>1. P \in Nat /\ T \in Nat
  BY LenProperties
<1>2. /\ \A j \in 1 .. P : p[j] \in S
      /\ \A j \in 1 .. T : t[j] \in S
  BY ElementOfSeq
<1>3. /\ rp \in Seq(S) /\ Len(rp) = P /\ \A k \in 1 .. P : rp[k] = p[(P - k) + 1]
  <2>1. \A k \in 1 .. P : (P - k) + 1 \in 1 .. P
    BY <1>1
  <2>2. rp = [k \in 1 .. P |-> p[(P - k) + 1]]
    BY DEF Url!Reverse
  <2>3. \A k \in 1 .. P : p[(P - k) + 1] \in S
    BY <1>2, <2>1
  <2> HIDE DEF rp, P
  <2>4. rp \in [1 .. P -> S] /\ \A k \in 1 .. P : rp[k] = p[(P - k) + 1]
    BY <2>2, <2>3
  <2>5. rp \in Seq(S)
    BY <1>1, <2>4, SeqDef
  <2>6. DOMAIN rp = 1 .. P /\ DOMAIN rp = 1 .. Len(rp) /\ Len(rp) \in Nat
    BY <2>4, <2>5, LenProperties
  <2>7. \A a, b \in Nat : 1 .. a = 1 .. b => a = b
    OBVIOUS
  <2> QED BY <1>1, <2>4, <2>5, <2>6, <2>7
<1>4. /\ rt \in Seq(S) /\ Len(rt) = T /\ \A k \in 1 .. T : rt[k] = t[(T - k) + 1]
  <2>1. \A k \in 1 .. T : (T - k) + 1 \in 1 .. T
    BY <1>1
  <2>2. rt = [k \in 1 .. T |-> t[(T - k) + 1]]
    BY DEF Url!Reverse
  <2>3. \A k \in 1 .. T : t[(T - k) + 1] \in S
    BY <1>2, <2>1
  <2> HIDE DEF rt, T
  <2>4. rt \in [1 .. T -> S] /\ \A k \in 1 .. T : rt[k] = t[(T - k) + 1]
    BY <2>2, <2>3
  <2>5. rt \in Seq(S)
    BY <1>1, <2>4, SeqDef
  <2>6. DOMAIN rt = 1 .. T /\ DOMAIN rt = 1 .. Len(rt) /\ Len(rt) \in Nat
    BY <2>4, <2>5, LenProperties
  <2>7. \A a, b \in Nat : 1 .. a = 1 .. b => a = b
    OBVIOUS
  <2> QED BY <1>1, <2>4, <2>5, <2>6, <2>7
<1>5. Url!IsSuffix(p, t) <=> P <= T /\ SubSeq(rp, 1, P) = SubSeq(rt, 1, P)
  BY <1>3, <1>4 DEF Url!IsSuffix, Url!IsPrefix
<1> HIDE DEF P, T, rp, rt
<1>6. ASSUME P <= T
      PROVE  SubSeq(rp, 1, P) = SubSeq(rt, 1, P) <=> \A j \in 1 .. P : t[T - P + j] = p[j]
  <2> DEFINE a == SubSeq(rp, 1, P)
             b == SubSeq(rt, 1, P)
  <2>1. P \in 0 .. P /\ P \in 0 .. T
    BY <1>1, <1>6
  <2>2. a \in Seq(S) /\ Len(a) = P /\ \A k \in 1 .. P : a[k] = rp[k]
    BY <1>3, <2>1, FirstPart
  <2>3. b \in Seq(S) /\ Len(b) = P /\ \A k \in 1 .. P : b[k] = rt[k]
    BY <1>4, <2>1, FirstPart
  <2> HIDE DEF a, b
  <2>4. \A k \in 1 .. P : k \in 1 .. T /\ (P - k) + 1 \in 1 .. P
    BY <1>1, <1>6
  <2>5. \A k \in 1 .. P : a[k] = p[(P - k) + 1] /\ b[k] = t[(T - k) + 1]
    BY <1>3, <1>4, <2>2, <2>3, <2>4
  <2>6. ASSUME a = b, NEW j \in 1 .. P PROVE t[T - P + j] = p[j]
    <3>1. /\ (P - j) + 1 \in 1 .. P /\ (P - ((P - j) + 1)) + 1 = j
          /\ (T - ((P - j) + 1)) + 1 = T - P + j
      BY <1>1
    <3>2. a[(P - j) + 1] = p[j] /\ b[(P - j) + 1] = t[T - P + j]
      BY <2>5, <3>1
    <3> QED BY <2>6, <3>2
  <2>7. ASSUME \A j \in 1 .. P : t[T - P + j] = p[j] PROVE a = b
    <3>1. ASSUME NEW k \in 1 .. P PROVE a[k] = b[k]
      <4>1. (P - k) + 1 \in 1 .. P /\ T - P + ((P - k) + 1) = (T - k) + 1
        BY <1>1
      <4>2. t[(T - k) + 1] = p[(P - k) + 1]
        BY <2>7, <4>1
      <4> QED BY <2>5, <4>2
    <3> QED BY <2>2, <2>3, <3>1, SeqEqual
  <2> QED BY <2>6, <2>7 DEF a, b
<1> QED BY <1>5, <1>6 DEF P, T

(* What a field of a well formed query is.                                 *)
LEMMA FieldIs ==
    ASSUME NEW S, NEW q \in Seq(S), Url!WellFormed(q), NEW f \in Url!Fields(q)
    PROVE  LET e == Url!Min(Url!Equals(q, f)) IN
           /\ f[1] \in Nat /\ f[2] \in Nat /\ e \in Nat
           /\ 1 <= f[1] /\ f[1] < e /\ e < f[2] /\ f[2] <= Len(q) /\ q[e] = "="
           /\ f[1] = 1 \/ q[f[1] - 1] = "&"
           /\ f[2] = Len(q) \/ q[f[2] + 1] = "&"
           /\ \A x \in f[1] .. f[2] : q[x] # "&" /\ (q[x] = "=" => x = e)
           /\ Url!Name(q, f) = SubSeq(q, f[1], e - 1)
           /\ Url!Name(q, f) \in Seq(S) /\ Len(Url!Name(q, f)) = e - f[1]
           /\ \A k \in 1 .. e - f[1] : Url!Name(q, f)[k] = q[f[1] + k - 1]
           /\ Url!Value(q, f) = SubSeq(q, e + 1, f[2])
<1> DEFINE Q == Len(q)
           A == f[1]
           B == f[2]
           E == Url!Equals(q, f)
           e == Url!Min(E)
<1>1. Q \in Nat /\ DOMAIN q = 1 .. Q
  BY LenProperties
<1>2. /\ A \in 1 .. Q + 1 /\ B \in 0 .. Q /\ A <= B + 1
      /\ A - 1 \in {0} \cup Url!At(q, "&") /\ B + 1 \in {Q + 1} \cup Url!At(q, "&")
      /\ Url!At(q, "&") \cap A .. B = {}
  BY DEF Url!Fields
<1>3. Cardinality(E) = 1 /\ Url!Name(q, f) # << >> /\ Url!Value(q, f) # << >>
  BY DEF Url!WellFormed, Url!Cardinality, Cardinality
<1>4. E = Url!At(q, "=") \cap A .. B
  BY DEF Url!Equals
<1>5. Url!Name(q, f) = SubSeq(q, A, e - 1) /\ Url!Value(q, f) = SubSeq(q, e + 1, B)
  BY DEF Url!Name, Url!Value
<1> HIDE DEF A, B, Q, E, e
<1>6. \A c, x : x \in Url!At(q, c) <=> x \in 1 .. Q /\ q[x] = c
  BY <1>1 DEF Url!At
<1>7. A \in Nat /\ B \in Nat /\ 1 <= A /\ A <= B + 1 /\ B <= Q
  BY <1>1, <1>2
<1>8. A = 1 \/ q[A - 1] = "&"
  <2>1. A - 1 = 0 => A = 1
    BY <1>7
  <2> QED BY <1>2, <1>6, <2>1
<1>9. B = Q \/ q[B + 1] = "&"
  <2>1. B + 1 = Q + 1 => B = Q
    BY <1>1, <1>7
  <2> QED BY <1>2, <1>6, <2>1
<1>10. \A x \in A .. B : x \in 1 .. Q
  BY <1>1, <1>7
<1>11. \A x \in A .. B : q[x] # "&"
  BY <1>2, <1>6, <1>10
<1>12. E \subseteq Nat /\ IsFiniteSet(E)
  <2>1. E \subseteq A .. B
    BY <1>4
  <2>2. IsFiniteSet(A .. B)
    <3>1. A \in Int /\ B \in Int
      BY <1>7
    <3> QED BY <3>1, FS_Interval
  <2>3. A .. B \subseteq Nat
    BY <1>7
  <2> QED BY <2>1, <2>2, <2>3, FS_Subset
<1>13. PICK x : E = {x}
  BY <1>3, <1>12, FS_Singleton
<1>14. e = x
  <2>1. e \in E
    BY <1>12, <1>13, MinIs DEF e
  <2> QED BY <1>13, <2>1
<1>15. e \in Nat /\ e \in A .. B /\ q[e] = "=" /\ \A y \in A .. B : q[y] = "=" => y = e
  BY <1>4, <1>6, <1>10, <1>12, <1>13, <1>14
<1>16. A <= e /\ e <= B
  BY <1>7, <1>15
<1>17. A < e
  <2> SUFFICES ASSUME A = e PROVE FALSE
    BY <1>7, <1>15, <1>16
  <2>1. e - 1 < A /\ e - 1 \in Int /\ A \in Int
    BY <1>7
  <2> QED BY <1>3, <1>5, <2>1, SubSeqEmpty
<1>18. e < B
  <2> SUFFICES ASSUME B = e PROVE FALSE
    BY <1>7, <1>15, <1>16
  <2>1. B < e + 1 /\ e + 1 \in Int /\ B \in Int
    BY <1>7
  <2> QED BY <1>3, <1>5, <2>1, SubSeqEmpty
<1>19. /\ SubSeq(q, A, e - 1) \in Seq(S) /\ Len(SubSeq(q, A, e - 1)) = e - A
       /\ \A k \in 1 .. e - A : SubSeq(q, A, e - 1)[k] = q[A + k - 1]
  <2> DEFINE y == e - 1
  <2>1. A \in Nat \ {0} /\ y \in Nat /\ A <= y + 1 /\ y <= Q /\ y - A + 1 = e - A
    BY <1>1, <1>7, <1>15, <1>17, <1>18
  <2> HIDE DEF y
  <2>2. /\ SubSeq(q, A, y) \in Seq(S) /\ Len(SubSeq(q, A, y)) = y - A + 1
        /\ \A k \in 1 .. y - A + 1 : SubSeq(q, A, y)[k] = q[A + k - 1]
    <3>1. y <= Len(q)
      BY <2>1 DEF Q
    <3> QED BY <2>1, <3>1, Piece
  <2> QED BY <2>1, <2>2 DEF y
<1>20. \A y \in A .. B : q[y] # "&" /\ (q[y] = "=" => y = e)
  BY <1>11, <1>15
<1> QED BY <1>5, <1>7, <1>8, <1>9, <1>15, <1>17, <1>18, <1>19, <1>20 DEF A, B, Q, E, e

(* Each character that is no ampersand lies in a field; a field is told by *)
(* where it begins, and of two the one that begins first ends first.       *)
LEMMA FieldOf ==
    ASSUME NEW S, NEW q \in Seq(S), NEW x \in 1 .. Len(q), q[x] # "&"
    PROVE  \E f \in Url!Fields(q) : f[1] <= x /\ x <= f[2]
<1> DEFINE Q == Len(q)
           Ends == {y \in x .. Q : y = Q \/ q[y + 1] = "&"}
           Back == {y \in 0 .. x - 1 : y = 0 \/ q[y] = "&"}
<1>1. Q \in Nat /\ DOMAIN q = 1 .. Q
  BY LenProperties
<1>2. x \in 1 .. Q
  OBVIOUS
<1> HIDE DEF Q
<1>3. PICK b \in Ends : \A y \in Ends : b <= y
  <2>1. Q \in Ends
    BY <1>1, <1>2
  <2>2. Ends \subseteq Nat
    BY <1>1, <1>2
  <2> HIDE DEF Ends
  <2> QED BY <2>1, <2>2, LeastOf
<1>4. PICK a \in Back : \A y \in Back : y <= a
  <2>1. 0 \in Back
    BY <1>1, <1>2
  <2>2. Back \subseteq 0 .. x - 1 /\ x - 1 \in Nat
    BY <1>1, <1>2
  <2> HIDE DEF Back
  <2> QED BY <2>1, <2>2, GreatestOf
<1>5. /\ a \in Nat /\ b \in Nat /\ a < x /\ x <= b /\ b <= Q
      /\ a + 1 \in 1 .. Q + 1 /\ b \in 0 .. Q /\ a + 1 <= b + 1 /\ (a + 1) - 1 = a
      /\ a + 1 <= x
  BY <1>1, <1>2, <1>3, <1>4
<1>6. \A y : y \in Url!At(q, "&") <=> y \in 1 .. Q /\ q[y] = "&"
  BY <1>1 DEF Url!At
<1>7. a \in {0} \cup Url!At(q, "&")
  <2>1. a = 0 \/ q[a] = "&"
    BY <1>4
  <2>2. a # 0 => a \in 1 .. Q
    BY <1>1, <1>5
  <2> QED BY <1>6, <2>1, <2>2
<1>8. b + 1 \in {Q + 1} \cup Url!At(q, "&")
  <2>1. b = Q \/ q[b + 1] = "&"
    BY <1>3
  <2>2. b # Q => b + 1 \in 1 .. Q
    BY <1>1, <1>5
  <2> QED BY <1>6, <2>1, <2>2
<1>9. Url!At(q, "&") \cap (a + 1) .. b = {}
  <2> SUFFICES ASSUME NEW y \in (a + 1) .. b, y \in Url!At(q, "&") PROVE FALSE
    OBVIOUS
  <2>1. q[y] = "&" /\ y \in Nat
    BY <1>5, <1>6
  <2>2. CASE y < x
    <3>1. y \in Back
      BY <1>5, <2>1, <2>2
    <3>2. y <= a
      BY <1>4, <3>1
    <3> QED BY <1>5, <3>2
  <2>3. CASE y > x
    <3>1. y - 1 \in x .. Q /\ (y - 1) + 1 = y
      BY <1>1, <1>2, <1>5, <2>3
    <3>2. y - 1 \in Ends
      BY <2>1, <3>1
    <3>3. b <= y - 1
      BY <1>3, <3>2
    <3> QED BY <1>5, <3>3
  <2>4. y # x
    BY <2>1
  <2> QED BY <1>5, <2>1, <2>2, <2>3, <2>4
<1>10. << a + 1, b >> \in Url!Fields(q)
  <2> DEFINE f == << a + 1, b >>
  <2>1. f[1] = a + 1 /\ f[2] = b /\ f \in (1 .. Q + 1) \X (0 .. Q)
    BY <1>5
  <2> HIDE DEF f
  <2>2. /\ f[1] <= f[2] + 1
        /\ f[1] - 1 \in {0} \cup Url!At(q, "&")
        /\ f[2] + 1 \in {Q + 1} \cup Url!At(q, "&")
        /\ Url!At(q, "&") \cap f[1] .. f[2] = {}
    BY <1>5, <1>7, <1>8, <1>9, <2>1
  <2>3. f \in Url!Fields(q)
    BY <2>1, <2>2, Zenon DEF Url!Fields, Q
  <2> QED BY <2>3 DEF f
<1> QED BY <1>5, <1>10

LEMMA FieldsApart ==
    ASSUME NEW S, NEW q \in Seq(S), Url!WellFormed(q),
           NEW f \in Url!Fields(q), NEW g \in Url!Fields(q)
    PROVE  /\ f[1] < g[1] => f[2] < g[1] - 1
           /\ f[1] = g[1] => f = g
<1> DEFINE e == Url!Min(Url!Equals(q, f))
           d == Url!Min(Url!Equals(q, g))
<1>1. /\ f[1] \in Nat /\ f[2] \in Nat /\ e \in Nat /\ 1 <= f[1] /\ f[1] < e /\ e < f[2]
      /\ f[2] <= Len(q) /\ (f[2] = Len(q) \/ q[f[2] + 1] = "&")
      /\ \A x \in f[1] .. f[2] : q[x] # "&"
  BY FieldIs
<1>2. /\ g[1] \in Nat /\ g[2] \in Nat /\ d \in Nat /\ 1 <= g[1] /\ g[1] < d /\ d < g[2]
      /\ g[2] <= Len(q) /\ (g[2] = Len(q) \/ q[g[2] + 1] = "&")
      /\ (g[1] = 1 \/ q[g[1] - 1] = "&")
      /\ \A x \in g[1] .. g[2] : q[x] # "&"
  BY FieldIs
<1>0. Len(q) \in Nat
  BY LenProperties
<1> HIDE DEF e, d
<1>3. ASSUME f[1] < g[1] PROVE f[2] < g[1] - 1
  <2>1. g[1] # 1 /\ q[g[1] - 1] = "&"
    BY <1>1, <1>2, <1>3
  <2>2. g[1] - 1 \notin f[1] .. f[2]
    BY <1>1, <2>1
  <2> QED BY <1>1, <1>2, <1>3, <2>2
<1>4. ASSUME f[1] = g[1] PROVE f = g
  <2>1. ~(f[2] < g[2])
    <3> SUFFICES ASSUME f[2] < g[2] PROVE FALSE
      OBVIOUS
    <3>1. f[2] # Len(q) /\ q[f[2] + 1] = "&"
      BY <1>0, <1>1, <1>2
    <3>2. f[2] + 1 \in g[1] .. g[2]
      BY <1>1, <1>2, <1>4
    <3> QED BY <1>2, <3>1, <3>2
  <2>2. ~(g[2] < f[2])
    <3> SUFFICES ASSUME g[2] < f[2] PROVE FALSE
      OBVIOUS
    <3>1. g[2] # Len(q) /\ q[g[2] + 1] = "&"
      BY <1>0, <1>1, <1>2
    <3>2. g[2] + 1 \in f[1] .. f[2]
      BY <1>1, <1>2, <1>4
    <3> QED BY <1>1, <3>1, <3>2
  <2>3. f[2] = g[2]
    BY <1>1, <1>2, <2>1, <2>2
  <2>4. f \in (1 .. Len(q) + 1) \X (0 .. Len(q)) /\ g \in (1 .. Len(q) + 1) \X (0 .. Len(q))
    BY DEF Url!Fields
  <2>5. f = << f[1], f[2] >> /\ g = << g[1], g[2] >>
    BY <2>4
  <2> QED BY <1>4, <2>3, <2>5, Zenon
<1> QED BY <1>3, <1>4

(* Where the code finds "p=": q reads p from offset k on, then "=".        *)
Match(q, p, k) ==
    /\ k \in 0 .. Len(q) - Len(p) - 2
    /\ \A j \in 1 .. Len(p) : q[k + j] = p[j]
    /\ q[k + Len(p) + 1] = "="

LEMMA MatchIs ==
    ASSUME NEW S, NEW q \in Seq(S), NEW p \in Seq(S), NEW k
    PROVE  k \in Url!Occurrences(q, Append(p, "=")) <=> Match(q, p, k)
<1> DEFINE P == Len(p)
           Q == Len(q)
           R == S \cup {"="}
           w == Append(p, "=")
<1>1. P \in Nat /\ Q \in Nat
  BY LenProperties
<1>2. p \in Seq(R) /\ q \in Seq(R) /\ "=" \in R
  <2>1. \A i \in 1 .. Len(p) : p[i] \in R
    BY ElementOfSeq
  <2>2. \A i \in 1 .. Len(q) : q[i] \in R
    BY ElementOfSeq
  <2>3. p \in Seq(R) /\ q \in Seq(R)
    <3>1. p = [i \in 1 .. Len(p) |-> p[i]] /\ q = [i \in 1 .. Len(q) |-> q[i]]
      BY LenProperties
    <3> HIDE DEF R
    <3>2. p \in [1 .. Len(p) -> R] /\ q \in [1 .. Len(q) -> R]
      BY <2>1, <2>2, <3>1
    <3> QED BY <1>1, <3>2, SeqDef
  <2> QED BY <2>3
<1> HIDE DEF R
<1>3. w \in Seq(R) /\ Len(w) = P + 1 /\ (\A i \in 1 .. P : w[i] = p[i]) /\ w[P + 1] = "="
  BY <1>2, AppendQueue
<1>4. k \in Url!Occurrences(q, w) <=>
          k \in 0 .. Q - 1 - (P + 1) /\ SubSeq(q, k + 1, k + (P + 1)) = w
  BY <1>3 DEF Url!Occurrences, Url!Chunk
<1> HIDE DEF P, Q, w
<1>5. \A n : n \in 0 .. Q - 1 - (P + 1) <=> n \in 0 .. Q - P - 2
  BY <1>1
<1>6. ASSUME k \in 0 .. Q - P - 2
      PROVE  SubSeq(q, k + 1, k + (P + 1)) = w <=> /\ \A j \in 1 .. P : q[k + j] = p[j]
                                                   /\ q[k + P + 1] = "="
  <2> DEFINE x == k + 1
             y == k + (P + 1)
             c == SubSeq(q, x, y)
  <2>1. /\ x \in Nat \ {0} /\ y \in Nat /\ x <= y + 1 /\ y <= Q /\ y - x + 1 = P + 1
        /\ \A j \in 1 .. P + 1 : x + j - 1 = k + j
    BY <1>1, <1>6
  <2>2. c \in Seq(R) /\ Len(c) = y - x + 1 /\ \A j \in 1 .. y - x + 1 : c[j] = q[x + j - 1]
    <3> HIDE DEF x, y
    <3>1. y <= Len(q)
      BY <2>1 DEF Q
    <3> QED BY <1>2, <2>1, <3>1, Piece
  <2> HIDE DEF x, y, c
  <2>3. Len(c) = P + 1 /\ \A j \in 1 .. P + 1 : c[j] = q[k + j]
    BY <2>1, <2>2
  <2>4. /\ \A j \in 1 .. P : j \in 1 .. P + 1
        /\ \A j \in 1 .. P + 1 : j \in 1 .. P \/ j = P + 1
        /\ P + 1 \in 1 .. P + 1 /\ k + (P + 1) = k + P + 1
    BY <1>1, <1>6
  <2>5. ASSUME c = w
        PROVE  (\A j \in 1 .. P : q[k + j] = p[j]) /\ q[k + P + 1] = "="
    BY <1>3, <2>3, <2>4, <2>5
  <2>6. ASSUME \A j \in 1 .. P : q[k + j] = p[j], q[k + P + 1] = "="
        PROVE  c = w
    <3>1. \A j \in 1 .. P + 1 : c[j] = w[j]
      BY <1>3, <2>3, <2>4, <2>6
    <3> QED BY <1>3, <2>2, <2>3, <3>1, SeqEqual
  <2> QED BY <2>5, <2>6 DEF x, y, c
<1> QED BY <1>4, <1>5, <1>6 DEF Match, P, Q, w

(* The match and the field it lies in.                                     *)
Asked(q, p) ==
    /\ q \in Seq(Chars) /\ q # << >> /\ q[Len(q)] # "&" /\ Url!WellFormed(q)
    /\ p \in Seq(Chars) /\ p # << >> /\ \A j \in 1 .. Len(p) : p[j] \notin {"&", "="}

LEMMA NamedMatches ==
    ASSUME NEW q, NEW p, Asked(q, p), NEW f \in Url!Named(q, p)
    PROVE  Match(q, p, f[1] - 1)
<1> DEFINE e == Url!Min(Url!Equals(q, f))
           P == Len(p)
<1>1. f \in Url!Fields(q) /\ Url!Name(q, f) = p
  BY DEF Url!Named
<1>2. /\ f[1] \in Nat /\ f[2] \in Nat /\ e \in Nat
      /\ 1 <= f[1] /\ f[1] < e /\ e < f[2] /\ f[2] <= Len(q) /\ q[e] = "="
      /\ P = e - f[1]
      /\ \A k \in 1 .. e - f[1] : p[k] = q[f[1] + k - 1]
  <2>1. q \in Seq(Chars) /\ Url!WellFormed(q)
    BY DEF Asked
  <2> QED BY <1>1, <2>1, FieldIs
<1>3. Len(q) \in Nat
  BY LenProperties DEF Asked
<1> HIDE DEF e, P
<1>4. f[1] - 1 \in 0 .. Len(q) - P - 2
  <2>1. /\ f[1] \in Nat /\ f[2] \in Nat /\ e \in Nat /\ 1 <= f[1] /\ f[1] < e /\ e < f[2]
        /\ f[2] <= Len(q) /\ P = e - f[1]
    BY <1>2
  <2>2. \A a, b, c, n \in Nat : 1 <= a /\ a < c /\ c < b /\ b <= n => a - 1 \in 0 .. n - (c - a) - 2
    OBVIOUS
  <2> QED BY <1>3, <2>1, <2>2
<1>5. \A j \in 1 .. P : q[(f[1] - 1) + j] = p[j]
  <2>1. \A j \in 1 .. P : (f[1] - 1) + j = f[1] + j - 1
    BY <1>2
  <2> QED BY <1>2, <2>1
<1>6. (f[1] - 1) + P + 1 = e
  BY <1>2
<1>7. q[(f[1] - 1) + P + 1] = "="
  BY <1>2, <1>6
<1> QED BY <1>4, <1>5, <1>7 DEF Match, P

LEMMA SuffixMatches ==
    ASSUME NEW q, NEW p, Asked(q, p), NEW g \in Url!Fields(q), Url!IsStrictSuffix(p, Url!Name(q, g))
    PROVE  \E k : Match(q, p, k) /\ k < g[2]
<1> DEFINE e == Url!Min(Url!Equals(q, g))
           P == Len(p)
           N == Url!Name(q, g)
           k == e - P - 1
<1>0. q \in Seq(Chars) /\ Url!WellFormed(q) /\ p \in Seq(Chars)
  BY DEF Asked
<1>1. Len(q) \in Nat /\ P \in Nat
  BY <1>0, LenProperties
<1>2. /\ g[1] \in Nat /\ g[2] \in Nat /\ e \in Nat
      /\ 1 <= g[1] /\ g[1] < e /\ e < g[2] /\ g[2] <= Len(q) /\ q[e] = "="
      /\ N \in Seq(Chars) /\ Len(N) = e - g[1]
      /\ \A x \in 1 .. e - g[1] : N[x] = q[g[1] + x - 1]
  BY <1>0, FieldIs
<1>3. P <= Len(N) /\ \A j \in 1 .. P : N[Len(N) - P + j] = p[j]
  <2> HIDE DEF N, e
  <2>1. Url!IsSuffix(p, N)
    BY DEF Url!IsStrictSuffix, N
  <2> QED BY <1>0, <1>2, <2>1, SuffixIs
<1> DEFINE T == Len(N)
<1> HIDE DEF e, P, N, T
<1>9. /\ P \in Nat /\ T \in Nat /\ g[1] \in Nat /\ e \in Nat /\ T = e - g[1] /\ P <= T
  BY <1>1, <1>2, <1>3 DEF T
<1>4. k \in 0 .. Len(q) - P - 2 /\ k < g[2] /\ k + P + 1 = e
  BY <1>1, <1>2, <1>3
<1>5. \A j \in 1 .. P : q[k + j] = p[j]
  <2> SUFFICES ASSUME NEW j \in 1 .. P PROVE q[k + j] = p[j]
    OBVIOUS
  <2>1. T - P + j \in 1 .. e - g[1] /\ g[1] + (T - P + j) - 1 = k + j
    BY <1>9
  <2>2. N[T - P + j] = q[g[1] + (T - P + j) - 1]
    BY <1>2, <2>1
  <2> QED BY <1>3, <2>1, <2>2 DEF T
<1>6. q[k + P + 1] = "="
  BY <1>2, <1>4
<1>7. Match(q, p, k)
  BY <1>4, <1>5, <1>6 DEF Match, P
<1> QED BY <1>4, <1>7

LEMMA MatchField ==
    ASSUME NEW q, NEW p, Asked(q, p), NEW k, Match(q, p, k)
    PROVE  \E f \in Url!Fields(q) :
               /\ f[1] <= k + 1 /\ k < f[2]
               /\ Url!Min(Url!Equals(q, f)) = k + Len(p) + 1
               /\ f[1] = k + 1 <=> k = 0 \/ q[k] = "&"
               /\ f[1] = k + 1 => f \in Url!Named(q, p)
               /\ f[1] # k + 1 => Url!IsStrictSuffix(p, Url!Name(q, f))
<1> DEFINE P == Len(p)
           Q == Len(q)
           e == k + P + 1
<1>0. q \in Seq(Chars) /\ Url!WellFormed(q) /\ p \in Seq(Chars)
  BY DEF Asked
<1>1. P \in Nat /\ Q \in Nat /\ \A j \in 1 .. P : p[j] \notin {"&", "="}
  BY <1>0, LenProperties DEF Asked
<1>2. k \in 0 .. Q - P - 2 /\ (\A j \in 1 .. P : q[k + j] = p[j]) /\ q[e] = "="
  BY DEF Match
<1>3. e \in 1 .. Q
  BY <1>1, <1>2
<1>4. P # 0
  BY <1>0, EmptySeq DEF Asked
<1> HIDE DEF P, Q, e
<1>5. PICK f \in Url!Fields(q) : f[1] <= e /\ e <= f[2]
  <2>1. e \in 1 .. Len(q) /\ q[e] # "&"
    BY <1>2, <1>3 DEF Q
  <2> QED BY <1>0, <2>1, FieldOf
<1> DEFINE N == Url!Name(q, f)
           d == Url!Min(Url!Equals(q, f))
<1>6. /\ f[1] \in Nat /\ f[2] \in Nat /\ d \in Nat
      /\ 1 <= f[1] /\ f[1] < d /\ d < f[2] /\ f[2] <= Q
      /\ (f[1] = 1 \/ q[f[1] - 1] = "&")
      /\ \A x \in f[1] .. f[2] : q[x] # "&" /\ (q[x] = "=" => x = d)
      /\ N = SubSeq(q, f[1], d - 1)
      /\ N \in Seq(Chars) /\ Len(N) = d - f[1]
      /\ \A x \in 1 .. d - f[1] : N[x] = q[f[1] + x - 1]
  BY <1>0, FieldIs DEF Q
<1> HIDE DEF N, d
<1>7. d = e /\ e = k + P + 1 /\ k \in Nat
  <2>1. e \in f[1] .. f[2]
    BY <1>3, <1>5, <1>6
  <2>2. d = e
    BY <1>2, <1>6, <2>1
  <2> QED BY <1>2, <2>2 DEF e
<1> DEFINE T == Len(N)
           A == f[1]
           B == f[2]
<1>13. /\ P \in Nat /\ T \in Nat /\ A \in Nat /\ B \in Nat /\ k \in Nat
       /\ 1 <= A /\ A < k + P + 1 /\ k + P + 1 < B /\ T = (k + P + 1) - A
  BY <1>1, <1>6, <1>7
<1> HIDE DEF T, A, B
<1>8. f[1] <= k + 1
  <2> SUFFICES ASSUME f[1] > k + 1 PROVE FALSE
    BY <1>6, <1>7
  <2>1. q[f[1] - 1] = "&"
    BY <1>6, <1>7
  <2>2. (f[1] - 1) - k \in 1 .. P /\ k + ((f[1] - 1) - k) = f[1] - 1
    <3>1. A > k + 1
      BY DEF A
    <3>2. (A - 1) - k \in 1 .. P /\ k + ((A - 1) - k) = A - 1
      BY <1>13, <3>1
    <3> QED BY <3>2 DEF A
  <2>3. q[f[1] - 1] = p[(f[1] - 1) - k]
    BY <1>2, <2>2
  <2> QED BY <1>1, <2>1, <2>2, <2>3
<1>9. f[1] = k + 1 <=> k = 0 \/ q[k] = "&"
  <2>1. ASSUME f[1] = k + 1 PROVE k = 0 \/ q[k] = "&"
    <3>1. f[1] - 1 = k /\ (f[1] = 1 => k = 0)
      BY <1>7, <2>1
    <3> QED BY <1>6, <3>1
  <2>2. ASSUME k = 0 PROVE f[1] = k + 1
    BY <1>6, <1>8, <2>2
  <2>3. ASSUME q[k] = "&", f[1] # k + 1 PROVE FALSE
    <3>1. k \in f[1] .. f[2]
      <4>1. A <= k + 1 /\ A # k + 1
        BY <1>8, <2>3 DEF A
      <4>2. k \in A .. B
        BY <1>13, <4>1
      <4> QED BY <4>2 DEF A, B
    <3> QED BY <1>6, <2>3, <3>1
  <2> QED BY <2>1, <2>2, <2>3
<1>10. ASSUME f[1] = k + 1 PROVE f \in Url!Named(q, p)
  <2>1. Len(N) = P
    BY <1>1, <1>6, <1>7, <1>10
  <2>2. \A j \in 1 .. P : j \in 1 .. d - f[1] /\ f[1] + j - 1 = k + j
    BY <1>1, <1>6, <1>7, <1>10
  <2>3. \A j \in 1 .. P : N[j] = p[j]
    BY <1>2, <1>6, <2>2
  <2>4. N = p
    <3>1. Len(p) = Len(N) /\ \A j \in 1 .. Len(N) : N[j] = p[j]
      BY <2>1, <2>3 DEF P
    <3> QED BY <1>0, <1>6, <3>1, SeqEqual
  <2> QED BY <2>4 DEF Url!Named, N
<1>11. ASSUME f[1] # k + 1 PROVE Url!IsStrictSuffix(p, N)
  <2>1. P < T
    <3>1. A <= k + 1 /\ A # k + 1
      BY <1>8, <1>11 DEF A
    <3> QED BY <1>13, <3>1
  <2>2. \A j \in 1 .. P : T - P + j \in 1 .. d - A /\ A + (T - P + j) - 1 = k + j
    <3>1. d = k + P + 1
      BY <1>7
    <3> QED BY <1>13, <2>1, <3>1
  <2>3. \A j \in 1 .. P : N[T - P + j] = p[j]
    <3> SUFFICES ASSUME NEW j \in 1 .. P PROVE N[T - P + j] = p[j]
      OBVIOUS
    <3>1. N[T - P + j] = q[A + (T - P + j) - 1]
      BY <1>6, <2>2 DEF A
    <3> QED BY <1>2, <2>2, <3>1
  <2>4. Url!IsSuffix(p, N)
    <3>1. P <= T
      BY <1>13, <2>1
    <3>2. Len(p) <= Len(N) /\ \A j \in 1 .. Len(p) : N[Len(N) - Len(p) + j] = p[j]
      BY <2>3, <3>1, Zenon DEF P, T
    <3> QED BY <1>0, <1>6, <3>2, SuffixIs
  <2>5. p # N
    <3>1. P # T
      BY <1>13, <2>1
    <3> QED BY <3>1 DEF P, T
  <2> QED BY <2>4, <2>5 DEF Url!IsStrictSuffix
<1>12. k < f[2]
  <2>1. k < B
    BY <1>13
  <2> QED BY <2>1 DEF B
<1> QED BY <1>7, <1>8, <1>9, <1>10, <1>11, <1>12 DEF N, d, P

(* The value of a field reaches to the ampersand behind it.                *)
LEMMA ValueFound ==
    ASSUME NEW q, NEW p, Asked(q, p), NEW f \in Url!Fields(q)
    PROVE  LET value == Url!From(q, Url!Min(Url!Equals(q, f)))
               end == Url!FindStr(value, << "&" >>)
           IN  /\ end < 0 => value = Url!Value(q, f)
               /\ ~(end < 0) => Url!Chunk(value, 0, end) = Url!Value(q, f)
<1> DEFINE Q == Len(q)
           e == Url!Min(Url!Equals(q, f))
           v == Url!From(q, e)
           end == Url!FindStr(v, << "&" >>)
<1>0. q \in Seq(Chars) /\ Url!WellFormed(q) /\ q[Q] # "&"
  BY DEF Asked
<1>1. Q \in Nat
  BY <1>0, LenProperties
<1>2. /\ f[1] \in Nat /\ f[2] \in Nat /\ e \in Nat
      /\ 1 <= f[1] /\ f[1] < e /\ e < f[2] /\ f[2] <= Q
      /\ (f[2] = Q \/ q[f[2] + 1] = "&")
      /\ \A x \in f[1] .. f[2] : q[x] # "&"
      /\ Url!Value(q, f) = SubSeq(q, e + 1, f[2])
  BY <1>0, FieldIs
<1>3. v = SubSeq(q, e + 1, Q)
  BY DEF Url!From, Url!Chunk
<1> HIDE DEF Q, e, v, end
<1>4. /\ v \in Seq(Chars) /\ Len(v) = Q - e /\ DOMAIN v = 1 .. Q - e
      /\ \A k \in 1 .. Q - e : v[k] = q[k + e]
  <2>1. e \in 0 .. Len(q)
    BY <1>1, <1>2 DEF Q
  <2> QED BY <1>0, <1>3, <2>1, LastPart DEF Q
<1>5. \A k : k \in Url!At(v, "&") <=> k \in 1 .. Q - e /\ q[k + e] = "&"
  BY <1>4 DEF Url!At
<1>6. v[Len(v)] # "&"
  <2>1. Q - e \in 1 .. Q - e /\ (Q - e) + e = Q
    BY <1>1, <1>2
  <2> QED BY <1>0, <1>4, <2>1
<1>7. CASE Url!At(v, "&") = {} /\ end = -1
  <2>1. f[2] = Q
    <3> SUFFICES ASSUME f[2] # Q PROVE FALSE
      OBVIOUS
    <3>1. q[f[2] + 1] = "&" /\ (f[2] + 1) - e \in 1 .. Q - e /\ ((f[2] + 1) - e) + e = f[2] + 1
      BY <1>1, <1>2
    <3> QED BY <1>5, <1>7, <3>1
  <2> QED BY <1>2, <1>3, <1>7, <2>1 DEF v, e, end
<1>8. CASE /\ end \in 0 .. Len(v) - 2 /\ end + 1 \in Url!At(v, "&")
           /\ \A k \in Url!At(v, "&") : end + 1 <= k
  <2>0. end + 1 \in 1 .. Q - e /\ q[(end + 1) + e] = "&"
    BY <1>5, <1>8
  <2>1. end \in Nat /\ end + 1 \in 1 .. Q - e /\ q[(end + 1) + e] = "&" /\ end <= Q - e
    <3>1. end \in Nat
      BY <1>8
    <3>2. Q - e \in Int
      BY <1>1, <1>2
    <3> QED BY <2>0, <3>1, <3>2
  <2>2. (end + 1) + e \notin f[1] .. f[2]
    BY <1>2, <2>1
  <2>3. (end + 1) + e > f[2] /\ f[2] # Q
    BY <1>1, <1>2, <2>1, <2>2
  <2>4. q[f[2] + 1] = "&" /\ (f[2] + 1) - e \in 1 .. Q - e /\ ((f[2] + 1) - e) + e = f[2] + 1
    BY <1>1, <1>2, <2>3
  <2>5. (f[2] + 1) - e \in Url!At(v, "&")
    BY <1>5, <2>4
  <2>6. end + 1 <= (f[2] + 1) - e
    BY <1>8, <2>5
  <2>7. end + e = f[2] /\ end \in Nat
    BY <1>2, <2>1, <2>3, <2>6
  <2>8. Url!Chunk(v, 0, end) = SubSeq(q, e + 1, f[2])
    <3> DEFINE x == e + 1
    <3>1. /\ x \in Nat \ {0} /\ Q \in Int /\ 1 \in Nat \ {0} /\ end \in Int
          /\ end <= Q - x + 1 /\ x = x + 1 - 1 /\ f[2] = x + end - 1 /\ 0 + 1 = 1
      BY <1>1, <1>2, <2>1, <2>7
    <3>2. Q <= Len(q)
      BY <1>1 DEF Q
    <3> HIDE DEF x
    <3>3. SubSeq(SubSeq(q, x, Q), 1, end) = SubSeq(q, x, f[2])
      BY <1>0, <3>1, <3>2, PartOfPartIs
    <3> QED BY <1>3, <3>1, <3>3 DEF Url!Chunk, x
  <2> QED BY <1>2, <2>1, <2>8 DEF v, e, end
<1> QED BY <1>4, <1>6, <1>7, <1>8, FindChar DEF end

(* What the search for "p=" in a query comes to.                           *)
LEMMA Sought ==
    ASSUME NEW q, NEW p, Asked(q, p)
    PROVE  LET start == Url!FindStr(q, Append(p, "="))
               value == Url!From(q, start + Len(p) + 1)
               end   == Url!FindStr(value, << "&" >>)
               given  == IF Url!Named(q, p) = {} \/ Url!Shadowed(q, p) THEN << >>
                        ELSE Url!Value(q, Url!First(q, p))
           IN  /\ start < 0 => given = << >>
               /\ start >= 0 => start \in Nat /\ start < Len(q)
               /\ start >= 0 /\ start # 0 /\ q[start] # "&" => given = << >>
               /\ start >= 0 /\ (start = 0 \/ q[start] = "&") =>
                      given = IF end < 0 THEN value ELSE Url!Chunk(value, 0, end)
<1> DEFINE start == Url!FindStr(q, Append(p, "="))
           value == Url!From(q, start + Len(p) + 1)
           end   == Url!FindStr(value, << "&" >>)
           given  == IF Url!Named(q, p) = {} \/ Url!Shadowed(q, p) THEN << >>
                    ELSE Url!Value(q, Url!First(q, p))
<1>0. q \in Seq(Chars) /\ Url!WellFormed(q) /\ p \in Seq(Chars)
  BY DEF Asked
<1>1. Len(q) \in Nat /\ Len(p) \in Nat
  BY <1>0, LenProperties
<1>2. \/ /\ start = -1 /\ \A k : ~Match(q, p, k)
      \/ /\ start \in Nat /\ Match(q, p, start)
         /\ \A k : Match(q, p, k) => start <= k
  <2>1. Append(p, "=") \in Seq(Chars \cup {"="}) /\ Len(Append(p, "=")) \in Nat
    <3>1. p \in Seq(Chars \cup {"="})
      BY <1>0, Wider
    <3> QED BY <3>1, AppendProperties, LenProperties
  <2> DEFINE w == Append(p, "=")
  <2>2. \A k : k \in Url!Occurrences(q, w) <=> Match(q, p, k)
    BY <1>0, MatchIs
  <2> HIDE DEF w
  <2>3. \/ Url!Occurrences(q, w) = {} /\ Url!FindStr(q, w) = -1
        \/ /\ Url!FindStr(q, w) \in Url!Occurrences(q, w)
           /\ Url!FindStr(q, w) \in Nat
           /\ \A k \in Url!Occurrences(q, w) : Url!FindStr(q, w) <= k
    BY <1>0, <2>1, FindIs DEF w
  <2> QED BY <2>2, <2>3 DEF w
<1>3. \A f \in Url!Named(q, p) : f \in Url!Fields(q) /\ Match(q, p, f[1] - 1)
  BY NamedMatches DEF Url!Named
<1>4. \A f \in Url!Fields(q) : f[1] \in Nat /\ f[2] \in Nat
  BY <1>0, FieldIs
<1> HIDE DEF start
<1>5. CASE start = -1 /\ \A k : ~Match(q, p, k)
  <2>1. Url!Named(q, p) = {}
    BY <1>3, <1>5
  <2> QED BY <1>5, <2>1 DEF start
<1>6. CASE start \in Nat /\ Match(q, p, start) /\ \A k : Match(q, p, k) => start <= k
  <2>1. start >= 0 /\ ~(start < 0) /\ start < Len(q)
    <3>1. start \in 0 .. Len(q) - Len(p) - 2
      BY <1>6 DEF Match
    <3> QED BY <1>1, <1>6, <3>1
  <2>2. PICK h \in Url!Fields(q) :
               /\ h[1] <= start + 1 /\ start < h[2]
               /\ Url!Min(Url!Equals(q, h)) = start + Len(p) + 1
               /\ h[1] = start + 1 <=> start = 0 \/ q[start] = "&"
               /\ h[1] = start + 1 => h \in Url!Named(q, p)
               /\ h[1] # start + 1 => Url!IsStrictSuffix(p, Url!Name(q, h))
    BY <1>6, MatchField
  <2>3. \A f \in Url!Named(q, p) : start + 1 <= f[1]
    <3> SUFFICES ASSUME NEW f \in Url!Named(q, p) PROVE start + 1 <= f[1]
      OBVIOUS
    <3>1. start <= f[1] - 1 /\ f[1] \in Nat
      BY <1>3, <1>4, <1>6
    <3> QED BY <1>6, <3>1
  <2>4. CASE h[1] # start + 1
    <3>1. h[1] < start + 1 /\ h[1] \in Nat
      BY <1>4, <1>6, <2>2, <2>4
    <3>2. \A f \in Url!Named(q, p) : h[1] < f[1]
      <4> SUFFICES ASSUME NEW f \in Url!Named(q, p) PROVE h[1] < f[1]
        OBVIOUS
      <4>1. start + 1 <= f[1] /\ f[1] \in Nat
        BY <1>3, <1>4, <2>3
      <4> QED BY <1>6, <3>1, <4>1
    <3>3. Url!Shadowed(q, p)
      BY <2>2, <2>4, <3>2 DEF Url!Shadowed
    <3>4. given = << >> /\ ~(start = 0 \/ q[start] = "&")
      BY <2>2, <2>4, <3>3
    <3> HIDE DEF given, value, end
    <3> QED BY <1>6, <2>1, <3>4 DEF start, given, value, end
  <2>5. CASE h[1] = start + 1
    <3>1. h \in Url!Named(q, p) /\ (start = 0 \/ q[start] = "&")
      BY <2>2, <2>5
    <3>2. \A f \in Url!Named(q, p) : h[1] <= f[1]
      BY <2>3, <2>5
    <3>3. ~Url!Shadowed(q, p)
      <4> SUFFICES ASSUME NEW g \in Url!Fields(q), Url!IsStrictSuffix(p, Url!Name(q, g)),
                          g[1] < h[1]
                   PROVE  FALSE
        BY <3>1 DEF Url!Shadowed
      <4>1. PICK k : Match(q, p, k) /\ k < g[2]
        BY SuffixMatches
      <4>2. g[2] < h[1] - 1
        BY <1>0, FieldsApart
      <4>3. start <= k /\ k \in Nat
        <5>1. k \in 0 .. Len(q) - Len(p) - 2
          BY <4>1 DEF Match
        <5> QED BY <1>6, <4>1, <5>1
      <4>4. h[1] - 1 = start /\ g[2] \in Nat
        BY <1>4, <1>6, <2>5
      <4> QED BY <1>6, <4>1, <4>2, <4>3, <4>4
    <3>4. Url!First(q, p) = h
      <4> DEFINE P(f) == \A g \in Url!Named(q, p) : f[1] <= g[1]
      <4>1. \E f \in Url!Named(q, p) : P(f)
        BY <3>1, <3>2
      <4>2. Url!First(q, p) = CHOOSE f \in Url!Named(q, p) : P(f)
        BY DEF Url!First
      <4> HIDE DEF P
      <4>3. Url!First(q, p) \in Url!Named(q, p) /\ P(Url!First(q, p))
        BY <4>1, <4>2
      <4> DEFINE x == Url!First(q, p)
      <4>4. x \in Url!Fields(q) /\ x[1] <= h[1] /\ h[1] <= x[1]
        BY <1>3, <3>1, <3>2, <4>3 DEF P
      <4> HIDE DEF x
      <4>5. x[1] = h[1]
        <5>1. x[1] \in Nat /\ h[1] \in Nat
          BY <1>4, <4>4
        <5> QED BY <4>4, <5>1
      <4>6. x = h
        BY <1>0, <4>4, <4>5, FieldsApart
      <4> QED BY <4>6 DEF x
    <3>5. given = Url!Value(q, h)
      BY <3>1, <3>3, <3>4
    <3>6. value = Url!From(q, Url!Min(Url!Equals(q, h)))
      BY <2>2
    <3>7. /\ end < 0 => value = Url!Value(q, h)
          /\ ~(end < 0) => Url!Chunk(value, 0, end) = Url!Value(q, h)
      BY <3>6, ValueFound
    <3> HIDE DEF given, value, end
    <3>8. given = IF end < 0 THEN value ELSE Url!Chunk(value, 0, end)
      BY <3>5, <3>7
    <3> QED BY <1>6, <2>1, <3>1, <3>8 DEF start, given, value, end
  <2> QED BY <2>4, <2>5
<1> QED BY <1>2, <1>5, <1>6 DEF start

(* Where the uri of a regular URL has its question mark.                   *)
LEMMA MarkIs ==
    ASSUME NEW u, NEW i, NEW s, Shape(u, i, s)
    PROVE  LET e == SubSeq(u, s + 1, Len(u)) IN
           \/ /\ Url!At(u, "?") = {} /\ Url!FindStr(e, << "?" >>) = -1 /\ Url!Path(u) = e
           \/ \E n \in Nat :
                /\ Url!At(u, "?") # {} /\ Url!FindStr(e, << "?" >>) = n
                /\ s + n + 1 < Len(u) /\ u[s + n + 1] = "?"
                /\ \A k \in s + n + 2 .. Len(u) : u[k] # "?"
                /\ Url!Path(u) = Url!Chunk(e, 0, n)
                /\ Url!Query(u) = Url!From(e, n + 1)
                /\ Url!Query(u) = SubSeq(u, s + n + 2, Len(u))
<1> DEFINE L == Len(u)
           e == SubSeq(u, s + 1, L)
<1>1. L \in Nat /\ s \in Nat /\ s < L
  BY ShapeNums
<1>2. u \in Seq(Chars) /\ u[L] # "?" /\ Url!Slash(u) = s /\ DOMAIN u = 1 .. L
  BY ShapeIs DEF Shape
<1>3. /\ \A m \in Url!At(u, "?") : s < m
      /\ \A m, n \in Url!At(u, "?") : m = n
  BY DEF Shape
<1>4. /\ e \in Seq(Chars) /\ Len(e) = L - s /\ DOMAIN e = 1 .. L - s
      /\ \A k \in 1 .. L - s : e[k] = u[k + s]
  <2>1. s \in 0 .. Len(u)
    BY <1>1
  <2> QED BY <1>2, <2>1, LastPart
<1>5. \A m : m \in Url!At(u, "?") <=> m \in 1 .. L /\ u[m] = "?"
  BY <1>2 DEF Url!At
<1>6. \A k : k \in Url!At(e, "?") <=> k \in 1 .. L - s /\ u[k + s] = "?"
  <2> HIDE DEF e
  <2> QED BY <1>4 DEF Url!At
<1> HIDE DEF e, L
<1>7. e[Len(e)] # "?"
  <2>1. L - s \in 1 .. L - s /\ (L - s) + s = L
    BY <1>1
  <2> QED BY <1>2, <1>4, <2>1
<1>8. CASE Url!At(e, "?") = {} /\ Url!FindStr(e, << "?" >>) = -1
  <2>1. Url!At(u, "?") = {}
    <3> SUFFICES ASSUME NEW m \in Url!At(u, "?") PROVE FALSE
      OBVIOUS
    <3>1. m \in 1 .. L /\ u[m] = "?" /\ s < m
      BY <1>3, <1>5
    <3>2. m - s \in 1 .. L - s /\ (m - s) + s = m
      BY <1>1, <3>1
    <3> QED BY <1>6, <1>8, <3>1, <3>2
  <2>2. Url!Path(u) = e
    <3>1. Url!Mark(u) = L + 1 /\ (L + 1) - 1 = L
      BY <1>1, <2>1 DEF Url!Mark, L
    <3> QED BY <1>2, <3>1 DEF Url!Path, e
  <2> QED BY <1>8, <2>1, <2>2 DEF e, L
<1>9. CASE /\ Url!FindStr(e, << "?" >>) \in 0 .. Len(e) - 2
           /\ Url!FindStr(e, << "?" >>) + 1 \in Url!At(e, "?")
  <2> DEFINE n == Url!FindStr(e, << "?" >>)
             m == s + n + 1
  <2>1. n \in Nat /\ n + 1 \in 1 .. L - s /\ u[(n + 1) + s] = "?"
    BY <1>4, <1>6, <1>9
  <2>10. n <= L - s - 2
    BY <1>1, <1>4, <1>9
  <2> HIDE DEF n
  <2>2. /\ (n + 1) + s = m /\ m \in 1 .. L /\ m < L /\ m - 1 = s + n /\ m + 1 = s + n + 2
    BY <1>1, <2>1, <2>10
  <2>3. m \in Url!At(u, "?")
    BY <1>5, <2>1, <2>2
  <2>4. Url!Mark(u) = m
    <3>1. Url!At(u, "?") \subseteq Nat
      BY <1>1, <1>5
    <3>2. Url!Min(Url!At(u, "?")) \in Url!At(u, "?")
      BY <2>3, <3>1, MinIs
    <3>3. Url!Min(Url!At(u, "?")) = m
      BY <1>3, <2>3, <3>2
    <3> HIDE DEF m
    <3> QED BY <2>3, <3>3 DEF Url!Mark
  <2>5. \A k \in s + n + 2 .. L : u[k] # "?"
    <3> SUFFICES ASSUME NEW k \in s + n + 2 .. L, u[k] = "?" PROVE FALSE
      OBVIOUS
    <3>1. k \in 1 .. L /\ k # m
      BY <1>1, <2>1, <2>2
    <3> QED BY <1>3, <1>5, <2>3, <3>1
  <2>6. Url!Path(u) = Url!Chunk(e, 0, n)
    <3> DEFINE x == s + 1
               y == s + n
    <3>1. Url!Path(u) = SubSeq(u, x, y)
      BY <1>2, <2>2, <2>4 DEF Url!Path
    <3>2. /\ x \in Nat \ {0} /\ L \in Int /\ 1 \in Nat \ {0} /\ n \in Int /\ n <= L - x + 1
          /\ x = x + 1 - 1 /\ y = x + n - 1 /\ 0 + 1 = 1
      BY <1>1, <2>1, <2>2
    <3>3. L <= Len(u)
      BY <1>1 DEF L
    <3>4. e = SubSeq(u, x, L)
      BY DEF e
    <3> HIDE DEF x, y, m
    <3>5. SubSeq(SubSeq(u, x, L), 1, n) = SubSeq(u, x, y)
      BY <1>2, <3>2, <3>3, PartOfPartIs
    <3> QED BY <3>1, <3>2, <3>4, <3>5 DEF Url!Chunk
  <2>7. Url!Query(u) = SubSeq(u, s + n + 2, L)
    BY <2>2, <2>4 DEF Url!Query, L
  <2>8. Url!Query(u) = Url!From(e, n + 1)
    <3> DEFINE x == s + 1
               y == s + n + 2
               z == n + 1 + 1
               w == L - s
    <3>1. /\ x \in Nat \ {0} /\ L \in Int /\ z \in Nat \ {0} /\ w \in Int /\ w <= L - x + 1
          /\ y = x + z - 1 /\ L = x + w - 1
      BY <1>1, <2>1, <2>2
    <3>2. L <= Len(u)
      BY <1>1 DEF L
    <3>3. /\ e = SubSeq(u, x, L) /\ Url!From(e, n + 1) = SubSeq(e, z, w)
          /\ Url!Query(u) = SubSeq(u, y, L)
      BY <1>4, <2>7 DEF e, Url!From, Url!Chunk
    <3> HIDE DEF x, y, z, w, m
    <3>4. SubSeq(SubSeq(u, x, L), z, w) = SubSeq(u, y, L)
      BY <1>2, <3>1, <3>2, PartOfPartIs
    <3> QED BY <3>3, <3>4
  <2>9. s + n + 1 < L /\ u[s + n + 1] = "?" /\ Url!At(u, "?") # {}
    BY <2>1, <2>2, <2>3
  <2> QED BY <2>1, <2>5, <2>6, <2>7, <2>8, <2>9 DEF n, e, L
<1> QED BY <1>4, <1>7, <1>8, <1>9, FindChar

-----------------------------------------------------------------------------
(* The object holds what ParseUrl made of its URL: the constructor and     *)
(* SetUrl both start from the fields' defaults.                            *)
Parsed ==
    LET parsed == Url!ParseUrl(url, Url!UrlParam)
    IN  v_param = parsed.param /\ thrown = parsed.thrown

LEMMA AlwaysParsed == Url!Spec => []Parsed
<1>1. Url!Init => Parsed
  BY DEF Url!Init, Parsed
<1>2. Parsed /\ [Url!Next]_(Url!vars) => Parsed'
  <2> SUFFICES ASSUME Parsed, [Url!Next]_(Url!vars) PROVE Parsed'
    OBVIOUS
  <2>1. ASSUME NEW u \in LaterUrls, Url!SetUrl(u) PROVE Parsed'
    BY <2>1 DEF Url!SetUrl, Url!Parse, Parsed
  <2>2. CASE UNCHANGED Url!vars
    BY <2>2 DEF Url!vars, Parsed
  <2> QED BY <2>1, <2>2 DEF Url!Next
<1> QED BY <1>1, <1>2, PTL DEF Url!Spec

LEMMA MethodIs == ASSUME Parsed PROVE Url!MethodExact
<1> SUFFICES ASSUME Url!Regular(url), ~thrown PROVE Url!GetMethod = Url!Path(url)
  BY DEF Url!MethodExact
<1>1. PICK i, s : Shape(url, i, s)
  BY HasShape
<1>2. v_param.uri = SubSeq(url, s + 1, Len(url))
  BY <1>1, ParsedIs DEF Parsed
<1> DEFINE e == SubSeq(url, s + 1, Len(url))
<1>3. \/ Url!FindStr(e, << "?" >>) = -1 /\ Url!Path(url) = e
      \/ \E n \in Nat : Url!FindStr(e, << "?" >>) = n /\ Url!Path(url) = Url!Chunk(e, 0, n)
  BY <1>1, MarkIs
<1> HIDE DEF e
<1>4. -1 < 0 /\ \A n \in Nat : ~(n < 0)
  OBVIOUS
<1> QED BY <1>2, <1>3, <1>4 DEF Url!GetMethod, e

LEMMA ParamIs == ASSUME Parsed PROVE Url!ParamExact
<1> DEFINE q == Url!Query(url)
<1> SUFFICES ASSUME Url!Regular(url), ~thrown, Url!At(url, "?") # {}, Url!WellFormed(q),
                    NEW p \in Params
             PROVE  Url!GetParam(p) = IF Url!Named(q, p) = {} \/ Url!Shadowed(q, p) THEN << >>
                                      ELSE Url!Value(q, Url!First(q, p))
  BY DEF Url!ParamExact
<1>1. PICK i, s : Shape(url, i, s)
  BY HasShape
<1> DEFINE L == Len(url)
           e == SubSeq(url, s + 1, L)
<1>2. v_param.uri = e
  BY <1>1, ParsedIs DEF Parsed
<1>3. PICK n \in Nat : /\ Url!FindStr(e, << "?" >>) = n
                       /\ s + n + 1 < L /\ url[s + n + 1] = "?"
                       /\ \A k \in s + n + 2 .. L : url[k] # "?"
                       /\ q = Url!From(e, n + 1)
                       /\ q = SubSeq(url, s + n + 2, L)
  BY <1>1, MarkIs
<1>4. L \in Nat /\ s \in Nat /\ url \in Seq(Chars) /\ url[L] # "&"
  BY <1>1, ShapeNums DEF Shape
<1>5. e \in Seq(Chars) /\ \A k \in 1 .. L - s : e[k] = url[k + s]
  <2>1. s \in 0 .. Len(url)
    BY <1>3, <1>4
  <2> QED BY <1>4, <2>1, LastPart
<1>6. /\ q \in Seq(Chars) /\ Len(q) = L - (s + n + 1)
      /\ \A k \in 1 .. L - (s + n + 1) : q[k] = url[k + (s + n + 1)]
  <2> DEFINE a == s + n + 1
  <2>1. a \in 0 .. Len(url) /\ s + n + 2 = a + 1
    BY <1>3, <1>4
  <2>2. q = SubSeq(url, a + 1, Len(url))
    BY <1>3, <2>1
  <2> HIDE DEF a, q
  <2>3. q \in Seq(Chars) /\ Len(q) = Len(url) - a /\ \A k \in 1 .. Len(url) - a : q[k] = url[k + a]
    BY <1>4, <2>1, <2>2, LastPart
  <2> QED BY <2>3 DEF a
<1> HIDE DEF q, L, e
<1>7. Asked(q, p)
  <2>1. /\ L - (s + n + 1) \in 1 .. L - (s + n + 1) /\ (L - (s + n + 1)) + (s + n + 1) = L
        /\ L - (s + n + 1) # 0
    BY <1>3, <1>4
  <2>2. q[Len(q)] # "&"
    BY <1>4, <1>6, <2>1
  <2>3. q # << >>
    BY <1>6, <2>1
  <2>4. p \in Seq(Chars) /\ p # << >> /\ Url!Range(p) \cap {"&", "="} = {}
    BY ParamsAssumption
  <2>5. \A j \in 1 .. Len(p) : p[j] \in Url!Range(p)
    BY <2>4, LenProperties DEF Url!Range
  <2>6. \A j \in 1 .. Len(p) : p[j] \notin {"&", "="}
    BY <2>4, <2>5
  <2> QED BY <1>6, <2>2, <2>3, <2>4, <2>6 DEF Asked
<1> DEFINE start == Url!FindStr(q, Append(p, "="))
           value == Url!From(q, start + Len(p) + 1)
           end   == Url!FindStr(value, << "&" >>)
           given  == IF Url!Named(q, p) = {} \/ Url!Shadowed(q, p) THEN << >>
                    ELSE Url!Value(q, Url!First(q, p))
<1>8. /\ start < 0 => given = << >>
      /\ start >= 0 => start \in Nat /\ start < Len(q)
      /\ start >= 0 /\ start # 0 /\ q[start] # "&" => given = << >>
      /\ start >= 0 /\ (start = 0 \/ q[start] = "&") =>
             given = IF end < 0 THEN value ELSE Url!Chunk(value, 0, end)
  BY <1>7, Sought
<1>9. Url!GetParam(p) = IF n < 0 \/ start < 0 \/ e[n + 1 + start] \notin {"&", "?"} THEN << >>
                        ELSE IF end < 0 THEN value ELSE Url!Chunk(value, 0, end)
  BY <1>2, <1>3, Zenon DEF Url!GetParam
<1> HIDE DEF start, value, end, given
<1>10. start \in Int
  <2>1. /\ Append(p, "=") \in Seq(Chars \cup {"="})
    <3>1. p \in Seq(Chars \cup {"="})
      <4>1. p \in Seq(Chars)
        BY <1>7 DEF Asked
      <4> QED BY <4>1, Wider
    <3> QED BY <3>1, AppendProperties
  <2>2. Len(Append(p, "=")) \in Nat
    BY <2>1, LenProperties
  <2> QED BY <1>6, <2>2, FindIs DEF start
<1>11. ~(n < 0)
  BY <1>3
<1>12. ASSUME start >= 0
       PROVE  e[n + 1 + start] \in {"&", "?"} <=> start = 0 \/ q[start] = "&"
  <2>1. start \in Nat /\ start < L - (s + n + 1)
    BY <1>6, <1>8, <1>12
  <2>2. n + 1 + start \in 1 .. L - s /\ (n + 1 + start) + s = s + n + 1 + start
    BY <1>3, <1>4, <2>1
  <2>3. e[n + 1 + start] = url[s + n + 1 + start]
    BY <1>5, <2>2
  <2>4. CASE start = 0
    <3>1. s + n + 1 + start = s + n + 1
      BY <1>3, <1>4, <2>4
    <3> QED BY <1>3, <2>3, <2>4, <3>1
  <2>5. CASE start # 0
    <3>1. /\ start \in 1 .. L - (s + n + 1) /\ start + (s + n + 1) = s + n + 1 + start
          /\ s + n + 1 + start \in s + n + 2 .. L
      BY <1>3, <1>4, <2>1, <2>5
    <3>2. q[start] = url[s + n + 1 + start] /\ url[s + n + 1 + start] # "?"
      BY <1>3, <1>6, <3>1
    <3> QED BY <2>3, <2>5, <3>2
  <2> QED BY <2>4, <2>5
<1>13. start < 0 \/ start >= 0
  BY <1>10
<1>14. CASE start < 0
  BY <1>8, <1>9, <1>14 DEF given
<1>15. CASE start >= 0
  <2>1. ~(start < 0)
    BY <1>10, <1>15
  <2> QED BY <1>8, <1>9, <1>11, <1>12, <1>15, <2>1 DEF given
<1> QED BY <1>13, <1>14, <1>15 DEF q, given

LEMMA ColonIs == ASSUME Parsed PROVE Url!ColonExact
<1>1. Url!ThrowsOnLateColon
  <2> SUFFICES ASSUME Url!Regular(url) PROVE thrown <=> Url!LateColon(url)
    BY DEF Url!ThrowsOnLateColon
  <2>1. PICK i, s : Shape(url, i, s)
    BY HasShape
  <2> QED BY <2>1, ParsedIs DEF Parsed
<1>2. Url!DomainExact
  <2> DEFINE d == Url!Domain(url)
             c == Url!Min(Url!At(d, ":"))
             n == SubSeq(d, c + 1, Len(d))
  <2> SUFFICES ASSUME Url!Regular(url), ~thrown
               PROVE  IF Url!At(d, ":") = {} THEN v_param.host = d /\ v_param.port = 80
                      ELSE v_param.host = SubSeq(d, 1, c - 1) /\ Url!PortExact(n, v_param.port)
    BY DEF Url!DomainExact
  <2>1. PICK i, s : Shape(url, i, s)
    BY HasShape
  <2>2. /\ Url!At(d, ":") = {} => v_param.host = d /\ v_param.port = 80
        /\ Url!At(d, ":") # {} => /\ c \in Url!At(d, ":")
                                  /\ v_param.host = SubSeq(d, 1, c - 1)
                                  /\ v_param.port = Port(n)
    BY <2>1, ParsedIs DEF Parsed
  <2>3. d \in Seq(Chars)
    BY <2>1, DomainIs
  <2>4. ASSUME c \in Url!At(d, ":") PROVE Url!PortExact(n, Port(n))
    <3>1. n \in Seq(Chars)
      <4> HIDE DEF c, d
      <4>1. c \in 1 .. Len(d) /\ Len(d) \in Nat
        BY <2>3, <2>4, LenProperties DEF Url!At
      <4>2. c + 1 \in Nat \ {0} /\ Len(d) \in Int /\ Len(d) <= Len(d)
        BY <4>1
      <4> QED BY <2>3, <4>2, Part
    <3> HIDE DEF n
    <3> QED BY <3>1, PortIs
  <2> HIDE DEF c, d, n
  <2> QED BY <2>2, <2>4
<1> QED BY <1>1, <1>2 DEF Url!ColonExact

(* Of a regular URL, however long, that ParseUrl comes back from, GetMethod *)
(* is the path; and where its query is well formed, GetParam is the value  *)
(* of the first field of the name, or nothing when there is none or when   *)
(* an earlier field's name ends in it: of any names without a mark.        *)
THEOREM RequestsTakenApart == UrlSpec => []RequestExact
<1>1. Parsed => RequestExact
  BY MethodIs, ParamIs DEF RequestExact, Url!RequestExact
<1> QED BY <1>1, AlwaysParsed, PTL DEF UrlSpec

(* ParseUrl throws at a regular URL exactly when the first colon behind    *)
(* the "://" is past the domain; and when it does not, the host is what is *)
(* before the colon and the port the number behind it, of any length, cut  *)
(* to int by atoi and to 16 bits by the field.                             *)
THEOREM ColonFound == UrlSpec => []ColonExact
<1>1. Parsed => ColonExact
  BY ColonIs DEF ColonExact
<1> QED BY <1>1, AlwaysParsed, PTL DEF UrlSpec
=============================================================================
