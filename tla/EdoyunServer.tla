----------------------------- MODULE EdoyunServer -----------------------------
(***************************************************************************)
(* The business layer of the player server (EdoyunServer.cpp): it turns    *)
(* each packet the socket server passes on into a task of its own pool,    *)
(* m_task, whose workers parse it as an HTTP request, look the user up in  *)
(* the database and answer; a timer thread drops idle clients.             *)
(*                                                                         *)
(* The socket server is seen as AsynServer promises it: between Start and  *)
(* Close each chunk is passed on once, by one of Servers threads, so that  *)
(* chunks overtake each other; after Close nothing is.  m_task is the pool *)
(* of TaskExecutor, the map of clients the one of ClientRegistry.          *)
(*                                                                         *)
(* What a client sends is requests 1, 2, ..., each in four parts: what     *)
(* comes before its URL, a beginning of the URL, more of the request, and  *)
(* its end; they are numbered 4r - 3 to 4r.  A packet is some parts in a   *)
(* row, as TCP happened to deliver them, cut between any two of them: so   *)
(* also before, in and behind a URL.  Where exactly TCP cuts the URL and   *)
(* the end of a request is in LoginHeads and Blank.  A packet without      *)
(* parts marks the end of the stream.                                      *)
(* Of what is in a request this is left out: no URL has a colon, as        *)
(* ParseUrl throws on those (module TParseUrl), and that ends the process; *)
(* none asks to close the connection or to upgrade it, so that the parser  *)
(* goes on to the next; and none contains what looks like another one.     *)
(***************************************************************************)
EXTENDS Naturals, Sequences, FiniteSets

CONSTANTS
    Clients,
    MaxRequests,    \* bound: requests of one client
    Gets,           \* the requests with method GET, as << client, request >>
    LoginUrls,      \* those to /login or /login?...
    LoginHeads,     \* those whose URL, cut behind its beginning, is taken for one
    Blank,          \* those that end in a CR or LF, and TCP cuts before that
    Servers,        \* the threads of m_server that serve: nCpuCount - 1
    Workers,        \* the threads of m_task
    CheckEvery,     \* 60 s in OnTimer
    TimeOut,        \* 600 s in IsTimeOut
    MaxTime         \* bound: how long the clock runs

ASSUME EdoyunAssumption ==
    /\ IsFiniteSet(Workers)
    /\ MaxRequests \in Nat
    /\ Gets \cup LoginUrls \cup LoginHeads \cup Blank
           \subseteq Clients \X (1 .. MaxRequests)
    /\ Servers \in Nat \ {0}
    /\ CheckEvery \in Nat /\ TimeOut \in Nat /\ MaxTime \in Nat

MaxParts == 4 * MaxRequests

Packet == [client : Clients, from : 1 .. MaxParts + 1, to : 0 .. MaxParts]

VARIABLES
    owner,         \* where the owner stands in Start or Close
    m_db,          \* "null", "open", "failed", "closed"
    pool,          \* m_task: "none", "running", "closed"
    tasks,         \* the packets that wait in m_task
    worker, hand,  \* where each worker of m_task stands, and its packet, if any
    accepted,      \* clients m_server called AddClient for
    told,          \* clients ClientConnected was called for
    arrived,       \* parts of each client that arrived
    ended,         \* clients that ended their stream
    held,          \* packets in the hands of the threads of m_server
    m_mapClients,  \* the clients in the map of m_server
    m_tick,        \* per client: when Update was called last
    updated,       \* clients Update was called for; m_tick of others is garbage
    now,           \* the clock
    timer, tick,   \* where the timer thread stands; the static of OnTimer
    todo, victim,  \* clients OnClientTimeOut has yet to test; the one it drops
    refused,       \* ghost: packets AddTask refused
    dealt,         \* ghost: packets DealPacket is through with
    answers        \* the requests of each client answered, in order

clientVars == << accepted, told, arrived, ended, held >>
tickVars == << m_tick, updated >>
timerVars == << timer, tick, todo, victim, m_mapClients >>
workVars == << worker, hand, dealt, answers >>
poolVars == << pool, tasks, refused >>
vars == << owner, m_db, poolVars, workVars, clientVars, tickVars, now, timerVars >>

-----------------------------------------------------------------------------
StartPlaces == {"new", "timer", "connect", "run"}
ClosePlaces == {"closeserver", "closedb", "closetask", "stoptask", "closed"}

TypeOK ==
    /\ owner \in StartPlaces \cup {"serving"} \cup ClosePlaces
    /\ m_db \in {"null", "open", "failed", "closed"}
    /\ pool \in {"none", "running", "closed"}
    /\ tasks \in Seq(Packet)
    /\ worker \in [Workers -> {"none", "idle", "parse", "exec", "send", "gone", "crashed"}]
    /\ hand \in [Workers -> SUBSET Packet]
    /\ accepted \subseteq Clients /\ told \subseteq accepted
    /\ arrived \in [Clients -> 0 .. MaxParts]
    /\ ended \subseteq Clients
    /\ held \subseteq Packet
    /\ m_mapClients \subseteq accepted
    /\ m_tick \in [Clients -> 0 .. MaxTime]
    /\ updated \subseteq accepted
    /\ now \in 0 .. MaxTime
    /\ timer \in {"none", "first", "test", "get", "each", "drop", "ended"}
    /\ tick \in 0 .. MaxTime
    /\ todo \subseteq accepted /\ victim \subseteq accepted
    /\ refused \subseteq Packet
    /\ dealt \subseteq Packet
    /\ answers \in [Clients -> Seq(1 .. MaxRequests)]

Init ==
    /\ owner = "new" /\ m_db = "null" /\ pool = "none"
    /\ tasks = << >>
    /\ worker = [w \in Workers |-> "none"]
    /\ hand = [w \in Workers |-> {}]
    /\ accepted = {} /\ told = {}
    /\ arrived = [c \in Clients |-> 0]
    /\ ended = {} /\ held = {} /\ m_mapClients = {}
    /\ m_tick = [c \in Clients |-> 0] /\ updated = {}
    /\ now = 0 /\ timer = "none" /\ tick = 0 /\ todo = {} /\ victim = {}
    /\ refused = {} /\ dealt = {}
    /\ answers = [c \in Clients |-> << >>]

(* The use of a connection that was closed has ended the process.          *)
Crashed == \E w \in Workers : worker[w] = "crashed"

-----------------------------------------------------------------------------
(* CHttpParser, which begins anew with each packet.                        *)

(* CR and LF before a request are skipped: a packet may begin with the     *)
(* blank end of one.                                                       *)
FirstRead(p) ==
    IF p.from % 4 = 0 /\ << p.client, p.from \div 4 >> \in Blank
    THEN p.from + 1 ELSE p.from

(* In the middle of a request the parser fails; a request it read to the   *)
(* end sets m_complete.                                                    *)
OnMessageComplete(p) == FirstRead(p) % 4 = 1 /\ FirstRead(p) + 3 \leq p.to

(* m_url is overwritten by each URL, also by what there is of it where the *)
(* packet ends: that of the last request whose URL has begun stays, ...    *)
OnUrl(p) == (p.to + 2) \div 4

UrlIsLogin(p) ==
    << p.client, OnUrl(p) >> \in (IF 4 * OnUrl(p) - 1 \leq p.to THEN LoginUrls ELSE LoginHeads)

(* ... and m_parser.method is of the last request that has begun.          *)
MethodIsGet(p) == << p.client, (p.to + 3) \div 4 >> \in Gets

(* The request a packet is taken for; 0 when Errno is not 0.               *)
Parser(p) == IF OnMessageComplete(p) THEN OnUrl(p) ELSE 0

IsLogin(p) == Parser(p) # 0 /\ MethodIsGet(p) /\ UrlIsLogin(p)

-----------------------------------------------------------------------------
(* The owner: Start and Close.                                             *)

OwnerGoes(from, to) == ~Crashed /\ owner = from /\ owner' = to

(* m_server->Start: clients come and are served from here on.              *)
StartServer ==
    /\ OwnerGoes("new", "timer")
    /\ UNCHANGED << m_db, poolVars, workVars, clientVars, tickVars, now, timerVars >>

StartTick ==
    /\ OwnerGoes("timer", "connect")
    /\ timer' = "first"
    /\ UNCHANGED << m_db, poolVars, workVars, clientVars, tickVars, now, tick,
                    todo, victim, m_mapClients >>

(* The result of Connect is not looked at.                                 *)
Connect ==
    /\ OwnerGoes("connect", "run")
    /\ m_db' \in {"open", "failed"}
    /\ UNCHANGED << poolVars, workVars, clientVars, tickVars, now, timerVars >>

(* m_task.Run(): nor is its result.                                        *)
Run ==
    /\ OwnerGoes("run", "serving")
    /\ \/ pool' = "running" /\ worker' = [w \in Workers |-> "idle"]
       \/ pool' = "closed" /\ UNCHANGED worker
    /\ UNCHANGED << m_db, tasks, refused, hand, dealt, answers, clientVars,
                    tickVars, now, timerVars >>

(* Close, m_tick->Stop(): the thread has ended or is terminated where it   *)
(* stands.                                                                 *)
CloseTick ==
    /\ OwnerGoes("serving", "closeserver")
    /\ timer' = "ended"
    /\ UNCHANGED << m_db, poolVars, workVars, clientVars, tickVars, now, tick,
                    todo, victim, m_mapClients >>

(* m_server->Close(): nothing is passed on from here on.                   *)
CloseServer ==
    /\ OwnerGoes("closeserver", "closedb")
    /\ held' = {}
    /\ UNCHANGED << m_db, poolVars, workVars, accepted, told, arrived, ended,
                    tickVars, now, timerVars >>

(* m_db->Close(): of whatever Connect left.                                *)
CloseDb ==
    /\ OwnerGoes("closedb", "closetask")
    /\ m_db' = "closed"
    /\ UNCHANGED << poolVars, workVars, clientVars, tickVars, now, timerVars >>

(* m_task.Close(): the queue goes, then the workers.                       *)
CloseTaskQueue ==
    /\ OwnerGoes("closetask", "stoptask")
    /\ pool' = "closed" /\ tasks' = << >>
    /\ UNCHANGED << m_db, refused, workVars, clientVars, tickVars, now, timerVars >>

(* Mutant: a worker in the middle of a login is left alone.                *)
CloseTaskStopLeaves ==
    /\ OwnerGoes("stoptask", "closed")
    /\ worker' = [w \in Workers |-> IF worker[w] = "exec" THEN "exec" ELSE "gone"]
    /\ UNCHANGED << m_db, poolVars, hand, dealt, answers, clientVars, tickVars,
                    now, timerVars >>

CloseTaskStop ==
    /\ OwnerGoes("stoptask", "closed")
    /\ worker' = [w \in Workers |-> "gone"]
    /\ UNCHANGED << m_db, poolVars, hand, dealt, answers, clientVars, tickVars,
                    now, timerVars >>

-----------------------------------------------------------------------------
(* The threads of m_server.                                                *)

ServerRuns == owner \in {"timer", "connect", "run", "serving", "closeserver"}

Update(c) ==
    /\ m_tick' = [m_tick EXCEPT ![c] = now]
    /\ updated' = updated \cup {c}

(* A connection: m_server calls AddClient, whose post may fail, and Recv   *)
(* before it tells the business layer.                                     *)
Register(c) ==
    /\ ServerRuns
    /\ c \notin accepted
    /\ accepted' = accepted \cup {c}
    /\ m_mapClients' \in {m_mapClients, m_mapClients \cup {c}}
    /\ UNCHANGED << owner, m_db, poolVars, workVars, told, arrived, ended, held,
                    tickVars, now, timer, tick, todo, victim >>

(* ClientConnected, which is UserOnline.                                   *)
ClientConnected(c) ==
    /\ ServerRuns
    /\ c \in accepted \ told
    /\ told' = told \cup {c}
    /\ Update(c)
    /\ UNCHANGED << owner, m_db, poolVars, workVars, accepted, arrived, ended,
                    held, now, timerVars >>

(* More parts arrive, as one packet, and a thread of m_server takes it.    *)
PacketArrives(c) ==
    /\ ServerRuns
    /\ c \in accepted \ ended
    /\ Cardinality(held) < Servers
    /\ \E to \in arrived[c] + 1 .. MaxParts :
           /\ held' = held \cup {[client |-> c, from |-> arrived[c] + 1, to |-> to]}
           /\ arrived' = [arrived EXCEPT ![c] = to]
    /\ UNCHANGED << owner, m_db, poolVars, workVars, accepted, told, ended,
                    tickVars, now, timerVars >>

Queued == {tasks[i] : i \in DOMAIN tasks}
InHand == UNION {hand[w] : w \in Workers}

EmptyPacket(c) == [client |-> c, from |-> arrived[c] + 1, to |-> arrived[c]]

(* The end of a stream is received again and again.  Bound: one packet of  *)
(* it at a time.                                                           *)
EndArrives(c) ==
    /\ ServerRuns
    /\ c \in accepted
    /\ Cardinality(held) < Servers
    /\ EmptyPacket(c) \notin held \cup Queued \cup InHand
    /\ ended' = ended \cup {c}
    /\ held' = held \cup {EmptyPacket(c)}
    /\ UNCHANGED << owner, m_db, poolVars, workVars, accepted, told, arrived,
                    tickVars, now, timerVars >>

(* Mutant: the packet is queued twice.                                     *)
ClientRecvDataTwice(p) ==
    /\ ServerRuns
    /\ p \in held
    /\ held' = held \ {p}
    /\ Update(p.client)
    /\ IF pool = "running"
       THEN tasks' = tasks \o << p, p >> /\ UNCHANGED refused
       ELSE refused' = refused \cup {p} /\ UNCHANGED tasks
    /\ UNCHANGED << owner, m_db, pool, workVars, accepted, told, arrived, ended,
                    now, timerVars >>

(* Update, and a task for m_task, which refuses it unless it runs.         *)
ClientRecvData(p) ==
    /\ ServerRuns
    /\ p \in held
    /\ held' = held \ {p}
    /\ Update(p.client)
    /\ IF pool = "running"
       THEN tasks' = Append(tasks, p) /\ UNCHANGED refused
       ELSE refused' = refused \cup {p} /\ UNCHANGED tasks
    /\ UNCHANGED << owner, m_db, pool, workVars, accepted, told, arrived, ended,
                    now, timerVars >>

(* Update once more, when an answer was sent.                              *)
ClientSendDone(c) ==
    /\ ServerRuns
    /\ answers[c] # << >>
    /\ Update(c)
    /\ UNCHANGED << owner, m_db, poolVars, workVars, clientVars, now, timerVars >>

-----------------------------------------------------------------------------
(* The timer thread: OnTimer, which returns 0 and so is called only once.  *)

Tick ==
    /\ owner # "closed"
    /\ now < MaxTime
    /\ now' = now + 1
    /\ UNCHANGED << owner, m_db, poolVars, workVars, clientVars, tickVars, timerVars >>

(* static ULONGLONG tick, when OnTimer is first called.                    *)
TimerFirst ==
    /\ timer = "first"
    /\ tick' = now
    /\ timer' = "test"
    /\ UNCHANGED << owner, m_db, poolVars, workVars, clientVars, tickVars, now,
                    todo, victim, m_mapClients >>

TimerTest ==
    /\ timer = "test"
    /\ IF now > tick + CheckEvery
       THEN tick' = now /\ timer' = "get"
       ELSE timer' = "ended" /\ UNCHANGED tick
    /\ UNCHANGED << owner, m_db, poolVars, workVars, clientVars, tickVars, now,
                    todo, victim, m_mapClients >>

(* m_server->GetClients(): all of them, or, when the call ran into its     *)
(* time limit, what the map's thread had copied by then.                   *)
GetClients ==
    /\ timer = "get"
    /\ todo' \in SUBSET m_mapClients
    /\ timer' = IF todo' = {} THEN "ended" ELSE "each"
    /\ UNCHANGED << owner, m_db, poolVars, workVars, clientVars, tickVars, now,
                    tick, victim, m_mapClients >>

NextClient == timer' = IF todo' = {} THEN "ended" ELSE "each"

(* Mutant: IsTimeOut forgets the delay.                                    *)
IsTimeOutAtOnce(c) == IF c \in updated THEN {m_tick[c] < tick} ELSE BOOLEAN

(* IsTimeOut(tick); before the first Update m_tick may be anything.        *)
IsTimeOut(c) == IF c \in updated THEN {m_tick[c] + TimeOut < tick} ELSE BOOLEAN

TestClient(c) ==
    /\ timer = "each"
    /\ c \in todo
    /\ todo' = todo \ {c}
    /\ \/ TRUE \in IsTimeOut(c) /\ victim' = {c} /\ timer' = "drop"
       \/ FALSE \in IsTimeOut(c) /\ NextClient /\ UNCHANGED victim
    /\ UNCHANGED << owner, m_db, poolVars, workVars, clientVars, tickVars, now,
                    tick, m_mapClients >>

(* m_server->DelClient: the client leaves the map, unless the post to it   *)
(* fails, and is served as before.                                         *)
DropClient ==
    /\ timer = "drop"
    /\ m_mapClients' \in {m_mapClients, m_mapClients \ victim}
    /\ victim' = {}
    /\ timer' = IF todo = {} THEN "ended" ELSE "each"
    /\ UNCHANGED << owner, m_db, poolVars, workVars, clientVars, tickVars, now,
                    tick, todo >>

-----------------------------------------------------------------------------
(* The workers of m_task.                                                  *)

WorkerGoes(w, from, to) ==
    /\ ~Crashed
    /\ worker[w] = from
    /\ worker' = [worker EXCEPT ![w] = to]
    /\ UNCHANGED << owner, m_db, pool, refused, clientVars, tickVars, now, timerVars >>

(* Mutant: the task stays in the queue until its worker is through with it. *)
TakeTaskKeeps(w) ==
    /\ pool = "running"
    /\ tasks # << >>
    /\ WorkerGoes(w, "idle", "parse")
    /\ hand' = [hand EXCEPT ![w] = {Head(tasks)}]
    /\ tasks' \in {tasks, Tail(tasks)}
    /\ UNCHANGED << dealt, answers >>

(* Mutant: the newest task is taken first.                                 *)
TakeTaskNewest(w) ==
    /\ pool = "running"
    /\ tasks # << >>
    /\ WorkerGoes(w, "idle", "parse")
    /\ hand' = [hand EXCEPT ![w] = {tasks[Len(tasks)]}]
    /\ tasks' = SubSeq(tasks, 1, Len(tasks) - 1)
    /\ UNCHANGED << dealt, answers >>

TakeTask(w) ==
    /\ pool = "running"
    /\ tasks # << >>
    /\ WorkerGoes(w, "idle", "parse")
    /\ hand' = [hand EXCEPT ![w] = {Head(tasks)}]
    /\ tasks' = Tail(tasks)
    /\ UNCHANGED << dealt, answers >>

(* The end of DealPacket.                                                  *)
Done(w) ==
    /\ dealt' = dealt \cup hand[w]
    /\ hand' = [hand EXCEPT ![w] = {}]

(* DealPacket parses the packet; only a login goes on.                     *)
DealPacket(w) ==
    \E p \in hand[w] :
        /\ \/ IsLogin(p) /\ WorkerGoes(w, "parse", "exec") /\ UNCHANGED << hand, dealt >>
           \/ ~IsLogin(p) /\ WorkerGoes(w, "parse", "idle") /\ Done(w)
        /\ UNCHANGED << tasks, answers >>

(* Mutant: UserLogin returns when Exec failed.                             *)
ExecReturns(w) ==
    /\ UNCHANGED << tasks, answers >>
    /\ \/ m_db = "open" /\ WorkerGoes(w, "exec", "send") /\ UNCHANGED << hand, dealt >>
       \/ WorkerGoes(w, "exec", "idle") /\ Done(w)

(* UserLogin, m_db->Exec: fails or not, the login goes on, unless the use  *)
(* of a connection that was closed ends the process.                       *)
Exec(w) ==
    /\ \/ WorkerGoes(w, "exec", "send")
       \/ m_db = "closed" /\ WorkerGoes(w, "exec", "crashed")
    /\ UNCHANGED << tasks, hand, dealt, answers >>

(* UserLogin, client->Send.                                                *)
Send(w) ==
    \E p \in hand[w] :
        /\ WorkerGoes(w, "send", "idle")
        /\ answers' = [answers EXCEPT ![p.client] = Append(@, Parser(p))]
        /\ Done(w)
        /\ UNCHANGED tasks

-----------------------------------------------------------------------------
Start == StartServer \/ StartTick \/ Connect \/ Run

Close == CloseTick \/ CloseServer \/ CloseDb \/ CloseTaskQueue \/ CloseTaskStop

Arrives(c) == Register(c) \/ PacketArrives(c) \/ EndArrives(c)

Serves(c) == ClientConnected(c) \/ ClientSendDone(c)

OnTimer == TimerFirst \/ TimerTest \/ GetClients \/ DropClient
           \/ \E c \in todo : TestClient(c)

Worker(w) == TakeTask(w) \/ DealPacket(w) \/ Exec(w) \/ Send(w)

Next ==
    \/ Start \/ Close \/ Tick \/ OnTimer
    \/ \E c \in Clients : Arrives(c) \/ Serves(c)
    \/ \E p \in held : ClientRecvData(p)
    \/ \E w \in Workers : Worker(w)

Spec == Init /\ [][Next]_vars

HasParts(p) == p.from \leq p.to

PassesOn(c) == \E p \in held : p.client = c /\ HasParts(p) /\ ClientRecvData(p)

(* Time passes; no call of the owner, of m_server's threads, of the timer  *)
(* or of a worker blocks for ever.                                         *)
FairSpec ==
    /\ Spec
    /\ WF_vars(Start) /\ WF_vars(OnTimer) /\ WF_vars(Tick)
    /\ \A c \in Clients : WF_vars(PassesOn(c))
    /\ \A w \in Workers : WF_vars(Worker(w))

-----------------------------------------------------------------------------
(* PROPERTIES                                                              *)

(* Where a packet can be.                                                  *)
Places == << held, Queued, InHand, dealt, refused >>

(* Each packet is in one place, once: it is refused, or waits, or is dealt *)
(* with by one worker; and until Close none gets lost on its way through   *)
(* ClientRecvData, m_task and DealPacket.                                  *)
PacketsOnce ==
    /\ \A i, j \in DOMAIN tasks : tasks[i] = tasks[j] => i = j
    /\ \A i, j \in DOMAIN Places : i # j => \A p \in Places[i] \cap Places[j] : ~HasParts(p)
    /\ \A v, w \in Workers : v # w => hand[v] \cap hand[w] = {}
    /\ ServerRuns =>
           \A c \in Clients : \A k \in 1 .. arrived[c] :
               \E i \in DOMAIN Places : \E p \in Places[i] :
                   p.client = c /\ k \in p.from .. p.to

Logins == Gets \cap LoginUrls

(* A packet that ends inside a request line, behind a whole request, was   *)
(* taken for a login: by a URL that has not arrived to its end, or by the  *)
(* method of the request after it.                                         *)
CutInLine(c, r) ==
    \E p \in dealt :
        p.client = c /\ IsLogin(p) /\ Parser(p) = r /\ p.to % 4 \in {1, 2}

(* No request is answered twice, and none whose URL has not begun to       *)
(* arrive, however TCP cuts the stream into packets.  What is answered is  *)
(* a login that arrived with its request line, or was mistaken for one in  *)
(* a packet that ends inside a request line.                               *)
AnsweredOnce ==
    \A c \in Clients : \A i \in DOMAIN answers[c] :
        LET r == answers[c][i]
        IN  /\ 4 * r - 2 \leq arrived[c]
            /\ (<< c, r >> \in Logins /\ 4 * r - 1 \leq arrived[c]) \/ CutInLine(c, r)
            /\ \A j \in DOMAIN answers[c] : answers[c][j] = r => i = j

(* Packets of a client overtake each other twice, on their way into m_task *)
(* and in it: when DealPacket is through with one, at most as many earlier *)
(* ones are late as there are other threads in m_server and in m_task.     *)
LateBounded ==
    \A p \in dealt : HasParts(p) =>
        Cardinality({q \in held \cup Queued \cup InHand :
                         q.client = p.client /\ q.from < p.from})
            \leq (Servers - 1) + (Cardinality(Workers) - 1)

(* Close takes the database away while workers look users up in it: only   *)
(* then, and not before m_server is closed, can a login end the process.   *)
CrashOnlyWhileClosing == Crashed => owner \in {"closetask", "stoptask"}

(* A client that OnClientTimeOut drops had been idle for long, unless its  *)
(* first Update was still to come, or one came between test and drop.      *)
DroppedWasIdle ==
    \A c \in victim :
        c \in updated => m_tick[c] + TimeOut < tick \/ m_tick[c] \geq tick

(* Every packet that m_server passes on once m_task runs and that is taken *)
(* for a login is answered, in the middle of other packets and of ended    *)
(* streams.                                                                *)
Answered(c, r) == \E i \in DOMAIN answers[c] : answers[c][i] = r

LoginWaits(c, r) ==
    /\ owner = "serving" /\ pool = "running"
    /\ \E p \in held \cup Queued \cup InHand : p.client = c /\ IsLogin(p) /\ Parser(p) = r

LoginAnswered ==
    \A c \in Clients, r \in 1 .. MaxRequests :
        LoginWaits(c, r) ~> (Answered(c, r) \/ owner # "serving")

(* What EdoyunServer.h:32 says: a client without data for long is taken to *)
(* be offline.  (The bound of the clock is no excuse for a timer that has  *)
(* ended.)                                                                 *)
Idle(c) == c \in updated /\ m_tick[c] + TimeOut < now

IdleClientOffline ==
    \A c \in Clients :
        (owner = "serving" /\ c \in m_mapClients /\ Idle(c)) ~>
            (\/ c \notin m_mapClients \/ ~Idle(c) \/ owner # "serving"
             \/ now = MaxTime /\ timer # "ended")
=============================================================================
