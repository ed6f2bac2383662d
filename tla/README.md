# PlayerServer in TLA+

TLA+ modules, TLC configurations and TLAPS proofs for PlayerServer, the server
side of a media player: three Windows programs built on one small framework of
threads, a thread pool and an asynchronous socket server over I/O completion
ports. All paths below are relative to the repository; sources are under `src/`.
The sources are GBK encoded; comments are quoted with a translation.

    cd tla
    tlc -workers 2 -config MCThreadPool.cfg MCThreadPool     # model-check
    tlapm ThreadPoolProofs.tla                               # check the proofs

## The system

| Part | Source | State it keeps | Operations |
|---|---|---|---|
| CThread | `EPlayerServer/Thread.{h,cpp}` | handle, `m_bValid`, `m_pFunction` | Start, Pause, Stop, Restart, SetThreadFunc, EnterThread |
| ThreadPool | `EPlayerServer/ThreadPool.{h,cpp}` | completion port, `m_nStatus`, vector of threads | Start, AddTask, Close, TaskExcute, ClearIocpQueue |
| CTaskActuator | `EPlayerServer/TaskActuator.cpp` | number of CPUs | AddTask, Run, Close (of ThreadPool) |
| ClientMap | `EPlayerServer/AsynchronousModel.cpp:97-241` | map socket to client, completion port, thread | AddClient, DelClient, GetClient, GetClients, ClientMapMain |
| AsynClient, AsynServer | `EPlayerServer/AsynchronousModel.cpp` | listening socket, completion port, sockets of clients | Start, Close, Accept, ServerMain; Send, Recv |
| EdoyunServer | `EPlayerServer/EdoyunServer.cpp` | server, pool, timer thread, database | ClientConnected, ClientRecvData, DealPacket, UserLogin, OnTimer |
| EAcceptServer | `EAcceptServer/` | pairs of connections (client, back end) | ClientConnected, ClientRecvData, ConnectEx completions |
| ELogServer | `ELogServer/` | log file, pool of one thread | ClientRecvData, Trace, WriteLog |
| CLogServer | `EPlayerServer/LogServer.cpp` | singleton, socket, pool of one thread | getInstance, releaseInstance, Trace, WriteLog |
| CHttpParser, TParseUrl | `EPlayerServer/HttpParser.cpp` | parsed request, parsed URL | Parser and callbacks, ParseUrl, GetParam, GetMethod |
| Databases | `EPlayerServer/Sqlite3Client.cpp`, `MysqlClient.cpp` | connection, table classes | Connect, Exec, transactions, statement builders |

`Thread`, `ThreadPool` and `TaskActuator` are the same code in the three
programs; `AsynchronousModel` exists in three variants.

How they interact: an AsynServer owns a CTaskActuator, a ThreadPool with one
worker per CPU, and queues Accept and ServerMain to it as tasks. Each worker is
a CThread that runs TaskExcute. ServerMain takes one completion (accept,
receive, send) from the server's own port, calls the business layer (EdoyunServer,
EAcceptServer, ELogServer), and queues itself again. Accepted clients are
entered in the ClientMap, which is an actor: a thread of its own that takes
messages from a third port. EdoyunServer turns each packet into a task of a
second pool. Everything writes to CLogServer, one more pool.

What is hard, and what makes each part correct:

- CThread: `m_bValid` is a plain bool that owner and thread both write; Stop
  terminates a thread that does not end in 10 ms. Correct: one kernel thread
  per object, none left behind the handle, no function deleted while it runs.
- ThreadPool: Close takes the port away while callers post and workers take.
  Correct: a task has one holder at a time, runs at most once, is not lost
  while the pool is open, does not run after Close; Close returns.
- ClientMap: changes apply later, callers wait for answers with a time limit
  and pass addresses of local variables. Correct: callers see an atomic map,
  the actor never uses a frame that is gone, the map outlives the actor.
- AsynServer: workers serve completions in an order of their own, Accept and
  Recv must be armed again each time, workers block on the port that feeds
  them, Close comes in the middle of handlers. Correct: one Accept and one Recv
  per client at a time, none forgotten; the business layer is told of each
  connection and chunk once, of no client before the map, and of nothing after
  Close; no worker is missing when an Accept waits.
- EdoyunServer: packets of one client are queued by several threads and dealt
  with by several more; a timer reads what those threads write; Close takes
  the database away first. Correct: each packet is dealt with once, no request is
  answered twice however TCP cut the stream, what is answered is a login unless a
  request line was cut, a client is dropped only when idle, a closed database is
  used only during Close.
- EAcceptServer: one thread makes the pair of a client while another already
  has data for it; the next Accept depends on the back end's answer. Correct:
  pairs are one to one, a chunk is forwarded once or lost for a known reason,
  the relay goes on accepting unless a connection was refused.
- CHttpParser, TParseUrl: pointer arithmetic at the ends of strings. Correct:
  the parameters and the method are those of the URL.
- CLogServer: a singleton that any thread may make, without a lock, and that is
  deleted at exit while the threads still trace. Correct: one at a time until
  the release, no later use of the deleted one, lines sent in order.
- ELogServer: several threads bring packets to one writer; main may return, and
  the writer be terminated, at any moment. Correct: packets are logged whole and
  once, a stream ends once, the program ends unless the writer held the lock.
- The two together: a line that TRACE queued gets into the file, but for named
  reasons.

The programs' `main` functions call Start, wait for a key and return: they never
call Close, and an object that holds a pointer to itself is never destroyed.
Close is the interface of the classes, called by the unit test
`TEST(AsynSocket, Server)` and by the destructors; the models include it.

The hazards at their source lines are in `PROJECT.json`.

## Modules

| Module | What it is |
|---|---|
| `ThreadPool` | the pool: one action per step between two accesses to shared state |
| `TaskExecutor` | abstract: what the pool promises of each task |
| `ThreadPoolProofs` | invariants and refinement, proved |
| `CThread` | the thread object: owner's calls against EnterThread |
| `CThreadProofs` | its invariants, proved |
| `ClientMap` | the actor, its callers, its destructor |
| `ClientRegistry` | abstract: a registry that changes and answers at once |
| `ClientMapProofs` | its invariants and refinement, proved |
| `AsynServer` | the socket server: Start, Close, Accept, ServerMain, the kernel and the peers |
| `AsynServerProofs` | its invariants, proved |
| `EdoyunServer` | the business layer: Start, Close, packets as tasks, login, timer |
| `EdoyunServerProofs` | its invariants, and those of the URL parser it uses, proved |
| `EAcceptServer` | the relay: pairs, ConnectEx, forwarding |
| `EAcceptServerProofs` | its invariants, proved |
| `TParseUrl` | the URL parser as operators, and what they should compute |
| `RequestUrl` | DealPacket's object of it, so that its properties can stand beside EdoyunServer's |
| `CLogServer` | the log client: TRACE, getInstance, its pool of one thread, its release at exit |
| `ELogServer` | the log program: ClientRecvData, the writer, main |
| `LogChain` | composes CLogServer with an instance of ELogServer over TCP |
| `LogChainProofs` | the invariants of CLogServer, of ELogServer and of the chain, proved |
| `QueueLemmas` | what Append and Tail do to a queue, what SubSeq leaves of a sequence, least and greatest numbers; used by the proof modules |
| `MCThreadPool`, `MCCThread`, `MCClientMap`, `MCAsynServer`, `MCEdoyunServer`, `MCEAcceptServer`, `MCTParseUrl`, `MCLogChain` | constants and bounds for TLC |

Definitions marked as mutants are wrong versions of the definition below them;
nothing in a specification uses them. Put in its place each makes the property
it was written for fail, which shows that the property depends on the code.

### ThreadPool

Variables `m_hIocp`, `m_nStatus`, `m_vecThreads` are those of the class;
`queue` is the kernel's FIFO of packets; `worker[w]` is the line of TaskExcute
where a thread stands; `owner` and `index` are the place and the loop variable
in Start or Close; `adding[c]` is an AddTask between its test and its post.
`task` is a ghost: what became of each Task object. A step ends where another
thread can interfere: each access to `m_hIocp`, `m_nStatus` and the port is an
action. The places where the code fails are there: CreateThread
(`StartThread`, a thread without a handle, which CThread::Start reports as
THREAD_OK), ResumeThread (`StartThreadFails`, then Close through NULL entries,
`StopCrashes`), a post to a port that is gone. CThread is seen as: its function
runs, returned, or was terminated (`StopTerminates`); module `CThread` is about
the rest. A worker that is terminated while it holds the port's kernel lock, or
the heap's, is outside the model.

Assumed: `nThreadCount > 0`. GetCpuCount returns 0 only when
GetLogicalProcessorInformation fails in an unexpected way; a pool of 0 threads
accepts tasks and never runs one.

### CThread

One owner thread calls the object, as in the code (no lock protects it), and
the calls are split where the kernel thread can interfere: Start and Pause
between the test of `m_bValid` and ResumeThread or SuspendThread, Stop at its
wait. `place[g]` is the line of EnterThread of the g-th kernel thread,
`suspends[g]` its suspend count, `memory` whether a CFunction was deleted.
`last` is a ghost, the call that returned last. What a function does is not
modelled; it returns THREAD_AGAIN or something else, or never.
`EndedThreadNotValid` is about threads that end by themselves. Stop clears
`m_bValid` first, and a thread that only then enters EnterThread sets it again
and is terminated: isValid then answers true for a thread that is gone, although
`Thread.h:74` says that true means the thread is normal.

### ClientMap

`mailbox` is the completion port, `hand` the message the actor is handling,
`actor` its place in ClientMapMain. CMP_ADD and CMP_DEL are one step: only the
actor touches the map. A query is two, the answer and SetEvent, because the
caller may give up between them. After a time-out the message still points to
the caller's dead frame; `UseDeadFrame` lets the actor use it without effect or
end the process. Posts may fail; AddClient returns 0 all the same, and then the
change is simply not made. A client stands for its socket: no client socket is
closed while the server runs (AsynClient keeps a shared pointer to itself), so
no key is used twice. CMP_QUERY and CMP_ALL are one message type that asks for
one client or for all of them. DelClient is called only for a client that was
passed to AddClient before: ServerMain posts AddClient (line 377) before it
arms the first Recv (line 378), and OnClientTimeOut takes its clients from
GetClients. The destructor starts when no call is in progress.

`ClientRegistry` is the abstract view; in the refinement mapping its clients are
those there will be after the messages that wait (`AfterAll`), and the answer of
a waiting call those after the messages before its own.

### AsynServer

Composes what the modules above promise: the pool is a queue of tasks that
accepts until it closes and whose Close leaves no worker (`TaskExecutor`,
`CloseStopsAll`); the client map is the registry that changes when
AddClient is called (`ClientRegistry`), or not, when the post failed
(`"lost"`). `worker[w]` is where a worker stands in Accept or ServerMain and
`hand[w]` the completion it serves; `port` is `m_iocp`; `owner` and `index` are
the place in Start or Close. One action is one call that another thread can
see: `NewAccept`, `Register`, `FirstRecv`, `ClientConnected` are the lines of
case 1, `Rearm` and `ClientRecvData` those of case 2. Close takes m_socket and
m_iocp in one step: nothing looks at one of them without the other, but for
Accept, which fails with either. `told[c]` is a ghost, what the business layer
was told of client c. A call through a null `m_business` is the place
`"crashed"`, after which nothing moves.

External are the kernel and the peers: `PeerConnects`, `AcceptFails`,
`RecvCompletes`, `SendCompletes` and `PeerEnds` complete what was started, with
every outcome, into the port in the order they happen. What a peer sends is
chunk 1, 2, ...; chunk 0 is the end of the stream, for which the server calls
Recv and ClientRecvData like for any other. The business layer's own calls are
`Send` and `DelClient`.

Assumed: a post to a pool that runs succeeds (it fails for want of memory
only), and every thread of the pool could be made; module `ThreadPool` says
what a missing one means. A constructor that fails (bind, listen) is seen as
an AcceptEx that fails.

### EdoyunServer

Composes the modules below it by what they promise: `pool` and `tasks` are
`m_task` as `TaskExecutor` has it, `held` is what the threads of `m_server` have
in hand, in any order, as `AsynServer` allows, and `m_mapClients` the map of
`ClientRegistry`. `owner` is the place in Start or Close, `worker[w]` the place
in DealPacket and UserLogin, `timer` that in OnTimer and OnClientTimeOut.
`refused` and `dealt` are ghosts; `answers[c]` is what was sent to the client.

A client sends requests 1, 2, ...; request r is the four parts 4r - 3 to 4r: what
comes before its URL, a beginning of the URL, the rest of the request, its end.
A packet is parts in a row, as TCP cut them, so a packet may end before, inside
and behind a URL, or before a last CR or LF of a request (`Blank`), which the
parser skips at the beginning of the next packet (`FirstRead`, http_parser.c:956).
Each packet gets a new parser. In the middle of a request it fails; otherwise
`m_complete` says that some request in the packet ended (`OnMessageComplete`),
`m_url` is that of the last request whose URL has begun (`OnUrl`), also what there
is of it at the end of the packet, which http_parser.c:2079 passes on, and
`m_parser.method` is that of the last request that has begun (`MethodIsGet`).
So of two requests in one packet only the last is answered; and when a packet ends
inside a request line behind a whole request, the two may be of different
requests, or the URL half a URL: "/login?user=a" without the rest of its
parameters, "/login" of "/loginx", or the URL of a POST with the method of the GET
behind it. UserLogin then answers what is no login, or a login that has not
arrived. `LoginHeads` are the requests whose cut URL is taken for a login.
`AnsweredOnce` says that none is answered twice for all that, that none is answered
whose URL has not begun, and that what is answered is a login with its whole
request line, but for packets that end inside one (`CutInLine`).

Assumed of what is sent: no URL has a colon (that case is in `TParseUrl`), no
request closes or upgrades the connection, so that the parser goes on to the next,
and none contains what looks like another. `Gets` and `LoginUrls` are the requests
with that method and URL; whether the password is right does not change what is
sent when.

`m_tick` is not initialised in this program (AsynchronousModel.cpp:38-41):
before the first Update `IsTimeOut` may give either answer. GetClients may time
out and then gives some of the clients (`GetClients`); the post of DelClient may
fail, and the client then stays in the map (`DropClient`). Exec on a closed
connection works, fails, or ends the process, `"crashed"`; the result of
Connect, Run, AddTask and Exec is not looked at by the code, so Start goes on
after each failure. A client that ended its stream is received from for ever,
each time with Update, so it is never idle. Bound: one empty packet of a client
at a time.

### EAcceptServer

The same server with its completions changed: AcceptEx has type 4, ConnectEx
type 1, and it is case 1, the back end's answer, that queues the next Accept.
The module begins when Start has returned and repeats neither Close nor the
client map, which are the code of `AsynServer` and `ClientMap`. An end is an
AsynClient, accepted or made by ClientConnected, in the order of creation;
`m_pair` is its member, set by two assignments with a step between them.
SetPair and Pair race without a lock on a shared_ptr of two words; a reader
gets a null pointer or the pair, with or without a reference counted, and the
objects live for ever, so the two outcomes of the model are all there are.
`lost` and `early` are ghosts: the chunks that were not passed on, and those
that had arrived when the pair was connected. An empty packet is sent like any
other; its completion is left out, since ServerMain does nothing with it, and
otherwise an ended stream would fill the port without end.

### TParseUrl

URLs are sequences of characters, and each operator is one function, counting
from 0 as the code does. `Occurrences` has the loop bound of FindStr: a match
at the very end of the string is not found. What follows from the code and is
modelled as it is: `protocol` holds the URL from "://" on (line 290 calls the
constructor that skips the first `point` characters), the port of a URL without
a path loses its last digit, a second object is no different from the first
(SetUrl clears), and a colon behind the domain makes the length at line 258
negative, so std::string throws. Login URLs are "https://127.0.0.1" + the path,
without a port: any colon in the path or query of a GET ends the process.

The reference definitions (`Domain`, `Path`, `Query`, `Fields`, ...) describe the
parts of a regular URL by the places of the marks in it, with no scan, and are
compared with the operators over every URL of the run, and for every URL in the
proofs. A URL is regular when its first colon begins the "://", one more slash
follows, at most one question mark comes behind that slash, and the last
character is none of the marks. `Atoi` is atoi of the Visual C++ runtime the
project is built with: it counts the digits from the first and returns INT_MAX
or INT_MIN for what does not fit, of which 16 bits go into the port. `Decimal`,
the reference, adds up the digits from the last, each times its place. TLC's own
integers end at INT_MAX, so the run has no port beyond it; the proof covers these.

### CLogServer, ELogServer and LogChain

In `CLogServer` an object goes by the actor that made it, and `place[a]` is where
a thread stands in TRACE (getInstance, the test of `m_instance` in Trace, its
second use in AddTask) and Main in the constructor and destructor of the static
`m_helper`, with main in between. The pool is that of `TaskExecutor` with one
thread; its outcomes are a pool that runs, one whose CreateThread failed (takes
lines, sends none, `"silent"`) and one that did not start (`"refusing"`). The
result of connect and of send is not looked at, so a CLogServer without a
connection drops its lines. A thread of the program cannot run before main is
called (`MainCalled`), which is why the missing lock of getInstance does no harm
until the release; after it m_instance is NULL again and two threads may each
make a CLogServer: `OneInstance` says "until the release". A thread that tested
m_instance before the release and uses it after `delete` has undefined behaviour,
the place `"wild"`, where it stays; `DeletedNotUsed` says no other thread gets
there. The text of a line is left out.

`ELogServer` begins when its constructors and Start have returned, with every
client accepted, or never: one that connected after the accept chain broke
(`AsynServer`, `OneAccept`) stays in the backlog, where connect succeeds and what is
sent is not read. `Construct` has the outcomes of the constructor of CLogServer: the
file may not open, which only leaves m_pFile[0] NULL, so that WriteLog shows its
packets on the standard output alone (`ToFile`); and its pool may run, be `"silent"`
or `"refusing"`, as that of the client. Threads of the server take
completions from the port, arm Recv again when there was data, and pass the packet
to Trace or the end of the stream to DelClient, whose post may fail. The writer
takes the lock of the file's stream twice, in fwrite and in fflush (`LockFile`),
which the C library holds for the call; `Stop` terminates it wherever it is once
its 10 ms are over, and `CloseFile`, the fclose of the destructor, waits for that
lock, when there is a file. When it never comes free, the program does not end:
`ExitEnds` names this case and allows no other. Assumed: nobody but the writer waits
for the lock of the standard output, the C library's exit included. Its test
`TestInstance` and `AddTask` are the same two reads of the singleton as in the
client.

`LogChain` extends `CLogServer` and instantiates `ELogServer` as `Sink`, whose
clients are the connections of the CLogServers. `upto[c]` says which lines of
`wire[c]` each packet of connection c holds: TCP keeps their order and cuts where
it likes. A connection breaks when the log program has ended (`SinkEnds`), ends or
is reset when the client has closed it or its program has (`SourceEnds`).
`LineLogged` lists why a line that a connected CLogServer took may be missing from
the log: it was not sent when its program ended, its connection was reset or never
accepted, the log program ends, or its pool did not start. Without a file it must be
on the standard output. The
variables of the Sink that share a name with the client's are prefixed `log`.

## Runs

| Run | Configuration | Bounds | Shows |
|---|---|---|---|
| `pool` | `MCThreadPool.cfg` | 2 workers, 2 callers, 3 tasks, 2 Starts | 216,279 states; OneHolder, CloseStopsAll, CloseReturns, QueuedTaskTaken, refinement of TaskExecutor |
| `pool_queue` | `MCThreadPoolQueue.cfg` | 2 workers, 2 callers, 2 tasks, 1 Start | `QueueClearedFirst` is violated |
| `thread` | `MCCThread.cfg` | 2 functions, 2 kernel threads, suspend count 2 | three invariants, StopAlwaysReturns |
| `thread_start` | `MCCThreadStart.cfg` | 2 functions, 1 kernel thread, suspend count 2 | `StartResumes` is violated |
| `clients` | `MCClientMap.cfg` | 2 clients, 2 queries, 1 deletion | 901,755 states; UsesOnlyLiving, refinement of ClientRegistry, MapCatchesUp |
| `server` | `MCAsynServer.cfg` | 3 workers, 2 Accepts (1 connection), 2 chunks, 1 Send, symmetric | 1,348,311 states; one Accept, one Recv, what the business layer is told, registration, only while the server is up |
| `server_two` | `MCAsynServerTwo.cfg` | 2 workers, 3 Accepts (2 connections), 1 chunk each; no Close, one reset | 127,905 states; ChunkTold, AcceptsAgain |
| `edoyun` | `MCEdoyunServer.cfg` | 1 client, 2 requests (POST /login, GET /login?...) in 8 parts, cut at 4 places, 2 threads of the server, 2 workers, clock 2 | 397,416 states; five invariants, LoginAnswered |
| `edoyun_timer` | `MCEdoyunServerTimer.cfg` | 1 client, no request, clock 3 | `IdleClientOffline` is violated |
| `relay` | `MCEAcceptServer.cfg` | 3 workers, 3 ends (a client, its pair, the next client), 2 chunks in all, or 1 and one end that ends or resets | 124,416 states; three invariants, AcceptsAgain, ChunkForwarded |
| `parse` | `MCTParseUrl.cfg` | 3,689 URLs: queries of up to 3 of 13 fields, tails of 4 marks, 6 domains | RequestExact, ColonExact |
| `logchain` | `MCLogChain.cfg` | 1 thread that traces and Main, 2 lines, 2 threads of the log server; at most one of the two mains returns; one failure at the start (no file, a pool that is silent or refuses, Main's connection in the backlog) | 231,128 states; six invariants, ExitEnds, LineLogged |

The type invariants of the modules with a proof module are proved there
(`TypeCorrect`; for CLogServer in `TypeOK` of its `Invariance`), and were
checked by TLC before, as were those of ELogServer and TParseUrl; the runs
spend their time on the other properties. So are `LostOnlyByClose` and `ClosedForGood` of the pool,
which the refinement of TaskExecutor implies.

Why the bounds are enough for the interesting cases: two workers let one take
the quit packet while the other is in a task, in the port or in ClearIocpQueue;
three tasks fill both workers and leave one in the port; two callers race each
other and Close; two Starts reach the restarted pool. Two kernel threads reach
Restart after both ways of ending. Two clients and two queries interleave
changes of one client with questions of two callers, one of which may have
given up. In `server` three workers are the fewest with which two chunks of
one client can be in two hands while a third takes completions, and with which
chunks overtake each other (two workers keep the order: `DeliveredOnce` then
allows nothing late); two Accepts make one connection with the next Accept
waiting behind it. `server_two` has two workers, the fewest that can serve
and accept at all: with one CPU the loop of Start queues no ServerMain and
`AcceptsAgain` does not hold. It leaves out Close, and resets of the second
connection, to have two connections, one of which may have ended and keep the
workers busy while the other sends.

In `edoyun` TCP cuts before the blank end of the first request, behind the
method and inside the URL of the second, and at its end; so there are packets
with half a request, one, one and a bit, and two, those that are taken for a login
by the method of the next request or by half a URL, and the end of the stream
behind them; two threads race to queue packets and two workers to deal with
them. The first request is a POST, so that whatever is answered of it was mistaken.
A stream ends when all of it was sent, or nothing. Packets and the clock are explored in two halves (`NextHalves`): where
requests are sent the clock stands still and the timer has not begun, where the
timer runs the client connects and sends the end of its stream at most. The two
meet only in `m_tick`, which ClientRecvData sets in both halves. CheckEvery and
TimeOut are one tick, so that the clock's two ticks reach both sides of each
comparison (the timer's thread may be slow between its two readings of the
clock); `edoyun_timer` has no delay before the first check, which is kinder to
the code than it is, and a clock of 3. In `relay`
three ends are the fewest with which the right to accept comes back from the
pair to a next Accept, and three workers the fewest with which two are in
ServerMain: one serves a chunk while another makes the pair, and a chunk may
overtake one other. A chunk each way, or two one way, or one with one end that may
end or reset at any time, meet the pair before, while and after it connects. In
`parse` a field is a whole one, a broken one or a name that ends in another;
three of them put each before and behind each other. In `logchain` Main and one
thread are two actors for getInstance, and make two connections once the first
CLogServer was released; two lines in one packet or in two, and two threads
of the log server, reach the packets that overtake each other; `NextBounded`
leaves out the runs in which both programs end, in which a line may be lost for
either of the two reasons seen singly; `InitBounded` likewise takes one failure of
the start at a time, and the posts to the log program's map succeed. What several tracing threads do is proved
for any number of them.

Symmetry over workers is used in `server`, where only safety is checked.
Deadlock is not checked: an owner may stop calling, the tasks and the
queries are bounded, and a crashed process takes no step.

### What the violated properties show

- `StartResumes`. `Thread.h:53` says `int Start();//开始/恢复` (start / resume).
  Start calls ResumeThread only while `m_bValid` is false, and it is true as
  long as a paused thread is in its function: Start returns THREAD_OK and the
  thread stays suspended.
- `IdleClientOffline`. `EdoyunServer.h:32` says a user without data for a long
  time is taken to be offline, `EdoyunServer.cpp:86` that the clients are
  checked once a minute. OnTimer returns 0, and a thread's function is called
  again only when it returns THREAD_AGAIN: it is called once, when its static
  `tick` was just set, and OnClientTimeOut is practically never reached. An
  idle client stays in the map.
- `QueueClearedFirst`. `ThreadPool.cpp:109` and `:121` say a worker about to
  exit cleans the queue first. Close waits 100 ms and closes the port whoever
  is still in a task: the worker leaves at line 107 or 117, and the Task
  objects of the packets in the port are never deleted.

## Fairness

- `ThreadPool!FairSpec`: a Start or Close that began goes on, and each worker
  takes its own steps: threads of a preemptive scheduler, and every wait of
  Close has a time limit. Nothing is assumed of the function of a task (the
  step RunEnds): `QueuedTaskTaken` has the return of every function as its
  premise.
- `CThread!FairSpec`: a call of the owner goes on, the waits end, a thread
  that is not suspended runs. Nothing is assumed of the thread's function.
- `ClientMap!FairSpec`: the actor's thread runs; it never blocks longer than
  1 ms. Nothing is assumed of the callers.
- `AsynServer!FairSpec`: Start goes on, each worker takes its own steps: a
  worker may block only in GetQueuedCompletionStatus, since `CBusinessLayer`
  says of its calls "不要阻塞" (must not block, `AsynchronousModel.h:157-159`).
  Nothing is assumed of the peers, of the kernel or of Close.

- `EdoyunServer!FairSpec`: a Start that began goes on, the clock ticks, the
  timer's thread and each worker run, and the threads of the server hand on a
  packet with data that they hold. Nothing is assumed of the clients, nor of
  Close, nor of empty packets: `LoginAnswered` says that they cannot hold up a
  login for ever. `MCEdoyunServer!FairHalves` assumes the same but for the clock.
- `EAcceptServer!FairSpec`: each worker runs, and a ConnectEx that was started
  completes, as TCP sees to with a time-out. Nothing is assumed of the clients
  and the back end: either may be silent, end its stream or reset.
- `LogChain!Fairness`: the pool of each CLogServer and the threads of the log
  program run, and what was sent arrives where the connection was accepted. Neither main need return; when that of
  the log program has, ~CLogServer and ExitProcess go on, as far as fclose lets
  them.

## Proofs

The theorems hold for every value of the constants that satisfies the named
assumptions (`PoolAssumption`, `ThreadAssumption`, `ClientMapAssumption`,
`ServerAssumption`, `EdoyunAssumption`, `RelayAssumption`, `LogAssumption`,
`ParamsAssumption`). The last says that the names GetParam is asked for are not
empty and have no "&" and no "=" in them, as "time", "salt", "user" and "sign".

- `ThreadPoolProofs`: the invariants of the run `pool` and the refinement of
  TaskExecutor. `OneHolder` alone is not inductive: that a terminated worker's
  task is nobody else's needs the vector to name every thread there is
  (`VectorInv`), that a task lost with the port was lost by Close needs what
  each place of the owner says of `m_nStatus` and `m_hIocp` (`OwnerInv`), and
  that no packet is taken from a closed port needs `PortInv`. `IndInv` is
  their conjunction; one lemma per action shows that it is kept. The
  refinement then shows that each step moves every task along
  `TaskExecutor!Moves`, or leaves it alone; the phase "closed" is reached when
  no worker can take a task any more, and is never left (`NoTakerStays`).
- `CThreadProofs`: the invariants of the run `thread`, from an invariant that
  relates the owner's place, the handle and each thread's place.
- `ClientMapProofs`: the type invariant, `UsesOnlyLiving` and the refinement of
  ClientRegistry. The strengthening says that the messages in the port and
  in hand are of different calls, each waiting or given up, and none with its
  event set: so an answered call has no message left that points to its frame.
  For the refinement, `After(n)` says without recursion which clients there will
  be after the first n messages that wait. A step moves none of them, posts one
  behind them (`AfterPosted`) or takes the first away; when the actor handled
  that one, the clients after the others are the same as before
  (`AfterHandled`). So a post is the step the registry takes, and the actor's
  steps are none of its. An answer keeps what it was when its message was posted,
  because a call has one message at most (`AskedOnce`), and what the actor has
  written for it is still the map when it calls SetEvent (`WrittenInv`).
- `AsynServerProofs`: type correctness, `OneAccept`, `OneRecv`,
  `DeliveredOnce`, `RegisteredFirst` and `ServesWhileUp`. Of the last, `WorkersGoneFirst` is inductive by itself, and
  `CrashOnlyWhileStarting` needs that after Start either `m_business` is set or
  no worker runs (`BusinessInv`). For
  `RegisteredFirst` what a worker has in hand, what the kernel receives for and
  what waits in the port must be of clients AddClient was called for
  (`RegisterInv`); a client is never forgotten again (`KnownStays`). For
  `OneAccept` the right to accept is followed from the task to a worker, the
  kernel, the port and back to a task: `Exclusive` says that at most one of the
  four places has it, once, and `AcceptInv` that before Start has queued the
  first Accept none has. `OneRecv` goes the same way for each client
  (`RecvInv`): kernel, port, or a worker whose handler is to call Recv; it is
  never gone while the stream is open and the port there. `DeliveredOnce` needs
  what each place of ServerMain has in hand (`HandInv`), that a completion in
  the port fits its client and brings no chunk but the last that arrived
  (`KernelInv`), and for each client that what came is, each once, in the port,
  in a hand or told (`NewsInv`). That few are late is then a count: a chunk
  can be overtaken only in the hand of a worker in ServerMain, and the tasks
  and workers that are ServerMains are no more than Start has queued
  (`MainInv`), one less than the workers; another is the one that overtakes.

- `EdoyunServerProofs`: type correctness, `CrashOnlyWhileClosing`,
  `DroppedWasIdle`, `PacketsOnce`, `AnsweredOnce` and `LateBounded`. For the first the crash
  needs a worker in Exec after CloseDb, and no step leads there once CloseTaskStop
  is done. `DroppedWasIdle` is inductive with what the timer's tick says of its
  victim. `PacketsOnce` rests on packets of one client not overlapping wherever
  they are, and on each part that arrived lying in one of them; `AnsweredOnce`
  on that and on each answer being that of a packet in `dealt` that holds a whole
  request and a beginning of the URL of the request answered, from which two
  answers to one request would be two packets with the same part. For
  `LateBounded` each place a packet can be in has its bound (`LateInv`): the
  earlier ones that are not ahead of it in m_task were in the hands of
  m_server's other threads when it was put there (`QueuedLate`), which stays so
  when a worker takes it (`TakenLate`); only the other workers' packets come on
  top when it is done (`DealtLate`). None of the sets grows later on, because
  what arrives is not earlier than anything that has.
- `EdoyunServerProofs`, the URL parser (`RequestUrl`): `RequestExact` and
  `ColonExact`, for URLs of any length and any number of fields and digits. The
  invariant `Parsed` says that the fields of the object are what ParseUrl makes
  of the URL given last, from cleared fields; it fails when SetUrl does not
  clear. The rest is about the operators. `Shape` names the places of the marks
  in a regular URL; from it follows what FindStr finds of each mark
  (`ProtocolFound`, `SlashFound`, `ColonAt`), though it never sees the last
  position, and so the host, the uri and the three cases of the colon: none, in
  the domain, behind it (`ParsedIs`). For the port, counting from the first
  digit and adding up from the last give the same number (`SameNumber`), by
  induction on the digits. For GetParam, each place of "name=" in a well formed
  query is at the end of the name of one field, and the other way round
  (`NamedMatches`, `SuffixMatches`, `MatchField`); so the first place is a field
  of that name, or one whose name ends in it, and then the code gives up
  (`Sought`). The induction is by the least number at which a statement fails
  (`LeastOf`, `AllFromZero` of QueueLemmas), since the library's own theorems
  take an operator, which the provers cannot instantiate.
- `EAcceptServerProofs`: type correctness, `PairsMutual`, `OneAccept` and
  `DeliveredOnce`. The
  invariant `RInv` has three parts: what a worker has in hand where it stands
  (`Holds`); `Pairing`, that what is in hand, in the port and in the kernel is
  of ends that are old enough, and the pairs mutual but for the worker between
  its two assignments; and `Tokens`, that the right to accept is in one place,
  a task, a worker (`Bearers`), the kernel (`Pending`) or the port (`Done`),
  at most once (`Exclusive`), and nowhere exactly when an end was refused.
  The two depend on each other: a worker in ClientConnected of a client without
  a pair bears the right, one of a client with a pair does not. For
  `DeliveredOnce`, `RelayInv` adds: that the end a worker is about to pair is
  new, and the one it is about to send to the pair of the end it serves
  (`FreshInv`); one right to receive per end (`RecvInv`); that only the chunks
  of its pair are sent to an end (`SentInv`); that a chunk which arrived is in
  the port, in one hand, sent or lost, and in no two of these (`PlacesInv`);
  that none is sent twice, and that those lost although the pair is open came
  before it was (`OnceInv`); and that the tasks and workers that are
  ServerMains are always one less than the workers (`MainInv`), for the bound
  on how late chunks are. Each step is first shown to be of one of five kinds,
  for what it does to chunks: one arrives, is taken from the port, is passed on
  or dropped, or all stay where they are (`ChunkStep`); the invariants about
  chunks are then proved by kind.
- `LogChainProofs`, the log client: `OneInstance`, `DeletedNotUsed` and
  `SentInOrder`, for any number of threads. `InstanceInv` says what m_instance
  is at each place of Main, and that no thread is in the constructor before the
  release; `ReleaseInv` how far the release has come, and that a late TRACE
  that passed its test has a set m_instance, which is then never set to NULL
  again; `OrderInv` that the lines sent, in hand and waiting are, one behind the
  other, those the pool took, while it is open and connected (`InOrder`). One
  lemma per way in which a line moves shows that `InOrder` is kept.
- `LogChainProofs`, the chain: `ChainImplementsBoth` says that each behaviour of
  the chain is one of `CLogServer!Spec` and one of the instance of
  `ELogServer!Spec`, so what is proved of either by itself holds of the chain.
  `FileInOrder`, `EndsOnce` and `LateBounded` follow from `SinkInv`: what the
  threads of the log program's server have in hand (`HandInv`); in which order
  its pool stops taking packets, its object goes and its writer ends
  (`ClosingInv`); one right to receive per connection, given up for good with
  the end of the stream (`RightInv`); one place for each packet, and none lost
  while the pool takes them (`PlacesInv`), from which those missing before a
  packet that is taken are in the hands of the other threads (`LateInv`); and
  `WriteInv`, the `InOrder` of the log client once more, for the file, with the
  screen behind it by what the writer's place says (`ScreenInv`), or for the
  screen, when there is no file (`Out`).

`AsynServerProofs`, `EAcceptServerProofs` and `LogChainProofs` share the counting
lemmas of `QueueLemmas`: where packets of a kind wait in a queue, how many there
are before and after Append and Tail, and that workers hold no more things than
there are workers. TLC checked each strengthening as an invariant of the run of
its module before it was proved.

Only model-checked: the liveness properties (`CloseReturns`, `QueuedTaskTaken`,
`StopAlwaysReturns`, `MapCatchesUp`, `ChunkTold`, `AcceptsAgain`,
`LoginAnswered`, `ChunkForwarded`, `ExitEnds`, `LineLogged`), which need
fairness and ENABLED; and the violated properties.

## Plan

Done, in this order, each module using the abstract view of those below it:
`ThreadPool`, `CThread`, `ClientMap`; `AsynServer`; `EdoyunServer`;
`EAcceptServer`; `TParseUrl` and `RequestUrl`; `CLogServer`, `ELogServer` and `LogChain`. All
that the runs check but liveness is proved: the invariants and the refinements. What is left: a relay that is closed, and one whose back end is the
model of EdoyunServer.

## Not modelled

- Vendored code: googletest, jsoncpp, the headers of OpenSSL, SQLite, the MySQL
  client and jemalloc, and `http_parser.c`. This is nearly all of the source
  lines in the repository; the three programs themselves are a few thousand,
  and a good part of these are the three copies of the same files. Of
  http_parser the models use what its callbacks tell CHttpParser, as
  DealPacket uses it.
- Of the log programs: the text of a line, the directory and the name of the log
  file, the formatting helpers of the log program's own LogServer.cpp, which
  nothing calls, and what its server shares with the others (Accept, Close, the
  client map), which is the code of `AsynServer` and `ClientMap`.
- The statements that Sqlite3Client and MysqlClient build, transactions, and
  the table classes: nothing in the program calls them but for the one Exec of
  UserLogin, whose result only decides the wording of the answer.
- COpenSSLHelper, one call of MD5; the formatting of log lines and of HTTP
  responses; the main functions. CTaskActuator passes its calls to the pool and
  only chooses the number of threads, a constant of the models.
- Memory: what is leaked (OperatorOverlapped of completions that failed, clients
  that were dropped) has no property. In particular a client that left the map
  is served as before, since DelClient does not close its socket.
