------------------------------ MODULE ELogServer ------------------------------
(***************************************************************************)
(* The log program (ELogServer/): a socket server that passes each packet  *)
(* it receives to its own CLogServer, whose pool of one thread writes it   *)
(* to the log file and to the standard output.  When main returns, the     *)
(* static m_helper deletes the CLogServer while the threads of the server  *)
(* still run: nothing closes the server.                                   *)
(*                                                                         *)
(* The socket server is the variant of AsynServer in this directory, which *)
(* arms Recv again only after a packet with data.  Its pool is seen as the *)
(* threads that are in ServerMain, one less than there are CPUs; Accept    *)
(* and Close are those of module AsynServer.  The kernel, the peers and    *)
(* the C library are external.  What a client sends arrives in packets     *)
(* 1, 2, ..., one per WSARecv; packet 0 is the end of its stream.          *)
(***************************************************************************)
EXTENDS Naturals, Sequences, FiniteSets

CONSTANTS
    Clients,        \* the connections
    Servers,        \* the threads in ServerMain
    MaxPackets      \* bound: packets of one client

Packet == Clients \X (1 .. MaxPackets)

(* Mutant: Start(2)                                                        *)
TwoWriters == 1 .. 2

(* m_pThread->Start(1)                                                     *)
Writers == {1}

VARIABLES
    conn,           \* of each client: "backlog", "open", "eof", "reset"
    recvs,          \* WSARecv operations under way for a client
    received,       \* packets that arrived from a client
    port,           \* the completions that wait: << client, packet >>
    server, hand,   \* where each thread of the server stands, and its packet
    m_mapClients,   \* the clients in the map
    instance,       \* CLogServer and m_instance: "made", "deleted", "null"
    m_pThread,      \* its pool: "running", "silent", "refusing", "closed"
    m_pFile,        \* its file: "open", "null", "closed"
    queue,          \* the packets that wait in its pool
    writer, packet, \* where the threads of the pool stand, and their packets
    lock,           \* who has the lock of the file's stream: a writer, or 0
    file,           \* the packets in the file
    screen,         \* the packets on the standard output
    main,           \* where main stands
    ends,           \* ghost: how often the end of each stream was passed on
    accepted,       \* ghost: the packets the pool took, in order
    wild            \* ghost: threads of the server that used a deleted object

kernelVars == << conn, recvs, received, port >>
serverVars == << server, hand, m_mapClients, ends, wild >>
logVars == << instance, m_pThread, m_pFile, queue, accepted >>
writeVars == << writer, packet, lock, file, screen >>
vars == << kernelVars, serverVars, logVars, writeVars, main >>

NoClient == << >>

-----------------------------------------------------------------------------
WriterPlaces == {"get", "lock", "write", "flush", "flushing", "stdout", "ended", "killed"}

TypeOK ==
    /\ conn \in [Clients -> {"backlog", "open", "eof", "reset"}]
    /\ recvs \in [Clients -> 0 .. 1]
    /\ received \in [Clients -> 0 .. MaxPackets]
    /\ port \in Seq(Clients \X (0 .. MaxPackets))
    /\ server \in [Servers -> {"get", "rearm", "recvdata", "add", "wild"}]
    /\ hand \in [Servers -> (Clients \X (0 .. MaxPackets)) \cup {NoClient}]
    /\ m_mapClients \subseteq Clients
    /\ instance \in {"made", "deleted", "null"}
    /\ m_pThread \in {"running", "silent", "refusing", "closed"}
    /\ m_pFile \in {"open", "null", "closed"}
    /\ queue \in Seq(Packet)
    /\ writer \in [Writers -> WriterPlaces]
    /\ packet \in [Writers -> Packet \cup {NoClient}]
    /\ lock \in Writers \cup {0}
    /\ file \in Seq(Packet) /\ screen \in Seq(Packet)
    /\ main \in {"getchar", "close", "stop", "fclose", "delete", "null", "exit", "exited"}
    /\ ends \in [Clients -> Nat]
    /\ accepted \in Seq(Packet)
    /\ wild \subseteq Servers

(* CLogServer(), whose file may not open, and whose pool may not start: it *)
(* takes no packet, or, when CreateThread failed, takes packets that       *)
(* nobody takes out.                                                       *)
Construct ==
    /\ instance = "made"
    /\ m_pFile \in {"open", "null"}
    /\ m_pThread \in {"running", "silent", "refusing"}

(* The static CLogServer is there, the server runs, and each client has    *)
(* been accepted: AddClient, whose post may fail, and Recv; or it never    *)
(* will be, as the accept chain broke, and stays in the backlog.           *)
Init ==
    /\ Construct
    /\ conn \in [Clients -> {"open", "backlog"}]
    /\ recvs = [c \in Clients |-> IF conn[c] = "open" THEN 1 ELSE 0]
    /\ m_mapClients \in SUBSET {c \in Clients : conn[c] = "open"}
    /\ received = [c \in Clients |-> 0]
    /\ port = << >>
    /\ server = [s \in Servers |-> "get"]
    /\ hand = [s \in Servers |-> NoClient]
    /\ queue = << >> /\ accepted = << >>
    /\ writer = [w \in Writers |-> "get"]
    /\ packet = [w \in Writers |-> NoClient]
    /\ lock = 0 /\ file = << >> /\ screen = << >>
    /\ main = "getchar"
    /\ ends = [c \in Clients |-> 0]
    /\ wild = {}

(* ExitProcess ends every thread.                                          *)
Alive == main # "exited"

-----------------------------------------------------------------------------
(* The kernel and the peers.                                               *)

(* A packet arrives.                                                       *)
PacketArrives(c) ==
    /\ Alive
    /\ conn[c] = "open" /\ recvs[c] > 0 /\ received[c] < MaxPackets
    /\ received' = [received EXCEPT ![c] = @ + 1]
    /\ recvs' = [recvs EXCEPT ![c] = @ - 1]
    /\ port' = Append(port, << c, received[c] + 1 >>)
    /\ UNCHANGED << conn, serverVars, logVars, writeVars, main >>

(* Or no more: a WSARecv completes with 0 bytes.  That of a reset          *)
(* connection fails, and ServerMain skips its completion.                  *)
RecvEnds(c) ==
    /\ Alive
    /\ conn[c] \in {"eof", "reset"} /\ recvs[c] > 0
    /\ recvs' = [recvs EXCEPT ![c] = @ - 1]
    /\ port' = IF conn[c] = "eof" THEN Append(port, << c, 0 >>) ELSE port
    /\ UNCHANGED << conn, received, serverVars, logVars, writeVars, main >>

PeerEnds(c) ==
    /\ Alive
    /\ conn[c] = "open" /\ conn' \in {[conn EXCEPT ![c] = e] : e \in {"eof", "reset"}}
    /\ UNCHANGED << recvs, received, port, serverVars, logVars, writeVars, main >>

-----------------------------------------------------------------------------
(* A thread of the server: ServerMain, case 2.                             *)

Goes(s, from, to) ==
    /\ Alive
    /\ server[s] = from
    /\ server' = [server EXCEPT ![s] = to]

GetCompletion(s) ==
    /\ port # << >>
    /\ Goes(s, "get", "rearm")
    /\ hand' = [hand EXCEPT ![s] = Head(port)]
    /\ port' = Tail(port)
    /\ UNCHANGED << conn, recvs, received, m_mapClients, ends, wild, logVars,
                    writeVars, main >>

(* Mutant: Recv is armed after the end of the stream, too, as the player   *)
(* server does.                                                            *)
RearmAlways(s) ==
    /\ Goes(s, "rearm", "recvdata")
    /\ recvs' = [recvs EXCEPT ![hand[s][1]] = @ + 1]
    /\ UNCHANGED << conn, received, port, hand, m_mapClients, ends, wild,
                    logVars, writeVars, main >>

(* if (NOBT > 0) Recv(); the kernel refuses it on a reset connection.      *)
Rearm(s) ==
    /\ Goes(s, "rearm", "recvdata")
    /\ LET c == hand[s][1] IN
           recvs' = IF hand[s][2] > 0 /\ conn[c] # "reset"
                    THEN [recvs EXCEPT ![c] = @ + 1] ELSE recvs
    /\ UNCHANGED << conn, received, port, hand, m_mapClients, ends, wild,
                    logVars, writeVars, main >>

(* ClientRecvData, no data: m_server->DelClient(client), whose post may    *)
(* fail.                                                                   *)
ClientEnds(s) ==
    /\ Goes(s, "recvdata", "get")
    /\ hand[s][2] = 0
    /\ hand' = [hand EXCEPT ![s] = NoClient]
    /\ m_mapClients' \in {m_mapClients, m_mapClients \ {hand[s][1]}}
    /\ ends' = [ends EXCEPT ![hand[s][1]] = @ + 1]
    /\ UNCHANGED << kernelVars, wild, logVars, writeVars, main >>

(* ClientRecvData, data: m_logger->Trace(packet), which is static and does *)
(* nothing when m_instance is NULL.                                        *)
TestInstance(s) ==
    /\ Goes(s, "recvdata", IF instance = "null" THEN "get" ELSE "add")
    /\ hand[s][2] > 0
    /\ hand' = IF instance = "null" THEN [hand EXCEPT ![s] = NoClient] ELSE hand
    /\ UNCHANGED << kernelVars, m_mapClients, ends, wild, logVars, writeVars, main >>

Takes == m_pThread \in {"running", "silent"}

(* Mutant: a post whose result is taken for a failure is repeated.         *)
AddTaskTwice(s) ==
    /\ instance = "made"
    /\ Goes(s, "add", "get")
    /\ hand' = [hand EXCEPT ![s] = NoClient]
    /\ IF Takes THEN /\ queue' = queue \o << hand[s], hand[s] >>
                         /\ accepted' = accepted \o << hand[s], hand[s] >>
                    ELSE UNCHANGED << queue, accepted >>
    /\ UNCHANGED << kernelVars, m_mapClients, ends, wild, instance, m_pThread,
                    m_pFile, writeVars, main >>

(* m_instance->m_pThread->AddTask(...)                                     *)
AddTask(s) ==
    /\ instance = "made"
    /\ Goes(s, "add", "get")
    /\ hand' = [hand EXCEPT ![s] = NoClient]
    /\ IF Takes THEN /\ queue' = Append(queue, hand[s])
                         /\ accepted' = Append(accepted, hand[s])
                    ELSE UNCHANGED << queue, accepted >>
    /\ UNCHANGED << kernelVars, m_mapClients, ends, wild, instance, m_pThread,
                    m_pFile, writeVars, main >>

(* The same, when the object has gone since the test: undefined.           *)
AddTaskDeleted(s) ==
    /\ instance # "made"
    /\ Goes(s, "add", "wild")
    /\ wild' = wild \cup {s}
    /\ UNCHANGED << kernelVars, hand, m_mapClients, ends, logVars, writeVars, main >>

-----------------------------------------------------------------------------
(* A thread of CLogServer's pool: WriteLog.                                *)

Steps(w, from, to) ==
    /\ Alive
    /\ writer[w] = from
    /\ writer' = [writer EXCEPT ![w] = to]

(* if (pFile != NULL)                                                      *)
ToFile == IF m_pFile = "open" THEN "lock" ELSE "stdout"

(* Mutant: the thread ends with its first task.                            *)
TakePacketOnce(w) ==
    /\ m_pThread = "running" /\ queue # << >> /\ screen = << >>
    /\ Steps(w, "get", ToFile)
    /\ packet' = [packet EXCEPT ![w] = Head(queue)]
    /\ queue' = Tail(queue)
    /\ UNCHANGED << kernelVars, serverVars, instance, m_pThread, m_pFile, accepted,
                    lock, file, screen, main >>

TakePacket(w) ==
    /\ m_pThread = "running" /\ queue # << >>
    /\ Steps(w, "get", ToFile)
    /\ packet' = [packet EXCEPT ![w] = Head(queue)]
    /\ queue' = Tail(queue)
    /\ UNCHANGED << kernelVars, serverVars, instance, m_pThread, m_pFile, accepted,
                    lock, file, screen, main >>

(* fwrite, and after it fflush, take the lock of the stream, ...           *)
LockFile(w) ==
    /\ lock = 0
    /\ Steps(w, "lock", "write") \/ Steps(w, "flush", "flushing")
    /\ lock' = w
    /\ UNCHANGED << kernelVars, serverVars, logVars, packet, file, screen, main >>

(* ... and each lets it go; the packet is in the stream, which fclose      *)
(* would flush as well.                                                    *)
WriteFile(w) ==
    /\ Steps(w, "write", "flush")
    /\ file' = Append(file, packet[w])
    /\ lock' = 0
    /\ UNCHANGED << kernelVars, serverVars, logVars, packet, screen, main >>

(* Mutant: the lock is kept.                                               *)
FlushFileKeepsLock(w) ==
    /\ Steps(w, "flushing", "stdout")
    /\ UNCHANGED << kernelVars, serverVars, logVars, packet, lock, file, screen, main >>

FlushFile(w) ==
    /\ Steps(w, "flushing", "stdout")
    /\ lock' = 0
    /\ UNCHANGED << kernelVars, serverVars, logVars, packet, file, screen, main >>

WriteStdout(w) ==
    /\ Steps(w, "stdout", "get")
    /\ screen' = Append(screen, packet[w])
    /\ packet' = [packet EXCEPT ![w] = NoClient]
    /\ UNCHANGED << kernelVars, serverVars, logVars, lock, file, main >>

-----------------------------------------------------------------------------
(* The end of the program: releaseInstance and ~CLogServer().              *)

MainGoes(from, to) == main = from /\ main' = to

(* m_pThread->Close() lets the queue go ...                                *)
CloseQueue ==
    /\ MainGoes("getchar", "stop")
    /\ m_pThread' = "closed" /\ queue' = << >>
    /\ UNCHANGED << kernelVars, serverVars, instance, m_pFile, accepted, writeVars >>

(* ... and waits 10 ms for the thread, or terminates it, in fwrite, too.   *)
Stop ==
    /\ MainGoes("stop", "fclose")
    /\ writer' = [w \in Writers |-> IF writer[w] = "get" THEN "ended" ELSE "killed"]
    /\ UNCHANGED << kernelVars, serverVars, logVars, packet, lock, file, screen >>

(* fclose, where there is a file, waits for the lock of the stream.        *)
CloseFile ==
    /\ MainGoes("fclose", "delete")
    /\ \/ m_pFile = "open" /\ lock = 0 /\ m_pFile' = "closed"
       \/ m_pFile = "null" /\ UNCHANGED m_pFile
    /\ UNCHANGED << kernelVars, serverVars, instance, m_pThread, queue, accepted,
                    writeVars >>

Delete ==
    /\ MainGoes("delete", "null")
    /\ instance' = "deleted"
    /\ UNCHANGED << kernelVars, serverVars, m_pThread, m_pFile, queue, accepted,
                    writeVars >>

SetNull ==
    /\ MainGoes("null", "exit")
    /\ instance' = "null"
    /\ UNCHANGED << kernelVars, serverVars, m_pThread, m_pFile, queue, accepted,
                    writeVars >>

ExitProcess ==
    /\ MainGoes("exit", "exited")
    /\ UNCHANGED << kernelVars, serverVars, logVars, writeVars >>

-----------------------------------------------------------------------------
ServerMain(s) == GetCompletion(s) \/ Rearm(s) \/ ClientEnds(s)
                 \/ TestInstance(s) \/ AddTask(s) \/ AddTaskDeleted(s)

WriteLog(w) == TakePacket(w) \/ LockFile(w) \/ WriteFile(w) \/ FlushFile(w)
               \/ WriteStdout(w)

Kernel(c) == PacketArrives(c) \/ RecvEnds(c) \/ PeerEnds(c)

releaseInstance == Stop \/ CloseFile \/ Delete \/ SetNull

MainThread == CloseQueue \/ releaseInstance \/ ExitProcess

Next == \/ \E c \in Clients : Kernel(c)
        \/ \E s \in Servers : ServerMain(s)
        \/ \E w \in Writers : WriteLog(w)
        \/ MainThread

Spec == Init /\ [][Next]_vars

-----------------------------------------------------------------------------
(* PROPERTIES                                                              *)

IsIn(x, seq) == \E n \in DOMAIN seq : seq[n] = x

InFront(s, t) == Len(s) \leq Len(t) /\ \A n \in 1 .. Len(s) : s[n] = t[n]

(* The file and the standard output hold what the pool took, in that order *)
(* and without a gap; the file is ahead by one packet at most, or empty,   *)
(* when it could not be opened.  So packets of two clients are never       *)
(* mixed, and the pool's one thread is what keeps them apart.              *)
FileInOrder ==
    /\ InFront(file, accepted) /\ InFront(screen, accepted)
    /\ IF m_pFile = "null" THEN file = << >>
       ELSE Len(screen) \in {Len(file), Len(file) - 1}

(* Each packet is logged at most once.  Threads of the server overtake     *)
(* each other between Recv and AddTask, so that a packet may be logged     *)
(* before earlier ones of its client; but for one less than there are      *)
(* threads, all the earlier ones have been taken, while the log takes any. *)
LateBounded ==
    /\ \A m, n \in DOMAIN accepted : accepted[m] = accepted[n] => m = n
    /\ Takes => \A n \in DOMAIN accepted :
           Cardinality({k \in 1 .. accepted[n][2] - 1 :
               ~IsIn(<< accepted[n][1], k >>, accepted)}) < Cardinality(Servers)

(* The end of a stream is passed on once, after which nothing is received: *)
(* unlike the player server, this one does not serve it again and again.   *)
EndsOnce ==
    \A c \in Clients :
        /\ ends[c] \leq 1
        /\ ends[c] = 1 => recvs[c] = 0 /\ ~IsIn(<< c, 0 >>, port)

(* Once main has returned the program ends, unless a writer was terminated *)
(* while it held the lock of the file: then fclose waits forever.          *)
ExitEnds ==
    main # "getchar" ~>
        main = "exited" \/ \E w \in Writers : lock = w /\ writer[w] = "killed"
=============================================================================
