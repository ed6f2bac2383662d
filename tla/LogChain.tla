------------------------------- MODULE LogChain -------------------------------
(***************************************************************************)
(* The way of a log line: a program with its CLogServer, and the log       *)
(* program (Sink), which sees the connection of each CLogServer as one of  *)
(* its clients.  TCP between them is external: a packet of the Sink holds  *)
(* some lines of the wire in a row, whichever a WSARecv happened to find.  *)
(***************************************************************************)
EXTENDS CLogServer

CONSTANTS Servers       \* the threads in the Sink's ServerMain

ASSUME SinkAssumption == IsFiniteSet(Threads) /\ IsFiniteSet(Servers)

VARIABLES
    conn, recvs, received, port, server, hand, m_mapClients, instance,
    logThread, m_pFile, logQueue, writer, packet, lock, file, screen, main, ends,
    logAccepted, logWild,
    upto        \* per packet of a connection: the last line of the wire in it

(* A packet holds a line at least.                                         *)
Sink == INSTANCE ELogServer WITH
            Clients <- Actors, MaxPackets <- MaxLines * Cardinality(Threads),
            m_pThread <- logThread, queue <- logQueue, accepted <- logAccepted, wild <- logWild

sinkVars == << conn, recvs, received, port, server, hand, m_mapClients,
               instance, logThread, m_pFile, logQueue, writer, packet, lock,
               file, screen, main, ends, logAccepted, logWild >>
chainVars == << vars, sinkVars, upto >>

ChainInit ==
    /\ Init /\ Sink!Init
    /\ upto = [c \in Actors |-> << >>]

-----------------------------------------------------------------------------
(* The lines of c's wire that have arrived.                                *)
Arrived(c) == IF upto[c] = << >> THEN 0 ELSE upto[c][Len(upto[c])]

(* WSARecv completes with some of the lines sent.                          *)
Arrives(c) ==
    /\ Sink!PacketArrives(c)
    /\ \E n \in Arrived(c) + 1 .. Len(wire[c]) :
           upto' = [upto EXCEPT ![c] = Append(@, n)]
    /\ UNCHANGED vars

(* The program has closed its socket, or has ended.                        *)
SourceEnds(c) ==
    /\ Sink!PeerEnds(c)
    /\ m_socket[c] = "closed" \/ (place[Main] = "exited" /\ object[c] = "made")
    /\ conn'[c] = "eof" => Arrived(c) = Len(wire[c])
    /\ UNCHANGED << vars, upto >>

(* The Sink has ended: what is sent from here on is lost.                  *)
SinkEnds(c) ==
    /\ ConnectionBreaks(c)
    /\ main = "exited"
    /\ UNCHANGED << sinkVars, upto >>

(* The connect of a new CLogServer succeeds while the Sink runs.           *)
Connects(c) ==
    m_socket[c] = "none" =>
        m_socket'[c] \in {"none", IF main = "exited" THEN "broken" ELSE "connected"}

SourceStep ==
    /\ \/ \E t \in Threads : TRACE(t)
       \/ \E c \in Actors : Pool(c)
       \/ MainThread
    /\ \A c \in Actors : Connects(c)
    /\ UNCHANGED << sinkVars, upto >>

SinkStep ==
    /\ \/ \E s \in Servers : Sink!ServerMain(s)
       \/ \E w \in Sink!Writers : Sink!WriteLog(w)
       \/ \E c \in Actors : Sink!RecvEnds(c)
       \/ Sink!MainThread
    /\ UNCHANGED << vars, upto >>

ChainNext == \/ SourceStep
             \/ SinkStep
             \/ \E c \in Actors : Arrives(c) \/ SourceEnds(c) \/ SinkEnds(c)

ChainSpec == ChainInit /\ [][ChainNext]_chainVars

(* The threads of both programs run, what was sent arrives, and a WSARecv  *)
(* of a stream that ended completes.  Neither main need return; when that  *)
(* of the Sink has, it goes on.                                            *)
Fairness ==
    /\ \A c \in Actors : WF_chainVars(Pool(c) /\ UNCHANGED << sinkVars, upto >>)
    /\ \A c \in Actors : WF_chainVars(Arrives(c))
    /\ \A s \in Servers : WF_chainVars(Sink!ServerMain(s) /\ UNCHANGED << vars, upto >>)
    /\ \A w \in Sink!Writers : WF_chainVars(Sink!WriteLog(w) /\ UNCHANGED << vars, upto >>)
    /\ WF_chainVars((Sink!releaseInstance \/ Sink!ExitProcess) /\ UNCHANGED << vars, upto >>)

ChainFairSpec == ChainSpec /\ Fairness

-----------------------------------------------------------------------------
(* PROPERTIES                                                              *)

(* See module ELogServer.                                                  *)
FileInOrder == Sink!FileInOrder
EndsOnce == Sink!EndsOnce
LateBounded == Sink!LateBounded
ExitEnds == Sink!ExitEnds

Sent(c, l) == \E n \in DOMAIN wire[c] : wire[c][n] = l

(* Line l was written in the packet it came with: to the file, or, when    *)
(* that could not be opened, to the standard output.                       *)
Logged(l) ==
    \E c \in Actors : \E n \in DOMAIN wire[c], k \in DOMAIN upto[c] :
        /\ wire[c][n] = l
        /\ n \leq upto[c][k] /\ (k > 1 => upto[c][k - 1] < n)
        /\ Sink!IsIn(<< c, k >>, IF m_pFile = "null" THEN screen ELSE file)

(* A line the pool of a connected CLogServer took is logged, if the pool   *)
(* of the log program runs and that accepted the connection.  It is, too,  *)
(* when the program that traced it ends right after the line was sent; it  *)
(* may get lost when that resets the connection, when the line was not     *)
(* sent yet as main returned, or when the log program ends.                *)
LineLogged ==
    \A l \in Line :
        (\E c \in Actors : /\ m_pThread[c] = "running" /\ m_socket[c] = "connected"
                          /\ Sink!IsIn(l, queue[c]))
            ~> \/ Logged(l)
               \/ place[Main] # "main" /\ \A c \in Actors : ~Sent(c, l)
               \/ \E c \in Actors : Sent(c, l) /\ conn[c] \in {"backlog", "reset"}
               \/ main # "getchar" \/ logThread # "running"
=============================================================================
