------------------------------ MODULE CLogServer ------------------------------
(***************************************************************************)
(* The log client of the player server and of the relay (CLogServer in     *)
(* EPlayerServer/LogServer.cpp): TRACE looks the one CLogServer up, makes  *)
(* it if there is none, and queues the line to its pool of one thread,     *)
(* which sends it to the log program.  A static object, m_helper, makes    *)
(* the CLogServer before main begins and deletes it after main returned,   *)
(* when the threads of the program still run.                              *)
(*                                                                         *)
(* The pool is seen as TaskExecutor promises it.  The log program and the  *)
(* connection to it are external.  A CLogServer object goes by the actor   *)
(* that made it: a thread makes one at most, after m_helper has set        *)
(* m_instance to NULL, which nobody does again.                            *)
(***************************************************************************)
EXTENDS Naturals, Sequences, FiniteSets

CONSTANTS
    Threads,        \* the threads of the program that use TRACE
    Main,           \* the thread that runs main, and m_helper before and after
    NULL,
    MaxLines        \* bound: how often a thread uses TRACE

ASSUME LogAssumption ==
    /\ Main \notin Threads
    /\ NULL \notin Threads \cup {Main}
    /\ MaxLines \in Nat

Actors == Threads \cup {Main}
Line == Threads \X (1 .. MaxLines)

VARIABLES
    m_instance,     \* the actor whose object it points to, or NULL
    object,         \* each CLogServer: "none", "made", or "deleted"
    m_pThread,      \* its pool: "none", "running", "silent", "refusing", "closed"
    queue,          \* the lines that wait in the pool
    busy,           \* the lines in the hands of its threads
    m_socket,       \* its connection: "none", "connected", "broken", "closed"
    wire,           \* the lines sent on the connection
    place,          \* where each actor stands
    traced,         \* how often each thread has used TRACE
    accepted,       \* ghost: the lines each pool took, in order
    late,           \* ghost: threads whose TRACE began after the release
    wild            \* ghost: threads that used a deleted object

objectVars == << object, m_pThread, queue, busy, m_socket, wire, accepted >>
vars == << m_instance, objectVars, place, traced, late, wild >>

-----------------------------------------------------------------------------
TracePlaces == {"idle", "get", "construct", "store", "test", "add", "wild"}
ReleasePlaces == {"status", "stop", "closesocket", "delete", "null"}
MainPlaces == {"get", "construct", "store", "main"} \cup ReleasePlaces
              \cup {"exit", "exited"}

TypeOK ==
    /\ m_instance \in Actors \cup {NULL}
    /\ object \in [Actors -> {"none", "made", "deleted"}]
    /\ m_pThread \in [Actors -> {"none", "running", "silent", "refusing", "closed"}]
    /\ queue \in [Actors -> Seq(Line)]
    /\ busy \in [Actors -> Seq(Line)]
    /\ m_socket \in [Actors -> {"none", "connected", "broken", "closed"}]
    /\ wire \in [Actors -> Seq(Line)]
    /\ place \in [Actors -> TracePlaces \cup MainPlaces]
    /\ traced \in [Threads -> 0 .. MaxLines]
    /\ accepted \in [Actors -> Seq(Line)]
    /\ late \subseteq Threads
    /\ wild \subseteq Threads

(* CLoggerHelper() calls getInstance.                                      *)
Init ==
    /\ m_instance = NULL
    /\ object = [a \in Actors |-> "none"]
    /\ m_pThread = [a \in Actors |-> "none"]
    /\ m_socket = [a \in Actors |-> "none"]
    /\ queue = [a \in Actors |-> << >>]
    /\ busy = [a \in Actors |-> << >>]
    /\ wire = [a \in Actors |-> << >>]
    /\ accepted = [a \in Actors |-> << >>]
    /\ place = [a \in Actors |-> IF a = Main THEN "get" ELSE "idle"]
    /\ traced = [t \in Threads |-> 0]
    /\ late = {} /\ wild = {}

(* ExitProcess ends every thread.                                          *)
Alive == place[Main] # "exited"

(* Mutant: threads of the program start before m_helper is made.           *)
AnyTime == TRUE

(* main has been called, so that there are other threads.                  *)
MainCalled == place[Main] \notin {"get", "construct", "store"}

Goes(a, from, to) ==
    /\ Alive
    /\ place[a] = from
    /\ place' = [place EXCEPT ![a] = to]

-----------------------------------------------------------------------------
(* getInstance, by any actor.                                              *)

AfterGet(a) == IF a = Main THEN "main" ELSE "test"

GetInstance(a) ==
    /\ Goes(a, "get", IF m_instance = NULL THEN "construct" ELSE AfterGet(a))
    /\ UNCHANGED << m_instance, objectVars, traced, late, wild >>

(* CLogServer(): the results of connect and Start are not looked at.  A    *)
(* pool that did not start takes no line; one whose CreateThread failed    *)
(* takes them, and nobody takes them out.                                  *)
Construct(a) ==
    /\ Goes(a, "construct", "store")
    /\ object' = [object EXCEPT ![a] = "made"]
    /\ \E p \in {"running", "silent", "refusing"} :
           m_pThread' = [m_pThread EXCEPT ![a] = p]
    /\ \E s \in {"connected", "broken"} :
           m_socket' = [m_socket EXCEPT ![a] = s]
    /\ UNCHANGED << m_instance, queue, busy, wire, accepted, traced, late, wild >>

Store(a) ==
    /\ Goes(a, "store", AfterGet(a))
    /\ m_instance' = a
    /\ UNCHANGED << objectVars, traced, late, wild >>

-----------------------------------------------------------------------------
(* TRACE, by a thread: getInstance()->Trace(LogInfo(...)).                 *)

Released == place[Main] \in {"exit", "exited"}

CallTrace(t) ==
    /\ MainCalled /\ traced[t] < MaxLines
    /\ Goes(t, "idle", "get")
    /\ traced' = [traced EXCEPT ![t] = @ + 1]
    /\ late' = IF Released THEN late \cup {t} ELSE late
    /\ UNCHANGED << m_instance, objectVars, wild >>

(* Trace is static: it reads m_instance, for the test and again for use.   *)
TestInstance(t) ==
    /\ Goes(t, "test", IF m_instance = NULL THEN "idle" ELSE "add")
    /\ UNCHANGED << m_instance, objectVars, traced, late, wild >>

(* m_instance->m_pThread->AddTask(...); a line it refuses is dropped.      *)
AddTask(t) ==
    /\ Goes(t, "add", "idle")
    /\ m_instance # NULL /\ object[m_instance] = "made"
    /\ LET i == m_instance
           l == << t, traced[t] >>
       IN  IF m_pThread[i] \in {"running", "silent"}
           THEN /\ queue' = [queue EXCEPT ![i] = Append(@, l)]
                /\ accepted' = [accepted EXCEPT ![i] = Append(@, l)]
           ELSE UNCHANGED << queue, accepted >>
    /\ UNCHANGED << m_instance, object, m_pThread, busy, m_socket, wire, traced,
                    late, wild >>

(* The same, when the object has gone since the test: undefined.           *)
AddTaskDeleted(t) ==
    /\ Goes(t, "add", "wild")
    /\ m_instance # NULL => object[m_instance] = "deleted"
    /\ wild' = wild \cup {t}
    /\ UNCHANGED << m_instance, objectVars, traced, late >>

-----------------------------------------------------------------------------
(* The pool of CLogServer i.                                               *)

(* Mutant: Start(2)                                                        *)
TwoThreads == 2

(* m_pThread->Start(1)                                                     *)
PoolThreads == 1

TakeLine(i) ==
    /\ Alive
    /\ m_pThread[i] = "running" /\ queue[i] # << >>
    /\ Len(busy[i]) < PoolThreads
    /\ queue' = [queue EXCEPT ![i] = Tail(@)]
    /\ busy' = [busy EXCEPT ![i] = Append(@, Head(queue[i]))]
    /\ UNCHANGED << m_instance, object, m_pThread, m_socket, wire, accepted,
                    place, traced, late, wild >>

Without(s, n) == SubSeq(s, 1, n - 1) \o SubSeq(s, n + 1, Len(s))

(* send; its result is not looked at.                                      *)
WriteLog(i) ==
    /\ Alive
    /\ \E n \in DOMAIN busy[i] :
           /\ busy' = [busy EXCEPT ![i] = Without(@, n)]
           /\ wire' = IF m_socket[i] = "connected"
                      THEN [wire EXCEPT ![i] = Append(@, busy[i][n])]
                      ELSE wire
    /\ UNCHANGED << m_instance, object, m_pThread, queue, m_socket, accepted,
                    place, traced, late, wild >>

(* The log program goes, or the connection to it breaks: for good.         *)
ConnectionBreaks(i) ==
    /\ Alive
    /\ m_socket[i] = "connected"
    /\ m_socket' = [m_socket EXCEPT ![i] = "broken"]
    /\ UNCHANGED << m_instance, object, m_pThread, queue, busy, wire, accepted,
                    place, traced, late, wild >>

-----------------------------------------------------------------------------
(* The end of the program: main has returned, ~CLoggerHelper().            *)

(* releaseInstance: delete m_instance, where there is one.                 *)
MainReturns ==
    /\ Goes(Main, "main", IF m_instance = NULL THEN "exit" ELSE "status")
    /\ UNCHANGED << m_instance, objectVars, traced, late, wild >>

(* ~CLogServer(): m_pThread->Close() lets the queue go ...                 *)
CloseQueue ==
    /\ Goes(Main, "status", "stop")
    /\ m_pThread' = [m_pThread EXCEPT ![m_instance] = "closed"]
    /\ queue' = [queue EXCEPT ![m_instance] = << >>]
    /\ UNCHANGED << m_instance, object, busy, m_socket, wire, accepted, traced,
                    late, wild >>

(* ... and waits 10 ms for the thread, or terminates it.                   *)
StopThread ==
    /\ Goes(Main, "stop", "closesocket")
    /\ busy' = [busy EXCEPT ![m_instance] = << >>]
    /\ UNCHANGED << m_instance, object, m_pThread, queue, m_socket, wire,
                    accepted, traced, late, wild >>

CloseSocket ==
    /\ Goes(Main, "closesocket", "delete")
    /\ m_socket' = [m_socket EXCEPT ![m_instance] = "closed"]
    /\ UNCHANGED << m_instance, object, m_pThread, queue, busy, wire, accepted,
                    traced, late, wild >>

(* The members and the memory go.                                          *)
Delete ==
    /\ Goes(Main, "delete", "null")
    /\ object' = [object EXCEPT ![m_instance] = "deleted"]
    /\ UNCHANGED << m_instance, m_pThread, queue, busy, m_socket, wire, accepted,
                    traced, late, wild >>

(* Mutant: the pointer keeps its value.                                    *)
SetNullForgotten ==
    /\ Goes(Main, "null", "exit")
    /\ UNCHANGED << m_instance, objectVars, traced, late, wild >>

SetNull ==
    /\ Goes(Main, "null", "exit")
    /\ m_instance' = NULL
    /\ UNCHANGED << objectVars, traced, late, wild >>

ExitProcess ==
    /\ Goes(Main, "exit", "exited")
    /\ UNCHANGED << m_instance, objectVars, traced, late, wild >>

-----------------------------------------------------------------------------
TRACE(t) == CallTrace(t) \/ GetInstance(t) \/ Construct(t) \/ Store(t)
            \/ TestInstance(t) \/ AddTask(t) \/ AddTaskDeleted(t)

Pool(i) == TakeLine(i) \/ WriteLog(i)

releaseInstance == CloseQueue \/ StopThread \/ CloseSocket \/ Delete \/ SetNull

MainThread == GetInstance(Main) \/ Construct(Main) \/ Store(Main)
              \/ MainReturns \/ releaseInstance \/ ExitProcess

Next == \/ \E t \in Threads : TRACE(t)
        \/ \E i \in Actors : Pool(i) \/ ConnectionBreaks(i)
        \/ MainThread

Spec == Init /\ [][Next]_vars

-----------------------------------------------------------------------------
(* PROPERTIES                                                              *)

(* Until the release there is one CLogServer at most, although getInstance *)
(* tests and sets m_instance without a lock: all lines of the program go   *)
(* through one thread and one connection.                                  *)
OneInstance == ~Released => Cardinality({a \in Actors : object[a] # "none"}) \leq 1

(* Only a TRACE that was under way when the release set m_instance to      *)
(* NULL can use the deleted object, no later one; and the thread of the    *)
(* pool never outlives the object whose socket it uses.                    *)
DeletedNotUsed ==
    /\ wild \cap late = {}
    /\ \A i \in Actors : object[i] = "deleted" => busy[i] = << >>

(* The lines the pool took are sent in their order, without a gap: those   *)
(* lost, when the connection breaks or the program ends, are the last.     *)
SentInOrder ==
    \A i \in Actors :
        /\ Len(wire[i]) \leq Len(accepted[i])
        /\ \A n \in 1 .. Len(wire[i]) : wire[i][n] = accepted[i][n]
=============================================================================
