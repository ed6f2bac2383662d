------------------------------ MODULE ClientMap ------------------------------
(***************************************************************************)
(* The map of the connected clients (class ClientMap, AsynchronousModel.h, *)
(* AsynchronousModel.cpp).  Only the thread that runs ClientMapMain, here  *)
(* the actor, touches m_mapClient; the callers post messages to it through *)
(* a completion port.  AddClient and DelClient return at once; GetClient   *)
(* and GetClients post the address of their own local variables and wait   *)
(* up to 1000 ms for the event the actor sets.                             *)
(*                                                                         *)
(* Clients are identified with their sockets: no socket of a client is     *)
(* closed while the server runs, so none is used twice.  The port is a     *)
(* FIFO queue; a post to it may fail.                                      *)
(***************************************************************************)
EXTENDS Naturals, Sequences

CONSTANTS
    Clients,      \* the clients that may connect
    Queries,      \* the calls of GetClient and GetClients, each made once
    None,         \* no client, no query
    MaxDeletes    \* bound: number of calls of DelClient

ASSUME ClientMapAssumption ==
    /\ None \notin Clients \cup Queries
    /\ MaxDeletes \in Nat

VARIABLES
    m_mapClient,
    m_iocp,       \* "open", or "INVALID" once the destructor has set it
    port,         \* the completion port itself: "open" or "closed"
    mailbox,      \* the messages waiting in the port
    actor,        \* where the actor stands in ClientMapMain
    hand,         \* the message the actor is handling, as a sequence
    known,        \* the clients for which AddClient was called
    deletes,      \* number of calls of DelClient so far
    call,         \* where each query call stands
    wanted,       \* the clients it asks for
    result,       \* the variable its answer is written to
    event,        \* the events that are set
    destructor,   \* where ~ClientMap stands
    stray         \* ghost: the actor used the frame of a call that is over

vars == << m_mapClient, m_iocp, port, mailbox, actor, hand, known, deletes,
           call, wanted, result, event, destructor, stray >>

callerVars == << known, deletes, call, wanted >>
actorVars == << m_mapClient, actor, hand, result, event, stray >>

Message == [type : {"NONE", "ADD", "DEL", "QUERY"},
            client : Clients \cup {None}, query : Queries \cup {None}]

Quit == [type |-> "NONE", client |-> None, query |-> None]
Add(c) == [type |-> "ADD", client |-> c, query |-> None]
Del(c) == [type |-> "DEL", client |-> c, query |-> None]
Ask(q) == [type |-> "QUERY", client |-> None, query |-> q]

Running == {"loop", "get", "handle", "signal"}

TypeOK ==
    /\ m_mapClient \subseteq Clients
    /\ m_iocp \in {"open", "INVALID"}
    /\ port \in {"open", "closed"}
    /\ mailbox \in Seq(Message)
    /\ actor \in Running \cup {"ended", "killed", "crashed"}
    /\ hand \in Seq(Message) /\ Len(hand) \leq 1
    /\ known \subseteq Clients
    /\ deletes \in 0 .. MaxDeletes
    /\ call \in [Queries -> {"none", "wait", "OK", "failed"}]
    /\ wanted \in [Queries -> SUBSET Clients]
    /\ result \in [Queries -> SUBSET Clients]
    /\ event \subseteq Queries
    /\ destructor \in {"none", "invalidate", "stop", "close", "gone"}
    /\ stray \in BOOLEAN

(* The constructor: the port is made before the thread is started.         *)
Init ==
    /\ m_mapClient = {}
    /\ m_iocp = "open" /\ port = "open"
    /\ mailbox = << >>
    /\ actor = "loop" /\ hand = << >>
    /\ known = {} /\ deletes = 0
    /\ call = [q \in Queries |-> "none"]
    /\ wanted = [q \in Queries |-> {}]
    /\ result = [q \in Queries |-> {}]
    /\ event = {}
    /\ destructor = "none"
    /\ stray = FALSE

Crashed == actor = "crashed"

(* The callers may use the object until it is destroyed.                   *)
Usable == destructor = "none" /\ ~Crashed

-----------------------------------------------------------------------------
(* The callers.                                                            *)

(* PostQueuedCompletionStatus, which may fail.                             *)
Post(m) == mailbox' \in {mailbox, Append(mailbox, m)}

(* AddClient, once for each accepted client.  It returns 0 even when the   *)
(* post failed and the message was deleted.                                *)
AddClient(c) ==
    /\ Usable
    /\ c \notin known
    /\ known' = known \cup {c}
    /\ Post(Add(c))
    /\ UNCHANGED << m_iocp, port, deletes, call, wanted, destructor, actorVars >>

(* Mutant: DelClient erases the client itself, unless the actor is in the  *)
(* middle of a message: a lock around the map instead of a message.        *)
DelClientErases(c) ==
    /\ Usable
    /\ c \in known
    /\ deletes < MaxDeletes
    /\ deletes' = deletes + 1
    /\ hand = << >>
    /\ m_mapClient' = m_mapClient \ {c}
    /\ UNCHANGED << m_iocp, port, mailbox, known, call, wanted, destructor,
                    actor, hand, result, event, stray >>

(* DelClient, of a client that AddClient was called for before: its caller *)
(* got the client from a completion that Recv, called after AddClient, led *)
(* to, or from GetClients.                                                 *)
DelClient(c) ==
    /\ Usable
    /\ c \in known
    /\ deletes < MaxDeletes
    /\ deletes' = deletes + 1
    /\ Post(Del(c))
    /\ UNCHANGED << m_iocp, port, known, call, wanted, destructor, actorVars >>

(* The common part of GetClient and GetClients, up to their wait.  When    *)
(* the post fails they return without an answer.                           *)
Query(q, S) ==
    /\ Usable
    /\ call[q] = "none"
    /\ \/ /\ mailbox' = Append(mailbox, Ask(q))
          /\ call' = [call EXCEPT ![q] = "wait"]
          /\ wanted' = [wanted EXCEPT ![q] = S]
       \/ /\ call' = [call EXCEPT ![q] = "failed"]
          /\ UNCHANGED << mailbox, wanted >>
    /\ UNCHANGED << m_iocp, port, known, deletes, destructor, actorVars >>

GetClient(q) == \E c \in Clients : Query(q, {c})

GetClients(q) == Query(q, Clients)

Returns(q, outcome) ==
    /\ ~Crashed
    /\ call[q] = "wait"
    /\ call' = [call EXCEPT ![q] = outcome]
    /\ UNCHANGED << m_iocp, port, mailbox, known, deletes, wanted, destructor,
                    actorVars >>

(* WaitForSingleObject answers WAIT_OBJECT_0.                              *)
QuerySignalled(q) == q \in event /\ Returns(q, "OK")

(* It answers WAIT_TIMEOUT: GetClients returns -3, GetClient no client.    *)
(* The frame of the call is gone, and the message is still on its way.     *)
QueryTimesOut(q) == q \notin event /\ Returns(q, "failed")

-----------------------------------------------------------------------------
(* The actor: ClientMapMain.                                               *)

(* while (m_iocp != INVALID_HANDLE_VALUE)                                  *)
LoopTest ==
    /\ actor = "loop"
    /\ actor' = IF m_iocp = "open" THEN "get" ELSE "ended"
    /\ UNCHANGED << m_mapClient, m_iocp, port, mailbox, hand, callerVars,
                    result, event, destructor, stray >>

(* GetQueuedCompletionStatus fails after 1 ms, or has no handle.           *)
GetFails ==
    /\ actor = "get"
    /\ mailbox = << >> \/ m_iocp = "INVALID"
    /\ actor' = "loop"
    /\ UNCHANGED << m_mapClient, m_iocp, port, mailbox, hand, callerVars,
                    result, event, destructor, stray >>

(* It returns a message; it may have been called with the handle before    *)
(* the destructor took it out of m_iocp.                                   *)
Get ==
    /\ actor = "get"
    /\ port = "open" /\ mailbox # << >>
    /\ mailbox' = Tail(mailbox)
    /\ hand' = << Head(mailbox) >>
    /\ actor' = "handle"
    /\ UNCHANGED << m_mapClient, m_iocp, port, callerVars, result, event,
                    destructor, stray >>

(* Mutant: the actor leaves its loop on an empty packet, as a worker of    *)
(* the thread pool does, and also on a DEL.                                *)
HandledLeavesLoop ==
    /\ actor' = IF hand[1].type \in {"NONE", "DEL"} THEN "ended" ELSE "loop"
    /\ hand' = << >>

(* The end of the switch: back to the loop, the message is deleted.        *)
Handled ==
    /\ actor' = "loop"
    /\ hand' = << >>

(* CMP_NONE, CMP_ADD, CMP_DEL.                                             *)
HandleChange ==
    /\ actor = "handle"
    /\ \/ /\ hand[1].type = "ADD"
          /\ m_mapClient' = m_mapClient \cup {hand[1].client}
       \/ /\ hand[1].type = "DEL"
          /\ m_mapClient' = m_mapClient \ {hand[1].client}
       \/ /\ hand[1].type = "NONE"
          /\ UNCHANGED m_mapClient
    /\ Handled
    /\ UNCHANGED << m_iocp, port, mailbox, callerVars, result, event,
                    destructor, stray >>

(* Mutant: the event is set before the answer is written.                  *)
WriteAnswerSignalsFirst(q) ==
    /\ call[q] = "wait"
    /\ event' = event \cup {q}
    /\ actor' = "signal"
    /\ UNCHANGED << result, stray >>

(* CMP_QUERY and CMP_ALL while the caller waits: its variable is written.  *)
WriteAnswer(q) ==
    /\ call[q] = "wait"
    /\ result' = [result EXCEPT ![q] = m_mapClient \cap wanted[q]]
    /\ actor' = "signal"
    /\ UNCHANGED << event, stray >>

(* The caller has given up: its OVERLAPPED, the variable and the event are *)
(* gone.  Using them does no harm to the map, or ends the process.         *)
UseDeadFrame(q, next) ==
    /\ call[q] # "wait"
    /\ stray' = TRUE
    /\ actor' \in {next, "crashed"}
    /\ UNCHANGED << result, event >>

HandleQuery ==
    /\ actor = "handle"
    /\ hand[1].type = "QUERY"
    /\ WriteAnswer(hand[1].query) \/ UseDeadFrame(hand[1].query, "signal")
    /\ UNCHANGED << m_mapClient, m_iocp, port, mailbox, hand, callerVars,
                    destructor >>

(* SetEvent, the last access to the caller's frame.                        *)
SignalQuery ==
    /\ actor = "signal"
    /\ hand' = << >>
    /\ \/ /\ call[hand[1].query] = "wait"
          /\ event' = event \cup {hand[1].query}
          /\ actor' = "loop"
          /\ UNCHANGED << result, stray >>
       \/ UseDeadFrame(hand[1].query, "loop")
    /\ UNCHANGED << m_mapClient, m_iocp, port, mailbox, callerVars, destructor >>

-----------------------------------------------------------------------------
(* ~ClientMap, when no call is in progress any more.                       *)

DestroyPost ==
    /\ Usable
    /\ \A q \in Queries : call[q] # "wait"
    /\ Post(Quit)
    /\ destructor' = "invalidate"
    /\ UNCHANGED << m_iocp, port, callerVars, actorVars >>

(* At most 5 ms later.                                                     *)
DestroyInvalidate ==
    /\ ~Crashed
    /\ destructor = "invalidate"
    /\ m_iocp' = "INVALID"
    /\ destructor' = "stop"
    /\ UNCHANGED << port, mailbox, callerVars, actorVars >>

(* m_thread.Stop(): the wait of 10 ms is answered.                         *)
StopJoins ==
    /\ destructor = "stop"
    /\ actor = "ended"
    /\ destructor' = "close"
    /\ UNCHANGED << m_iocp, port, mailbox, callerVars, actorVars >>

(* m_thread.Stop(): the wait times out, TerminateThread.                   *)
StopTerminates ==
    /\ destructor = "stop"
    /\ actor \in Running
    /\ actor' = "killed"
    /\ destructor' = "close"
    /\ UNCHANGED << m_iocp, port, mailbox, callerVars, m_mapClient, hand,
                    result, event, stray >>

(* CloseHandle; then the members are destroyed, m_mapClient among them.    *)
DestroyClose ==
    /\ ~Crashed
    /\ destructor = "close"
    /\ port' = "closed"
    /\ destructor' = "gone"
    /\ UNCHANGED << m_iocp, mailbox, callerVars, actorVars >>

-----------------------------------------------------------------------------
ClientMapMain == LoopTest \/ GetFails \/ Get \/ HandleChange \/ HandleQuery
                 \/ SignalQuery

DestructorSteps == DestroyInvalidate \/ StopJoins \/ StopTerminates \/ DestroyClose

Next ==
    \/ \E c \in Clients : AddClient(c) \/ DelClient(c)
    \/ \E q \in Queries : \/ GetClient(q) \/ GetClients(q)
                          \/ QuerySignalled(q) \/ QueryTimesOut(q)
    \/ ClientMapMain
    \/ DestroyPost \/ DestructorSteps

Spec == Init /\ [][Next]_vars

(* The actor's thread runs: nothing it calls blocks longer than 1 ms.      *)
FairSpec == Spec /\ WF_vars(ClientMapMain)

-----------------------------------------------------------------------------
(* PROPERTIES                                                              *)

(* The messages not handled yet.                                           *)
Pending == hand \o mailbox

Adds(m, c) == m.type = "ADD" /\ m.client = c
Deletes(m, c) == m.type = "DEL" /\ m.client = c

(* The clients there will be after the first n of them are handled: those  *)
(* that are in the map, or are added, and are not deleted after that.      *)
After(n) ==
    {c \in Clients :
        \/ c \in m_mapClient /\ \A j \in 1 .. n : ~Deletes(Pending[j], c)
        \/ \E i \in 1 .. n : /\ Adds(Pending[i], c)
                             /\ \A j \in i .. n : ~Deletes(Pending[j], c)}

AfterAll == After(Len(Pending))

(* The answer a call will get, or has got.                                 *)
Asked(q) == {i \in 1 .. Len(Pending) : Pending[i].query = q}
Place(q) == CHOOSE i \in Asked(q) : TRUE

Answer(q) ==
    IF call[q] \notin {"wait", "OK"} THEN {}
    ELSE IF Asked(q) # {} THEN After(Place(q) - 1) \cap wanted[q]
    ELSE result[q]

Registry == INSTANCE ClientRegistry
                WITH clients <- AfterAll,
                     answer <- [q \in Queries |-> Answer(q)]

(* To its callers the map is the registry of module ClientRegistry: though *)
(* the actor lags behind, messages take effect in the order of the calls,  *)
(* and an answer counts just the changes posted before the question.       *)
ImplementsRegistry == Registry!Spec

(* The actor uses the local variables of GetClient and GetClients only     *)
(* while the call waits, unless a call gave up on it: an answered call     *)
(* never has its frame written to afterwards.                              *)
StrayOnlyAfterTimeout == stray => \E q \in Queries : call[q] = "failed"

(* When the port is closed, and when the map is destroyed, the actor does  *)
(* not run any more.                                                       *)
ActorStopsFirst ==
    port = "closed" \/ destructor = "gone" => actor \in {"ended", "killed"}

(* What the actor uses is there: frames of callers, the port, the map.     *)
UsesOnlyLiving == StrayOnlyAfterTimeout /\ ActorStopsFirst

(* The map catches up with the calls: a client whose AddClient was posted  *)
(* and not followed by a DelClient comes into the map, and one whose       *)
(* DelClient was posted leaves it, unless the object is destroyed.         *)
Settled(c) == c \in m_mapClient <=> c \in AfterAll

MapCatchesUp ==
    \A c \in Clients : ~Settled(c) ~> (Settled(c) \/ ~Usable)
=============================================================================
