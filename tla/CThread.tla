------------------------------- MODULE CThread -------------------------------
(***************************************************************************)
(* The thread object of the framework (Thread.h, Thread.cpp): an owner     *)
(* calls Start, Pause, Stop, Restart, SetThreadFunc and at last the        *)
(* destructor; the kernel thread runs EnterThread at the same time.  They  *)
(* share m_bValid, a plain bool, and m_pFunction.                          *)
(*                                                                         *)
(* The object makes at most one kernel thread with its constructor and one *)
(* with each Restart; the model numbers them.  Of the kernel it says: a    *)
(* thread with a suspend count above 0 takes no step, a terminated one     *)
(* takes no further step, and a wait with a limit may end at any time.     *)
(***************************************************************************)
EXTENDS Naturals

CONSTANTS
    Functions,    \* the CFunction objects that may be made for this thread
    NULL,         \* no function
    MaxThreads,   \* bound: kernel threads made by the object
    MaxSuspends   \* bound: suspend count of a thread

ASSUME ThreadAssumption ==
    /\ NULL \notin Functions
    /\ MaxThreads \in Nat \ {0}
    /\ MaxSuspends \in Nat \ {0}

Threads == 1 .. MaxThreads

VARIABLES
    m_hThread,    \* the number of the thread the handle stands for, 0: NULL
    m_bValid,
    m_pFunction,
    created,      \* number of kernel threads made so far
    place,        \* where each thread stands in EnterThread
    suspends,     \* the suspend count of each thread
    func,         \* the local variable func of each thread
    memory,       \* of each CFunction: "unused", "live" or "deleted"
    owner,        \* where the owner stands in a call
    last          \* ghost: the last call that returned, and its result

vars == << m_hThread, m_bValid, m_pFunction, created, place, suspends, func,
           memory, owner, last >>

InEnterThread == {"entry", "test", "flag", "load", "call", "end"}
Places == InEnterThread \cup {"none", "exited", "killed"}
OwnerPlaces == {"idle", "resume", "suspend", "wait", "destroywait", "destroy",
                "gone"}
Calls == {"Start", "Pause", "Stop", "Restart"}
Results == {"OK", "INVALID", "PAUSE_ERROR", "BUSY", "FAILED"}

TypeOK ==
    /\ m_hThread \in 0 .. MaxThreads
    /\ m_bValid \in BOOLEAN
    /\ m_pFunction \in Functions \cup {NULL}
    /\ created \in 0 .. MaxThreads
    /\ place \in [Threads -> Places]
    /\ suspends \in [Threads -> 0 .. MaxSuspends]
    /\ func \in [Threads -> Functions \cup {NULL}]
    /\ memory \in [Functions -> {"unused", "live", "deleted"}]
    /\ owner \in OwnerPlaces
    /\ last \in {<< "none", "OK" >>} \cup (Calls \X Results)

Alive(g) == place[g] \in InEnterThread

(* The constructors: with or without a function, CreateThread suspended,   *)
(* which may fail and leave the handle NULL.                               *)
Init ==
    /\ m_bValid = FALSE
    /\ m_pFunction \in Functions \cup {NULL}
    /\ memory = [f \in Functions |-> IF f = m_pFunction THEN "live" ELSE "unused"]
    /\ m_hThread \in {0, 1}
    /\ created = 1
    /\ place = [g \in Threads |-> IF g = m_hThread THEN "entry" ELSE "none"]
    /\ suspends = [g \in Threads |-> IF g = m_hThread THEN 1 ELSE 0]
    /\ func = [g \in Threads |-> NULL]
    /\ owner = "idle"
    /\ last = << "none", "OK" >>

-----------------------------------------------------------------------------
(* The owner's calls.                                                      *)

Returns(call, result) ==
    /\ owner' = "idle"
    /\ last' = << call, result >>

(* Start up to ResumeThread.  With no handle, or while m_bValid is true,   *)
(* it returns THREAD_OK and does nothing.                                  *)
Start ==
    /\ owner = "idle"
    /\ IF m_pFunction = NULL THEN Returns("Start", "INVALID")
       ELSE IF m_hThread # 0 /\ ~m_bValid THEN owner' = "resume" /\ UNCHANGED last
       ELSE Returns("Start", "OK")
    /\ UNCHANGED << m_hThread, m_bValid, m_pFunction, created, place, suspends,
                    func, memory >>

StartResume ==
    /\ owner = "resume"
    /\ \/ /\ suspends' = [suspends EXCEPT ![m_hThread] = IF @ = 0 THEN 0 ELSE @ - 1]
          /\ Returns("Start", "OK")
       \/ /\ Returns("Start", "FAILED")
          /\ UNCHANGED suspends
    /\ UNCHANGED << m_hThread, m_bValid, m_pFunction, created, place, func,
                    memory >>

Pause ==
    /\ owner = "idle"
    /\ IF m_hThread # 0 /\ m_bValid
       THEN owner' = "suspend" /\ UNCHANGED last
       ELSE Returns("Pause", "INVALID")
    /\ UNCHANGED << m_hThread, m_bValid, m_pFunction, created, place, suspends,
                    func, memory >>

(* SuspendThread fails on a thread that has exited since the test.         *)
PauseSuspend ==
    /\ owner = "suspend"
    /\ IF Alive(m_hThread) /\ suspends[m_hThread] < MaxSuspends
       THEN /\ suspends' = [suspends EXCEPT ![m_hThread] = @ + 1]
            /\ Returns("Pause", "OK")
       ELSE /\ Returns("Pause", "PAUSE_ERROR")
            /\ UNCHANGED suspends
    /\ UNCHANGED << m_hThread, m_bValid, m_pFunction, created, place, func,
                    memory >>

(* Stop, up to its wait of 10 ms.                                          *)
Stop ==
    /\ owner = "idle"
    /\ m_bValid' = FALSE
    /\ IF m_hThread # 0
       THEN owner' = "wait" /\ UNCHANGED last
       ELSE Returns("Stop", "OK")
    /\ UNCHANGED << m_hThread, m_pFunction, created, place, suspends, func,
                    memory >>

(* Stop is a call of its own, or that of the destructor.                   *)
StopReturns ==
    /\ m_hThread' = 0
    /\ IF owner = "wait"
       THEN Returns("Stop", "OK")
       ELSE owner' = "destroy" /\ UNCHANGED last

(* The wait is answered: the thread has exited.                            *)
StopJoins ==
    /\ owner \in {"wait", "destroywait"}
    /\ ~Alive(m_hThread)
    /\ StopReturns
    /\ UNCHANGED << m_bValid, m_pFunction, created, place, suspends, func,
                    memory >>

(* Mutant: Stop waits without a time limit.                                *)
StopTerminatesNever == FALSE /\ UNCHANGED vars

(* The wait times out: TerminateThread, wherever the thread is.            *)
StopTerminates ==
    /\ owner \in {"wait", "destroywait"}
    /\ Alive(m_hThread)
    /\ place' = [place EXCEPT ![m_hThread] = "killed"]
    /\ StopReturns
    /\ UNCHANGED << m_bValid, m_pFunction, created, suspends, func, memory >>

(* Mutant: Restart looks at m_bValid only.                                 *)
RestartAnyway ==
    /\ owner = "idle"
    /\ m_pFunction # NULL /\ ~m_bValid /\ created < MaxThreads
    /\ m_hThread' = created + 1
    /\ created' = created + 1
    /\ place' = [place EXCEPT ![created + 1] = "entry"]
    /\ Returns("Restart", "OK")
    /\ UNCHANGED << m_bValid, m_pFunction, suspends, func, memory >>

RestartRefused ==
    /\ owner = "idle"
    /\ IF m_pFunction = NULL THEN Returns("Restart", "INVALID")
       ELSE /\ m_bValid \/ m_hThread # 0
            /\ Returns("Restart", "BUSY")
    /\ UNCHANGED << m_hThread, m_bValid, m_pFunction, created, place, suspends,
                    func, memory >>

(* Restart makes a thread that runs at once; CreateThread may fail, and    *)
(* the call returns THREAD_OK all the same.                                *)
Restart ==
    /\ owner = "idle"
    /\ m_pFunction # NULL
    /\ ~m_bValid /\ m_hThread = 0
    /\ created < MaxThreads
    /\ \/ /\ created' = created + 1
          /\ m_hThread' = created + 1
          /\ place' = [place EXCEPT ![created + 1] = "entry"]
       \/ UNCHANGED << created, m_hThread, place >>
    /\ Returns("Restart", "OK")
    /\ UNCHANGED << m_bValid, m_pFunction, suspends, func, memory >>

(* Mutant: SetThreadFunc deletes the function it replaces.                 *)
SetThreadFuncDeletes(f) ==
    /\ owner = "idle"
    /\ memory[f] = "unused"
    /\ m_pFunction' = f
    /\ memory' = [g \in Functions |->
                     IF g = f THEN "live"
                     ELSE IF g = m_pFunction THEN "deleted" ELSE memory[g]]
    /\ UNCHANGED << m_hThread, m_bValid, created, place, suspends, func, owner,
                    last >>

(* SetThreadFunc makes a new CFunction; the old one is not deleted.        *)
SetThreadFunc(f) ==
    /\ owner = "idle"
    /\ memory[f] = "unused"
    /\ m_pFunction' = f
    /\ memory' = [memory EXCEPT ![f] = "live"]
    /\ UNCHANGED << m_hThread, m_bValid, created, place, suspends, func, owner,
                    last >>

SetThreadFuncNull ==
    /\ owner = "idle"
    /\ m_pFunction' = NULL
    /\ UNCHANGED << m_hThread, m_bValid, created, place, suspends, func,
                    memory, owner, last >>

(* ~CThread: Stop, then the function is deleted.                           *)
Destructor ==
    /\ owner = "idle"
    /\ m_bValid' = FALSE
    /\ owner' = IF m_hThread # 0 THEN "destroywait" ELSE "destroy"
    /\ UNCHANGED << m_hThread, m_pFunction, created, place, suspends, func,
                    memory, last >>

DestructorDeletes ==
    /\ owner = "destroy"
    /\ m_pFunction' = NULL
    /\ memory' = [f \in Functions |->
                     IF f = m_pFunction THEN "deleted" ELSE memory[f]]
    /\ owner' = "gone"
    /\ UNCHANGED << m_hThread, m_bValid, created, place, suspends, func, last >>

-----------------------------------------------------------------------------
(* The kernel thread: EnterThread.                                         *)

Goes(g, from, to) ==
    /\ suspends[g] = 0
    /\ place[g] = from
    /\ place' = [place EXCEPT ![g] = to]

SetValid(g) ==
    /\ Goes(g, "entry", "test")
    /\ m_bValid' = TRUE
    /\ UNCHANGED << m_hThread, m_pFunction, created, suspends, func, memory,
                    owner, last >>

TestFunction(g) ==
    /\ Goes(g, "test", IF m_pFunction = NULL THEN "flag" ELSE "load")
    /\ UNCHANGED << m_hThread, m_bValid, m_pFunction, created, suspends, func,
                    memory, owner, last >>

(* No function yet: return if m_bValid was cleared, else sleep and retry.  *)
TestValid(g) ==
    /\ Goes(g, "flag", IF m_bValid THEN "test" ELSE "exited")
    /\ UNCHANGED << m_hThread, m_bValid, m_pFunction, created, suspends, func,
                    memory, owner, last >>

LoadFunction(g) ==
    /\ Goes(g, "load", IF m_pFunction = NULL THEN "end" ELSE "call")
    /\ func' = [func EXCEPT ![g] = m_pFunction]
    /\ UNCHANGED << m_hThread, m_bValid, m_pFunction, created, suspends,
                    memory, owner, last >>

(* The function returns, THREAD_AGAIN or something else.                   *)
CallReturns(g) ==
    /\ \E next \in {"test", "end"} : Goes(g, "call", next)
    /\ UNCHANGED << m_hThread, m_bValid, m_pFunction, created, suspends, func,
                    memory, owner, last >>

(* Mutant: the thread ends without clearing m_bValid.                      *)
ClearValidForgotten(g) ==
    /\ Goes(g, "end", "exited")
    /\ UNCHANGED << m_hThread, m_bValid, m_pFunction, created, suspends, func,
                    memory, owner, last >>

ClearValid(g) ==
    /\ Goes(g, "end", "exited")
    /\ m_bValid' = FALSE
    /\ UNCHANGED << m_hThread, m_pFunction, created, suspends, func, memory,
                    owner, last >>

EnterThread(g) ==
    \/ SetValid(g) \/ TestFunction(g) \/ TestValid(g) \/ LoadFunction(g)
    \/ CallReturns(g) \/ ClearValid(g)

Next ==
    \/ Start \/ StartResume \/ Pause \/ PauseSuspend
    \/ Stop \/ StopJoins \/ StopTerminates
    \/ RestartRefused \/ Restart
    \/ SetThreadFuncNull \/ \E f \in Functions : SetThreadFunc(f)
    \/ Destructor \/ DestructorDeletes
    \/ \E g \in Threads : EnterThread(g)

Spec == Init /\ [][Next]_vars

(* A call of the owner goes on, its wait ends in time, and the thread runs *)
(* while it is not suspended; of the function it is not said that it ever  *)
(* returns.                                                                *)
FairSpec ==
    /\ Spec
    /\ WF_vars(StartResume \/ PauseSuspend \/ StopJoins \/ StopTerminates
               \/ DestructorDeletes)
    /\ \A g \in Threads : WF_vars(place[g] # "call" /\ EnterThread(g))

-----------------------------------------------------------------------------
(* PROPERTIES                                                              *)

(* A thread that runs is the one the handle stands for: Restart never      *)
(* starts a second one beside it, and none is left when Stop has returned  *)
(* or the object, whose members the thread uses, is gone.                  *)
OnlyThreadOfHandle == \A g \in Threads : Alive(g) => m_hThread = g

(* The function a thread is in has not been deleted, though the owner may  *)
(* replace it, or destroy the object, at any time.                         *)
FunctionNotDeleted ==
    \A g \in Threads : place[g] = "call" => memory[func[g]] = "live"

(* isValid does not report a thread that has ended by itself, up to the    *)
(* next Restart: the flag the thread set is cleared on every way out.  One *)
(* that Stop terminates may leave it set, behind Stop's back.              *)
EndedThreadNotValid ==
    \A g \in Threads : m_hThread = g /\ place[g] = "exited" => ~m_bValid

(* Stop and the destructor return, even when the function never does, when *)
(* it answers THREAD_AGAIN forever, or when the thread is suspended.       *)
StopAlwaysReturns ==
    owner \in {"wait", "destroywait", "destroy"} ~> owner \in {"idle", "gone"}

(* Thread.h says of Start: start or resume.  So when Start returned        *)
(* THREAD_OK for a thread that Pause suspended, the thread can run.        *)
StartResumes ==
    last = << "Start", "OK" >> /\ m_hThread # 0 => suspends[m_hThread] = 0
=============================================================================
