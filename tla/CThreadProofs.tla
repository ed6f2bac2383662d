----------------------------- MODULE CThreadProofs -----------------------------
(***************************************************************************)
(* Proofs about module CThread, for any functions and any number of        *)
(* restarts.                                                               *)
(***************************************************************************)
EXTENDS CThread, TLAPS

(* What the owner's place says of the handle.                              *)
OwnerInv ==
    /\ owner \in {"resume", "suspend", "wait", "destroywait"} => m_hThread # 0
    /\ owner \in {"destroy", "gone"} => m_hThread = 0

(* Threads are made one after the other.                                   *)
CreatedInv ==
    /\ m_hThread <= created
    /\ \A g \in Threads : g > created => place[g] = "none"

(* Until the object is gone no function is deleted, whoever may use it.    *)
MemoryInv ==
    /\ m_pFunction \in Functions => memory[m_pFunction] = "live"
    /\ owner # "gone" => \A f \in Functions : memory[f] # "deleted"
    /\ \A g \in Threads :
           place[g] = "call" => func[g] \in Functions /\ memory[func[g]] = "live"

IndInv ==
    /\ TypeOK
    /\ OwnerInv
    /\ CreatedInv
    /\ MemoryInv
    /\ OnlyThreadOfHandle
    /\ EndedThreadNotValid

-----------------------------------------------------------------------------
LEMMA InitInv == Init => IndInv
<1> SUFFICES ASSUME Init PROVE IndInv
  OBVIOUS
<1>1. TypeOK
  <2>1. /\ m_hThread \in 0 .. MaxThreads
        /\ created \in 0 .. MaxThreads
        /\ suspends \in [Threads -> 0 .. MaxSuspends]
    BY ThreadAssumption DEF Init, Threads
  <2>2. /\ place \in [Threads -> Places]
        /\ func \in [Threads -> Functions \cup {NULL}]
        /\ memory \in [Functions -> {"unused", "live", "deleted"}]
    BY DEF Init, Places, InEnterThread
  <2>3. last \in {<< "none", "OK" >>} \cup (Calls \X Results)
    BY DEF Init
  <2> QED BY <2>1, <2>2, <2>3 DEF Init, TypeOK, OwnerPlaces
<1>2. OwnerInv /\ CreatedInv
  BY DEF Init, OwnerInv, CreatedInv, Threads
<1>3. MemoryInv /\ OnlyThreadOfHandle /\ EndedThreadNotValid
  BY DEF Init, MemoryInv, OnlyThreadOfHandle, EndedThreadNotValid, Alive, InEnterThread
<1> QED BY <1>1, <1>2, <1>3 DEF IndInv

-----------------------------------------------------------------------------
(* The owner's steps that make, end or move no thread.                     *)

LEMMA OwnerStepInv ==
    ASSUME IndInv,
           \/ Start \/ StartResume \/ Pause \/ PauseSuspend \/ Stop
           \/ RestartRefused \/ Destructor
    PROVE  IndInv'
<1>1. /\ place' = place /\ m_hThread' = m_hThread /\ created' = created
      /\ m_pFunction' = m_pFunction /\ func' = func /\ memory' = memory
  BY DEF Start, StartResume, Pause, PauseSuspend, Stop, RestartRefused, Destructor
<1>2. m_bValid' = m_bValid \/ m_bValid' = FALSE
  BY DEF Start, StartResume, Pause, PauseSuspend, Stop, RestartRefused, Destructor
<1>3. m_bValid' \in BOOLEAN /\ (~m_bValid => ~m_bValid')
  <2>1. CASE m_bValid' = m_bValid
    BY <2>1 DEF IndInv, TypeOK
  <2>2. CASE m_bValid' = FALSE
    BY <2>2
  <2> QED BY <1>2, <2>1, <2>2
<1>4. suspends' \in [Threads -> 0 .. MaxSuspends]
  BY ThreadAssumption DEF IndInv, TypeOK, OwnerInv, Threads, Start, StartResume, Pause,
     PauseSuspend, Stop, RestartRefused, Destructor
<1>5. /\ owner' \in OwnerPlaces
      /\ owner' # "gone"
      /\ last' \in {<< "none", "OK" >>} \cup (Calls \X Results)
  BY DEF IndInv, TypeOK, OwnerPlaces, Calls, Results, Returns, Start, StartResume,
     Pause, PauseSuspend, Stop, RestartRefused, Destructor
<1>6. OwnerInv'
  BY DEF IndInv, OwnerInv, Returns, Start, StartResume, Pause, PauseSuspend, Stop,
     RestartRefused, Destructor
<1>7. owner # "gone"
  BY DEF Start, StartResume, Pause, PauseSuspend, Stop, RestartRefused, Destructor
<1>8. TypeOK'
  BY <1>1, <1>3, <1>4, <1>5 DEF IndInv, TypeOK
<1>9. CreatedInv' /\ MemoryInv'
  BY <1>1, <1>5, <1>7 DEF IndInv, CreatedInv, MemoryInv
<1>10. OnlyThreadOfHandle' /\ EndedThreadNotValid'
  BY <1>1, <1>3 DEF IndInv, OnlyThreadOfHandle, EndedThreadNotValid, Alive
<1> QED BY <1>6, <1>8, <1>9, <1>10 DEF IndInv

(* The ends of Stop: the thread of the handle runs no more.                *)
LEMMA StopInv == ASSUME IndInv, StopJoins \/ StopTerminates PROVE IndInv'
<1>1. m_hThread \in Threads
  BY DEF IndInv, TypeOK, OwnerInv, Threads, StopJoins, StopTerminates
<1>2. /\ m_hThread' = 0 /\ created' = created /\ m_bValid' = m_bValid
      /\ m_pFunction' = m_pFunction /\ func' = func /\ memory' = memory
      /\ suspends' = suspends
      /\ place' \in {place, [place EXCEPT ![m_hThread] = "killed"]}
      /\ owner # "gone" /\ owner' \in {"idle", "destroy"}
  BY DEF StopJoins, StopTerminates, StopReturns, Returns
<1>3. TypeOK'
  <2>1. place' \in [Threads -> Places]
    BY <1>2 DEF IndInv, TypeOK, Places
  <2>2. last' \in {<< "none", "OK" >>} \cup (Calls \X Results)
    BY DEF IndInv, TypeOK, Calls, Results, StopJoins, StopTerminates, StopReturns, Returns
  <2> QED BY <1>2, <2>1, <2>2, ThreadAssumption DEF IndInv, TypeOK, OwnerPlaces
<1>4. OwnerInv' /\ CreatedInv' /\ MemoryInv'
  <2>1. \A g \in Threads : place'[g] \in {place[g], "killed"}
    BY <1>1, <1>2 DEF IndInv, TypeOK
  <2>2. \A g \in Threads : g > created => place'[g] = "none"
    <3>1. \A g \in Threads : g > created => g # m_hThread
      BY DEF IndInv, TypeOK, CreatedInv, Threads
    <3> QED BY <1>1, <1>2, <3>1 DEF IndInv, TypeOK, CreatedInv
  <2> QED BY <1>2, <2>1, <2>2, ThreadAssumption
          DEF IndInv, TypeOK, OwnerInv, CreatedInv, MemoryInv
<1>5. \A g \in Threads : ~Alive(g)'
  BY <1>1 DEF IndInv, TypeOK, OnlyThreadOfHandle, Alive, InEnterThread, StopJoins,
     StopTerminates
<1>6. OnlyThreadOfHandle' /\ EndedThreadNotValid'
  BY <1>2, <1>5 DEF OnlyThreadOfHandle, EndedThreadNotValid, Threads
<1> QED BY <1>3, <1>4, <1>6 DEF IndInv

LEMMA RestartInv == ASSUME IndInv, Restart PROVE IndInv'
<1>1. /\ created + 1 \in Threads
      /\ \A g \in Threads : ~Alive(g)
  BY ThreadAssumption DEF IndInv, TypeOK, OnlyThreadOfHandle, Threads, Restart
<1>2. TypeOK' /\ OwnerInv'
  BY <1>1 DEF IndInv, TypeOK, OwnerInv, Threads, Places, InEnterThread, OwnerPlaces,
     Calls, Results, Restart, Returns
<1>3. CreatedInv' /\ MemoryInv'
  <2>1. \A g \in Threads : place'[g] = "call" => place[g] = "call"
    BY <1>1 DEF IndInv, TypeOK, Restart
  <2>2. MemoryInv'
    BY <2>1 DEF IndInv, MemoryInv, Restart, Returns
  <2>3. CreatedInv'
    <3>1. CASE UNCHANGED << created, m_hThread, place >>
      BY <3>1 DEF IndInv, CreatedInv
    <3>2. CASE /\ created' = created + 1
               /\ m_hThread' = created + 1
               /\ place' = [place EXCEPT ![created + 1] = "entry"]
      <4>1. \A g \in Threads : g > created + 1 => g > created /\ g # created + 1
        BY DEF IndInv, TypeOK, Threads
      <4>2. created + 1 <= created + 1
        BY DEF IndInv, TypeOK
      <4> QED BY <3>2, <4>1, <4>2 DEF IndInv, TypeOK, CreatedInv
    <3> QED BY <3>1, <3>2 DEF Restart
  <2> QED BY <2>2, <2>3
<1>4. OnlyThreadOfHandle' /\ EndedThreadNotValid'
  BY <1>1 DEF IndInv, TypeOK, OnlyThreadOfHandle, EndedThreadNotValid, Alive,
     InEnterThread, Threads, Restart
<1> QED BY <1>2, <1>3, <1>4 DEF IndInv

(* The steps that change the function.                                     *)
LEMMA FunctionStepInv ==
    ASSUME IndInv,
           \/ SetThreadFuncNull \/ DestructorDeletes
           \/ \E f \in Functions : SetThreadFunc(f)
    PROVE  IndInv'
<1>1. TypeOK' /\ OwnerInv' /\ CreatedInv'
  BY DEF IndInv, TypeOK, OwnerInv, OwnerPlaces, CreatedInv, SetThreadFuncNull,
     DestructorDeletes, SetThreadFunc
<1>2. OnlyThreadOfHandle' /\ EndedThreadNotValid'
  BY DEF IndInv, OnlyThreadOfHandle, EndedThreadNotValid, Alive, SetThreadFuncNull,
     DestructorDeletes, SetThreadFunc
<1>3. MemoryInv'
  <2>1. CASE SetThreadFuncNull
    BY <2>1, ThreadAssumption DEF IndInv, MemoryInv, SetThreadFuncNull
  <2>2. ASSUME NEW f \in Functions, SetThreadFunc(f) PROVE MemoryInv'
    BY <2>2 DEF IndInv, TypeOK, MemoryInv, SetThreadFunc
  <2>3. CASE DestructorDeletes
    <3>1. \A g \in Threads : ~Alive(g)
      BY <2>3 DEF IndInv, OwnerInv, OnlyThreadOfHandle, Threads, DestructorDeletes
    <3> QED BY <2>3, <3>1, ThreadAssumption
            DEF IndInv, MemoryInv, DestructorDeletes, Alive, InEnterThread
  <2> QED BY <2>1, <2>2, <2>3
<1> QED BY <1>1, <1>2, <1>3 DEF IndInv

-----------------------------------------------------------------------------
(* The kernel thread: a thread that steps is the one of the handle.        *)
LEMMA EnterThreadInv == ASSUME IndInv, NEW g \in Threads, EnterThread(g) PROVE IndInv'
<1>1. /\ Alive(g)
      /\ \E to \in Places : place' = [place EXCEPT ![g] = to] /\ to # "none" /\ to # "killed"
      /\ UNCHANGED << m_hThread, m_pFunction, created, suspends, memory, owner, last >>
  BY DEF EnterThread, SetValid, TestFunction, TestValid, LoadFunction, CallReturns,
     ClearValid, Goes, Alive, InEnterThread, Places
<1>2. m_hThread = g /\ \A h \in Threads : h # g => ~Alive(h)
  BY <1>1 DEF IndInv, OnlyThreadOfHandle
<1>3. TypeOK'
  <2>1. /\ m_bValid' \in BOOLEAN
        /\ func' \in [Threads -> Functions \cup {NULL}]
    BY DEF IndInv, TypeOK, EnterThread, SetValid, TestFunction, TestValid, LoadFunction,
       CallReturns, ClearValid
  <2> QED BY <1>1, <2>1 DEF IndInv, TypeOK
<1>4. OwnerInv'
  BY <1>1 DEF IndInv, OwnerInv
<1>5. CreatedInv'
  BY <1>1, <1>2 DEF IndInv, TypeOK, CreatedInv, Threads
<1>6. OnlyThreadOfHandle'
  BY <1>1, <1>2 DEF IndInv, TypeOK, OnlyThreadOfHandle, Alive
<1>7. EndedThreadNotValid'
  <2>1. place'[g] = "exited" => ~m_bValid'
    BY DEF IndInv, TypeOK, EnterThread, SetValid, TestFunction, TestValid, LoadFunction,
       CallReturns, ClearValid, Goes
  <2> QED BY <1>1, <1>2, <2>1 DEF EndedThreadNotValid
<1>8. MemoryInv'
  <2>1. \A h \in Threads : h # g => place'[h] # "call"
    BY <1>1, <1>2 DEF IndInv, TypeOK, Alive, InEnterThread
  <2>2. place'[g] = "call" => func'[g] \in Functions /\ func'[g] = m_pFunction
    BY DEF IndInv, TypeOK, EnterThread, SetValid, TestFunction, TestValid, LoadFunction,
       CallReturns, ClearValid, Goes
  <2> QED BY <1>1, <2>1, <2>2 DEF IndInv, MemoryInv
<1> QED BY <1>3, <1>4, <1>5, <1>6, <1>7, <1>8 DEF IndInv

-----------------------------------------------------------------------------
LEMMA NextInv == IndInv /\ [Next]_vars => IndInv'
<1> SUFFICES ASSUME IndInv, [Next]_vars PROVE IndInv'
  OBVIOUS
<1>1. CASE UNCHANGED vars
  BY <1>1 DEF vars, IndInv, TypeOK, OwnerInv, CreatedInv, MemoryInv,
     OnlyThreadOfHandle, EndedThreadNotValid, Alive
<1> QED BY <1>1, OwnerStepInv, StopInv, RestartInv, FunctionStepInv, EnterThreadInv
        DEF Next

(* IndInv holds in every reachable state.                                  *)
THEOREM Invariance == Spec => []IndInv
BY InitInv, NextInv, PTL DEF Spec

(* Every variable of the thread object keeps its type.                     *)
THEOREM TypeCorrect == Spec => []TypeOK
<1>1. IndInv => TypeOK
  BY DEF IndInv
<1> QED BY <1>1, Invariance, PTL

(* A kernel thread that still runs is the one of m_hThread: none is left   *)
(* when Stop has returned or the object is destroyed, and Restart starts   *)
(* none beside it.                                                         *)
THEOREM NoThreadOutlivesHandle == Spec => []OnlyThreadOfHandle
<1>1. IndInv => OnlyThreadOfHandle
  BY DEF IndInv
<1> QED BY <1>1, Invariance, PTL

(* A thread never is in a function that was deleted.                       *)
THEOREM FunctionStaysAlive == Spec => []FunctionNotDeleted
<1>1. IndInv => FunctionNotDeleted
  BY DEF IndInv, MemoryInv, FunctionNotDeleted
<1> QED BY <1>1, Invariance, PTL

(* A thread that ended by itself is not reported valid.                    *)
THEOREM EndClearsValid == Spec => []EndedThreadNotValid
<1>1. IndInv => EndedThreadNotValid
  BY DEF IndInv
<1> QED BY <1>1, Invariance, PTL
=============================================================================
