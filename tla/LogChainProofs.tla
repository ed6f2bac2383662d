--------------------------- MODULE LogChainProofs ---------------------------
(***************************************************************************)
(* Proofs about the log: of CLogServer by itself, for any number of threads *)
(* and lines; of the chain, whose steps are those of CLogServer and of the  *)
(* Sink; and of the Sink in it, for any number of connections, threads of   *)
(* its server, and packets.                                                 *)
(***************************************************************************)
EXTENDS LogChain, FiniteSetTheorems, QueueLemmas

Before == {"get", "construct", "store"}
Using == {"main", "status", "stop", "closesocket", "delete"}

(* m_instance points to the object of m_helper until SetNull, and nobody   *)
(* makes another one; after that a thread that makes one has none yet, and *)
(* m_instance stays set once it is.                                        *)
InstanceInv ==
    /\ place[Main] \in MainPlaces
    /\ \A t \in Threads : place[t] \in TracePlaces
    /\ place[Main] \in Before =>
           m_instance = NULL /\ \A t \in Threads : place[t] = "idle"
    /\ place[Main] \in {"get", "construct"} => object[Main] = "none"
    /\ place[Main] \in {"store"} \cup Using => object[Main] = "made"
    /\ place[Main] \in Using \cup {"null"} => m_instance = Main
    /\ ~Released => \A t \in Threads :
           object[t] = "none" /\ place[t] \notin {"construct", "store"}
    /\ Released => m_instance # Main
    /\ m_instance \in Threads => object[m_instance] = "made"
    /\ \A t \in Threads :
           /\ object[t] # "deleted"
           /\ place[t] = "construct" => object[t] = "none"
           /\ place[t] = "store" => object[t] = "made"
           /\ object[t] = "made" => place[t] = "store" \/ m_instance # NULL

(* What the release has done of m_helper's object, and who came late.      *)
ReleaseInv ==
    /\ object[Main] = "deleted" => place[Main] \in {"null", "exit", "exited"}
    /\ place[Main] \in {"stop", "closesocket", "delete", "null", "exit", "exited"} =>
           m_pThread[Main] = "closed"
    /\ place[Main] \in {"closesocket", "delete", "null", "exit", "exited"} =>
           busy[Main] = << >>
    /\ \A t \in wild : place[t] = "wild"
    /\ late # {} => Released
    /\ \A t \in late : place[t] \in {"test", "add"} => m_instance # NULL
    /\ wild \cap late = {}

(* The lines that were sent, are in hand, and wait: together what the pool *)
(* took, while it is open and the connection holds.                        *)
InOrder(took, sent, held, rest, connected, open) ==
    /\ Len(sent) \leq Len(took)
    /\ \A n \in 1 .. Len(sent) : sent[n] = took[n]
    /\ Len(held) \leq 1
    /\ connected /\ held # << >> =>
           /\ Len(sent) < Len(took)
           /\ held[1] = took[Len(sent) + 1]
    /\ connected /\ open =>
           /\ Len(took) = Len(sent) + Len(held) + Len(rest)
           /\ \A n \in 1 .. Len(rest) : rest[n] = took[Len(sent) + Len(held) + n]

Ordered(i) ==
    InOrder(accepted[i], wire[i], busy[i], queue[i],
            m_socket[i] = "connected", m_pThread[i] # "closed")

OrderInv ==
    /\ \A i \in Actors : Ordered(i)
    /\ \A i \in Actors : object[i] = "none" =>
           /\ m_pThread[i] = "none"
           /\ queue[i] = << >> /\ busy[i] = << >>
           /\ wire[i] = << >> /\ accepted[i] = << >>
    /\ \A t \in Threads : place[t] # "idle" => traced[t] # 0

IndInv == TypeOK /\ InstanceInv /\ ReleaseInv /\ OrderInv

Places == TracePlaces \cup MainPlaces

-----------------------------------------------------------------------------
LEMMA InitInv == Init => IndInv
<1> SUFFICES ASSUME Init PROVE IndInv
  OBVIOUS
<1> USE LogAssumption DEF Init, Actors
<1>1. TypeOK
  BY DEF TypeOK, TracePlaces, MainPlaces
<1>2. InstanceInv
  BY DEF InstanceInv, TracePlaces, MainPlaces, Before, Using, ReleasePlaces, Released
<1>3. ReleaseInv
  BY DEF ReleaseInv, Released
<1>4. OrderInv
  BY DEF OrderInv, Ordered, InOrder
<1> QED BY <1>1, <1>2, <1>3, <1>4 DEF IndInv

-----------------------------------------------------------------------------
(* One line in hand is taken out whole.                                    *)
LEMMA OneTakenOut ==
    ASSUME NEW S, NEW s \in Seq(S), Len(s) \leq 1, NEW n \in DOMAIN s
    PROVE  n = 1 /\ Len(s) = 1 /\ s # << >> /\ Without(s, n) = << >>
<1>1. DOMAIN s = 1 .. Len(s) /\ Len(s) \in Nat
  BY LenProperties
<1>2. n = 1 /\ Len(s) = 1
  BY <1>1
<1>3. SubSeq(s, 1, 0) = << >> /\ SubSeq(s, 2, 1) = << >>
  BY <1>2, SubSeqProperties, EmptySeq
<1>4. Without(s, n) = << >> \o << >>
  BY <1>2, <1>3 DEF Without
<1>5. << >> \o << >> = << >>
  BY EmptySeq, ConcatEmptySeq
<1>6. Len(<< >>) = 0
  BY EmptySeq
<1>7. s # << >>
  BY <1>2, <1>6
<1> QED BY <1>2, <1>4, <1>5, <1>7

-----------------------------------------------------------------------------
(* TypeOK, in two parts: where all stands, and the queues.                 *)

PlaceType ==
    /\ m_instance \in Actors \cup {NULL}
    /\ object \in [Actors -> {"none", "made", "deleted"}]
    /\ m_pThread \in [Actors -> {"none", "running", "silent", "refusing", "closed"}]
    /\ m_socket \in [Actors -> {"none", "connected", "broken", "closed"}]
    /\ place \in [Actors -> TracePlaces \cup MainPlaces]
    /\ traced \in [Threads -> 0 .. MaxLines]
    /\ late \subseteq Threads
    /\ wild \subseteq Threads

Lines == [Actors -> Seq(Line)]

LineType == queue \in Lines /\ busy \in Lines /\ wire \in Lines /\ accepted \in Lines

LEMMA TypeParts == TypeOK <=> PlaceType /\ LineType
BY DEF TypeOK, PlaceType, LineType, Lines

LEMMA PlaceTypeStep ==
    ASSUME PlaceType, [Next]_vars
    PROVE  PlaceType'
<1> USE DEF PlaceType, Actors, TracePlaces, MainPlaces, ReleasePlaces
<1>1. CASE UNCHANGED vars
  BY <1>1 DEF vars, objectVars
<1>2. ASSUME NEW a \in Actors, GetInstance(a) \/ Construct(a) \/ Store(a)
      PROVE  PlaceType'
  <2>1. CASE GetInstance(a)
    BY <2>1 DEF GetInstance, Goes, AfterGet, objectVars
  <2>2. CASE Construct(a)
    BY <2>2 DEF Construct, Goes
  <2>3. CASE Store(a)
    BY <2>3 DEF Store, Goes, AfterGet, objectVars
  <2> QED BY <1>2, <2>1, <2>2, <2>3
<1>3. ASSUME NEW t \in Threads, CallTrace(t)
      PROVE  PlaceType'
  BY <1>3, LogAssumption DEF CallTrace, Goes, objectVars
<1>4. ASSUME NEW t \in Threads, TestInstance(t) \/ AddTask(t) \/ AddTaskDeleted(t)
      PROVE  PlaceType'
  BY <1>4 DEF TestInstance, AddTask, AddTaskDeleted, Goes, objectVars
<1>5. ASSUME NEW i \in Actors, Pool(i) \/ ConnectionBreaks(i)
      PROVE  PlaceType'
  BY <1>5 DEF Pool, TakeLine, WriteLog, ConnectionBreaks
<1>6. CASE MainReturns \/ ExitProcess \/ SetNull
  BY <1>6 DEF MainReturns, ExitProcess, SetNull, Goes, objectVars
<1>7. CASE CloseQueue \/ StopThread \/ CloseSocket \/ Delete
  BY <1>7 DEF CloseQueue, StopThread, CloseSocket, Delete, Goes
<1> QED
  BY <1>1, <1>2, <1>3, <1>4, <1>5, <1>6, <1>7 DEF Next, TRACE, MainThread, releaseInstance

(* The lines of AddTask are lines.                                         *)
LEMMA AddTaskAdds ==
    ASSUME PlaceType, LineType, OrderInv, NEW t \in Threads, AddTask(t)
    PROVE  /\ m_instance \in Actors
           /\ << t, traced[t] >> \in Line
           /\ place[t] = "add" /\ object[m_instance] = "made"
<1>1. m_instance \in Actors /\ place[t] = "add" /\ object[m_instance] = "made" /\ t \in Actors
  BY DEF AddTask, Goes, PlaceType, Actors
<1>2. traced[t] \in 1 .. MaxLines
  BY <1>1, LogAssumption DEF PlaceType, OrderInv
<1> QED BY <1>1, <1>2 DEF Line

(* WriteLog takes the one line in hand.                                    *)
LEMMA WriteLogSends ==
    ASSUME LineType, OrderInv, NEW i \in Actors, WriteLog(i)
    PROVE  /\ Len(busy[i]) = 1 /\ busy[i] # << >> /\ busy[i][1] \in Line
           /\ busy' = [busy EXCEPT ![i] = << >>]
           /\ wire' = IF m_socket[i] = "connected"
                      THEN [wire EXCEPT ![i] = Append(@, busy[i][1])]
                      ELSE wire
<1>1. PICK n \in DOMAIN busy[i] :
          /\ busy' = [busy EXCEPT ![i] = Without(@, n)]
          /\ wire' = IF m_socket[i] = "connected"
                     THEN [wire EXCEPT ![i] = Append(@, busy[i][n])]
                     ELSE wire
  BY DEF WriteLog
<1>2. busy[i] \in Seq(Line) /\ Len(busy[i]) \leq 1
  BY DEF LineType, Lines, OrderInv, Ordered, InOrder
<1>3. /\ n = 1 /\ Len(busy[i]) = 1 /\ busy[i] # << >>
      /\ Without(busy[i], n) = << >>
  BY <1>2, OneTakenOut
<1>4. busy[i][1] \in Line
  BY <1>2, <1>3, ElementOfSeq
<1> QED BY <1>1, <1>3, <1>4

LEMMA LineTypeStep ==
    ASSUME PlaceType, LineType, OrderInv, [Next]_vars
    PROVE  LineType'
<1> USE DEF LineType, Lines
<1>1. CASE UNCHANGED vars
  BY <1>1 DEF vars, objectVars
<1>2. ASSUME NEW t \in Threads, AddTask(t)
      PROVE  LineType'
  <2>1. m_instance \in Actors /\ << t, traced[t] >> \in Line
    BY <1>2, AddTaskAdds
  <2>2. /\ Append(queue[m_instance], << t, traced[t] >>) \in Seq(Line)
        /\ Append(accepted[m_instance], << t, traced[t] >>) \in Seq(Line)
    BY <2>1, AppendQueue
  <2> QED BY <1>2, <2>1, <2>2 DEF AddTask
<1>3. ASSUME NEW i \in Actors, TakeLine(i)
      PROVE  LineType'
  <2>1. Tail(queue[i]) \in Seq(Line) /\ Head(queue[i]) \in Line
    BY <1>3, TailQueue DEF TakeLine
  <2>2. Append(busy[i], Head(queue[i])) \in Seq(Line)
    BY <2>1, AppendQueue
  <2> QED BY <1>3, <2>1, <2>2 DEF TakeLine
<1>4. ASSUME NEW i \in Actors, WriteLog(i)
      PROVE  LineType'
  <2>1. << >> \in Seq(Line) /\ Append(wire[i], busy[i][1]) \in Seq(Line)
    BY <1>4, WriteLogSends, AppendQueue, EmptySeq
  <2>2. UNCHANGED << queue, accepted >>
    BY <1>4 DEF WriteLog
  <2> QED BY <1>4, <2>1, <2>2, WriteLogSends
<1>5. CASE CloseQueue \/ StopThread
  <2>1. << >> \in Seq(Line)
    BY EmptySeq
  <2> QED BY <1>5, <2>1 DEF CloseQueue, StopThread
<1>6. ASSUME NEW a \in Actors, GetInstance(a) \/ Construct(a) \/ Store(a) \/ ConnectionBreaks(a)
      PROVE  LineType'
  BY <1>6 DEF GetInstance, Construct, Store, ConnectionBreaks, objectVars
<1>7. ASSUME NEW t \in Threads, CallTrace(t) \/ TestInstance(t) \/ AddTaskDeleted(t)
      PROVE  LineType'
  BY <1>7 DEF CallTrace, TestInstance, AddTaskDeleted, objectVars
<1>8. CASE MainReturns \/ ExitProcess \/ CloseSocket \/ Delete \/ SetNull
  BY <1>8 DEF MainReturns, ExitProcess, CloseSocket, Delete, SetNull, objectVars
<1> QED
  BY <1>1, <1>2, <1>3, <1>4, <1>5, <1>6, <1>7, <1>8
     DEF Next, TRACE, Pool, MainThread, releaseInstance, Actors

-----------------------------------------------------------------------------
(* InstanceInv.                                                            *)

LEMMA InstanceStep ==
    ASSUME PlaceType, InstanceInv, [Next]_vars
    PROVE  InstanceInv'
<1> USE LogAssumption DEF PlaceType, Actors, TracePlaces, MainPlaces, ReleasePlaces,
                          InstanceInv, Before, Using, Released
<1>1. CASE UNCHANGED vars
  BY <1>1 DEF vars, objectVars
<1>2. ASSUME NEW t \in Threads, TRACE(t)
      PROVE  InstanceInv'
  <2>1. CASE GetInstance(t)
    BY <2>1 DEF GetInstance, Goes, AfterGet, objectVars
  <2>2. CASE Construct(t)
    BY <2>2 DEF Construct, Goes
  <2>3. CASE Store(t)
    BY <2>3 DEF Store, Goes, AfterGet, objectVars
  <2>4. CASE CallTrace(t) \/ TestInstance(t) \/ AddTask(t) \/ AddTaskDeleted(t)
    BY <2>4 DEF CallTrace, MainCalled, TestInstance, AddTask, AddTaskDeleted, Goes, objectVars
  <2> QED BY <1>2, <2>1, <2>2, <2>3, <2>4 DEF TRACE
<1>3. ASSUME NEW i \in Actors, Pool(i) \/ ConnectionBreaks(i)
      PROVE  InstanceInv'
  BY <1>3 DEF Pool, TakeLine, WriteLog, ConnectionBreaks
<1>4. CASE MainThread
  <2>1. CASE GetInstance(Main) \/ Construct(Main) \/ Store(Main)
    BY <2>1 DEF GetInstance, Construct, Store, Goes, AfterGet, objectVars
  <2>2. CASE MainReturns \/ ExitProcess
    BY <2>2 DEF MainReturns, ExitProcess, Goes, objectVars
  <2>3. CASE releaseInstance
    BY <2>3 DEF releaseInstance, CloseQueue, StopThread, CloseSocket, Delete, SetNull,
                Goes, objectVars
  <2> QED BY <1>4, <2>1, <2>2, <2>3 DEF MainThread
<1> QED BY <1>1, <1>2, <1>3, <1>4 DEF Next

-----------------------------------------------------------------------------
(* ReleaseInv.                                                             *)

LEMMA ReleaseStep ==
    ASSUME PlaceType, LineType, OrderInv, InstanceInv, ReleaseInv, [Next]_vars
    PROVE  ReleaseInv'
<1> USE LogAssumption DEF PlaceType, Actors, InstanceInv, Before, Using, Released, ReleaseInv
<1>1. CASE UNCHANGED vars
  BY <1>1 DEF vars, objectVars
<1>2. ASSUME NEW t \in Threads, TRACE(t)
      PROVE  ReleaseInv'
  <2>1. CASE GetInstance(t)
    BY <2>1 DEF GetInstance, Goes, AfterGet, objectVars
  <2>2. CASE Construct(t)
    BY <2>2 DEF Construct, Goes
  <2>3. CASE Store(t)
    BY <2>3 DEF Store, Goes, AfterGet, objectVars
  <2>4. CASE CallTrace(t)
    BY <2>4 DEF CallTrace, Goes, objectVars
  <2>5. CASE TestInstance(t) \/ AddTask(t)
    BY <2>5 DEF TestInstance, AddTask, Goes, objectVars
  <2>6. CASE AddTaskDeleted(t)
    BY <2>6 DEF AddTaskDeleted, Goes, objectVars
  <2> QED BY <1>2, <2>1, <2>2, <2>3, <2>4, <2>5, <2>6 DEF TRACE
<1>3. ASSUME NEW i \in Actors, Pool(i) \/ ConnectionBreaks(i)
      PROVE  ReleaseInv'
  <2>1. CASE TakeLine(i)
    BY <2>1 DEF TakeLine
  <2>2. CASE WriteLog(i)
    <3>1. /\ UNCHANGED << m_instance, object, m_pThread, place, late, wild >>
          /\ busy' = [busy EXCEPT ![i] = << >>]
      BY <2>2, WriteLogSends DEF WriteLog
    <3> QED BY <3>1 DEF LineType, Lines
  <2>3. CASE ConnectionBreaks(i)
    BY <2>3 DEF ConnectionBreaks
  <2> QED BY <1>3, <2>1, <2>2, <2>3 DEF Pool
<1>4. CASE MainThread
  <2>1. CASE GetInstance(Main) \/ Construct(Main) \/ Store(Main)
    BY <2>1 DEF GetInstance, Construct, Store, Goes, AfterGet, objectVars
  <2>2. CASE MainReturns \/ ExitProcess
    BY <2>2 DEF MainReturns, ExitProcess, Goes, objectVars
  <2>3. CASE CloseQueue
    BY <2>3 DEF CloseQueue, Goes
  <2>4. CASE StopThread
    BY <2>4 DEF StopThread, Goes, LineType, Lines
  <2>5. CASE CloseSocket \/ Delete
    BY <2>5 DEF CloseSocket, Delete, Goes
  <2>6. CASE SetNull
    BY <2>6 DEF SetNull, Goes, objectVars
  <2> QED BY <1>4, <2>1, <2>2, <2>3, <2>4, <2>5, <2>6 DEF MainThread, releaseInstance
<1> QED BY <1>1, <1>2, <1>3, <1>4 DEF Next

-----------------------------------------------------------------------------
(* What the steps of a line do to InOrder.                                 *)

LEMMA TakenInOrder ==       \* AddTask
    ASSUME NEW S, NEW a \in Seq(S), NEW w \in Seq(S), NEW b \in Seq(S), NEW q \in Seq(S),
           NEW l \in S, NEW c, NEW o, InOrder(a, w, b, q, c, o)
    PROVE  InOrder(Append(a, l), w, b, Append(q, l), c, o)
<1> DEFINE a1 == Append(a, l)
           q1 == Append(q, l)
<1>1. Len(a) \in Nat /\ Len(w) \in Nat /\ Len(b) \in Nat /\ Len(q) \in Nat
  BY LenProperties
<1>2. /\ Len(a1) = Len(a) + 1 /\ (\A n \in 1 .. Len(a) : a1[n] = a[n])
      /\ a1[Len(a) + 1] = l
      /\ Len(q1) = Len(q) + 1 /\ (\A n \in 1 .. Len(q) : q1[n] = q[n])
      /\ q1[Len(q) + 1] = l
  BY AppendQueue
<1> HIDE DEF a1, q1
<1>3. /\ Len(w) \leq Len(a1)
      /\ \A n \in 1 .. Len(w) : w[n] = a1[n]
      /\ Len(b) \leq 1
  BY <1>1, <1>2 DEF InOrder
<1>4. ASSUME c, b # << >>
      PROVE  Len(w) < Len(a1) /\ b[1] = a1[Len(w) + 1]
  <2>1. Len(w) < Len(a) /\ b[1] = a[Len(w) + 1]
    BY <1>4 DEF InOrder
  <2>2. Len(w) + 1 \in 1 .. Len(a)
    BY <1>1, <2>1
  <2> QED BY <1>1, <1>2, <2>1, <2>2
<1>5. ASSUME c, o
      PROVE  /\ Len(a1) = Len(w) + Len(b) + Len(q1)
             /\ \A n \in 1 .. Len(q1) : q1[n] = a1[Len(w) + Len(b) + n]
  <2>1. /\ Len(a) = Len(w) + Len(b) + Len(q)
        /\ \A n \in 1 .. Len(q) : q[n] = a[Len(w) + Len(b) + n]
    BY <1>5 DEF InOrder
  <2>2. ASSUME NEW n \in 1 .. Len(q1)
        PROVE  q1[n] = a1[Len(w) + Len(b) + n]
    <3>1. CASE n = Len(q) + 1
      BY <1>1, <1>2, <2>1, <3>1
    <3>2. CASE n \in 1 .. Len(q)
      <4>1. Len(w) + Len(b) + n \in 1 .. Len(a)
        BY <1>1, <2>1, <3>2
      <4> QED BY <1>2, <2>1, <3>2, <4>1
    <3> QED BY <1>1, <1>2, <3>1, <3>2
  <2> QED BY <1>1, <1>2, <2>1, <2>2
<1>6. InOrder(a1, w, b, q1, c, o)
  BY <1>3, <1>4, <1>5 DEF InOrder
<1> QED BY <1>6 DEF a1, q1

LEMMA HandInOrder ==        \* TakeLine
    ASSUME NEW S, NEW a \in Seq(S), NEW w \in Seq(S), NEW b \in Seq(S), NEW q \in Seq(S),
           NEW c, NEW o, o, Len(b) < 1, q # << >>, InOrder(a, w, b, q, c, o)
    PROVE  InOrder(a, w, Append(b, Head(q)), Tail(q), c, o)
<1> DEFINE b1 == Append(b, Head(q))
           q1 == Tail(q)
<1>1. Len(a) \in Nat /\ Len(w) \in Nat /\ Len(b) \in Nat /\ Len(q) \in Nat \ {0}
  BY LenProperties, TailQueue
<1>2. /\ Head(q) \in S /\ Head(q) = q[1] /\ Len(q1) = Len(q) - 1
      /\ \A n \in 1 .. Len(q) - 1 : q1[n] = q[n + 1]
  BY TailQueue
<1>3. Len(b) = 0 /\ Len(b1) = 1 /\ b1[1] = q[1]
  BY <1>1, <1>2, AppendQueue
<1> HIDE DEF b1, q1
<1>4. Len(w) \leq Len(a) /\ (\A n \in 1 .. Len(w) : w[n] = a[n]) /\ Len(b1) \leq 1
  BY <1>3 DEF InOrder
<1>5. ASSUME c
      PROVE  /\ Len(w) < Len(a) /\ b1[1] = a[Len(w) + 1]
             /\ Len(a) = Len(w) + Len(b1) + Len(q1)
             /\ \A n \in 1 .. Len(q1) : q1[n] = a[Len(w) + Len(b1) + n]
  <2>1. Len(a) = Len(w) + Len(q) /\ \A n \in 1 .. Len(q) : q[n] = a[Len(w) + n]
    BY <1>1, <1>3, <1>5 DEF InOrder
  <2>2. Len(w) < Len(a) /\ b1[1] = a[Len(w) + 1] /\ Len(a) = Len(w) + Len(b1) + Len(q1)
    BY <1>1, <1>2, <1>3, <2>1
  <2>3. ASSUME NEW n \in 1 .. Len(q1)
        PROVE  q1[n] = a[Len(w) + Len(b1) + n]
    <3>1. n \in 1 .. Len(q) - 1 /\ n + 1 \in 1 .. Len(q)
      BY <1>1, <1>2
    <3>2. q1[n] = a[Len(w) + (n + 1)] /\ Len(w) + (n + 1) = Len(w) + Len(b1) + n
      BY <1>1, <1>2, <1>3, <2>1, <3>1
    <3> QED BY <3>2
  <2> QED BY <2>2, <2>3
<1>6. InOrder(a, w, b1, q1, c, o)
  BY <1>4, <1>5 DEF InOrder
<1> QED BY <1>6 DEF b1, q1

LEMMA SentIsInOrder ==      \* WriteLog
    ASSUME NEW S, NEW a \in Seq(S), NEW w \in Seq(S), NEW b \in Seq(S), NEW q \in Seq(S),
           NEW c, NEW o, c, Len(b) = 1, b # << >>, b[1] \in S,
           InOrder(a, w, b, q, c, o)
    PROVE  InOrder(a, Append(w, b[1]), << >>, q, c, o)
<1> DEFINE w1 == Append(w, b[1])
<1>1. Len(a) \in Nat /\ Len(w) \in Nat /\ Len(q) \in Nat /\ Len(<< >>) = 0
  BY LenProperties, EmptySeq
<1>2. /\ Len(w1) = Len(w) + 1 /\ (\A n \in 1 .. Len(w) : w1[n] = w[n])
      /\ w1[Len(w) + 1] = b[1]
  BY AppendQueue
<1> HIDE DEF w1
<1>3. /\ Len(w) < Len(a) /\ b[1] = a[Len(w) + 1]
      /\ \A n \in 1 .. Len(w) : w[n] = a[n]
  BY DEF InOrder
<1>4. Len(w1) \leq Len(a)
  BY <1>1, <1>2, <1>3
<1>5. ASSUME NEW n \in 1 .. Len(w1)
      PROVE  w1[n] = a[n]
  <2>1. n \in 1 .. Len(w) \/ n = Len(w) + 1
    BY <1>1, <1>2
  <2> QED BY <1>2, <1>3, <2>1
<1>6. ASSUME o
      PROVE  /\ Len(a) = Len(w1) + 0 + Len(q)
             /\ \A n \in 1 .. Len(q) : q[n] = a[Len(w1) + 0 + n]
  <2>1. Len(a) = Len(w) + 1 + Len(q) /\ \A n \in 1 .. Len(q) : q[n] = a[Len(w) + 1 + n]
    BY <1>6 DEF InOrder
  <2>2. Len(w1) + 0 = Len(w) + 1
    BY <1>1, <1>2
  <2> QED BY <2>1, <2>2
<1>7. InOrder(a, w1, << >>, q, c, o)
  BY <1>1, <1>4, <1>5, <1>6 DEF InOrder
<1> QED BY <1>7 DEF w1

(* Lines in hand or waiting that are let go, once the pool is closed or    *)
(* the connection is not there.                                            *)
LEMMA LetGoInOrder ==
    ASSUME NEW S, NEW a, NEW w, NEW b, NEW q, NEW b1, NEW q1, NEW c, NEW o, NEW c1, NEW o1,
           InOrder(a, w, b, q, c, o), c1 => c, o1 => o,
           b1 = b \/ b1 = << >>, c1 /\ o1 => b1 = b /\ q1 = q
    PROVE  InOrder(a, w, b1, q1, c1, o1)
<1>1. Len(<< >>) = 0
  BY EmptySeq
<1> QED BY <1>1 DEF InOrder

-----------------------------------------------------------------------------
(* OrderInv.                                                               *)

LEMMA AddTaskOrdered ==
    ASSUME PlaceType, LineType, OrderInv, NEW t \in Threads, AddTask(t), NEW i \in Actors
    PROVE  Ordered(i)'
<1> DEFINE l == << t, traced[t] >>
<1>1. m_instance \in Actors /\ l \in Line
  BY AddTaskAdds
<1>2. UNCHANGED << busy, wire, m_socket, m_pThread >>
  BY DEF AddTask
<1>3. /\ Ordered(i)
      /\ queue[i] \in Seq(Line) /\ accepted[i] \in Seq(Line)
      /\ busy[i] \in Seq(Line) /\ wire[i] \in Seq(Line)
  BY DEF OrderInv, LineType, Lines
<1>4. CASE queue'[i] = queue[i] /\ accepted'[i] = accepted[i]
  BY <1>2, <1>3, <1>4 DEF Ordered
<1>5. CASE queue'[i] = Append(queue[i], l) /\ accepted'[i] = Append(accepted[i], l)
  BY <1>1, <1>2, <1>3, <1>5, TakenInOrder DEF Ordered
<1> QED BY <1>1, <1>4, <1>5 DEF AddTask, LineType, Lines

LEMMA TakeLineOrdered ==
    ASSUME PlaceType, LineType, OrderInv, NEW j \in Actors, TakeLine(j), NEW i \in Actors
    PROVE  Ordered(i)'
<1>1. UNCHANGED << wire, accepted, m_socket, m_pThread >>
  BY DEF TakeLine
<1>2. /\ Ordered(i)
      /\ queue[i] \in Seq(Line) /\ accepted[i] \in Seq(Line)
      /\ busy[i] \in Seq(Line) /\ wire[i] \in Seq(Line)
  BY DEF OrderInv, LineType, Lines
<1>3. CASE i # j
  <2>1. queue'[i] = queue[i] /\ busy'[i] = busy[i]
    BY <1>3 DEF TakeLine, LineType, Lines
  <2> QED BY <1>1, <1>2, <2>1 DEF Ordered
<1>4. CASE i = j
  <2>1. /\ queue[i] # << >> /\ Len(busy[i]) < 1 /\ m_pThread[i] # "closed"
        /\ queue'[i] = Tail(queue[i]) /\ busy'[i] = Append(busy[i], Head(queue[i]))
    BY <1>4 DEF TakeLine, LineType, Lines, PoolThreads
  <2>2. InOrder(accepted[i], wire[i], Append(busy[i], Head(queue[i])), Tail(queue[i]),
                m_socket[i] = "connected", m_pThread[i] # "closed")
    BY <1>2, <2>1, HandInOrder DEF Ordered
  <2> QED BY <1>1, <2>1, <2>2 DEF Ordered
<1> QED BY <1>3, <1>4

LEMMA WriteLogOrdered ==
    ASSUME PlaceType, LineType, OrderInv, NEW j \in Actors, WriteLog(j), NEW i \in Actors
    PROVE  Ordered(i)'
<1>1. UNCHANGED << queue, accepted, m_socket, m_pThread >>
  BY DEF WriteLog
<1>2. /\ Ordered(i)
      /\ queue[i] \in Seq(Line) /\ accepted[i] \in Seq(Line)
      /\ busy[i] \in Seq(Line) /\ wire[i] \in Seq(Line)
  BY DEF OrderInv, LineType, Lines
<1>3. CASE i # j
  <2>1. wire'[i] = wire[i] /\ busy'[i] = busy[i]
    BY <1>3, WriteLogSends DEF LineType, Lines
  <2> QED BY <1>1, <1>2, <2>1 DEF Ordered
<1>4. CASE i = j
  <2>1. /\ Len(busy[i]) = 1 /\ busy[i] # << >> /\ busy[i][1] \in Line
        /\ busy'[i] = << >>
        /\ wire'[i] = IF m_socket[i] = "connected"
                      THEN Append(wire[i], busy[i][1]) ELSE wire[i]
    BY <1>4, WriteLogSends DEF LineType, Lines
  <2>2. CASE m_socket[i] = "connected"
    <3>1. InOrder(accepted[i], Append(wire[i], busy[i][1]), << >>, queue[i],
                  m_socket[i] = "connected", m_pThread[i] # "closed")
      BY <1>2, <2>1, <2>2, SentIsInOrder DEF Ordered
    <3> QED BY <1>1, <2>1, <2>2, <3>1 DEF Ordered
  <2>3. CASE m_socket[i] # "connected"
    BY <1>1, <1>2, <2>1, <2>3, LetGoInOrder DEF Ordered
  <2> QED BY <2>2, <2>3
<1> QED BY <1>3, <1>4

(* A new object has no lines.                                              *)
LEMMA ConstructOrdered ==
    ASSUME PlaceType, LineType, OrderInv, NEW a \in Actors, object[a] = "none",
           Construct(a), NEW i \in Actors
    PROVE  Ordered(i)'
<1>1. UNCHANGED << queue, busy, wire, accepted >>
  BY DEF Construct
<1>2. Ordered(i)
  BY DEF OrderInv
<1>3. CASE i # a
  <2>1. m_socket'[i] = m_socket[i] /\ m_pThread'[i] = m_pThread[i]
    BY <1>3 DEF Construct, PlaceType
  <2> QED BY <1>1, <1>2, <2>1 DEF Ordered
<1>4. CASE i = a
  <2>1. queue[i] = << >> /\ busy[i] = << >> /\ wire[i] = << >> /\ accepted[i] = << >>
    BY <1>4 DEF OrderInv
  <2>2. Len(<< >>) = 0
    BY EmptySeq
  <2> QED BY <1>1, <2>1, <2>2 DEF Ordered, InOrder
<1> QED BY <1>3, <1>4

(* A step that only lets lines go, of a pool that is closed, or closes.    *)
LEMMA CloseOrdered ==
    ASSUME PlaceType, LineType, InstanceInv, ReleaseInv, OrderInv,
           CloseQueue \/ StopThread \/ CloseSocket, NEW i \in Actors
    PROVE  Ordered(i)'
<1>1. Ordered(i)
  BY DEF OrderInv
<1>2. UNCHANGED << wire, accepted >>
  BY DEF CloseQueue, StopThread, CloseSocket
<1>3. CASE CloseQueue
  <2>1. UNCHANGED << busy, m_socket >>
    BY <1>3 DEF CloseQueue
  <2>2. \/ m_pThread'[i] = "closed"
        \/ m_pThread'[i] = m_pThread[i] /\ queue'[i] = queue[i]
    BY <1>3 DEF CloseQueue, PlaceType, LineType, Lines
  <2> QED BY <1>1, <1>2, <2>1, <2>2, LetGoInOrder DEF Ordered
<1>4. CASE StopThread
  <2>1. UNCHANGED << queue, m_socket, m_pThread >>
    BY <1>4 DEF StopThread
  <2>2. \/ busy'[i] = busy[i]
        \/ busy'[i] = << >> /\ m_pThread[i] = "closed"
    BY <1>4 DEF StopThread, Goes, LineType, Lines, InstanceInv, ReleaseInv, Using
  <2> QED BY <1>1, <1>2, <2>1, <2>2, LetGoInOrder DEF Ordered
<1>5. CASE CloseSocket
  <2>1. UNCHANGED << queue, busy, m_pThread >>
    BY <1>5 DEF CloseSocket
  <2>2. m_socket'[i] = m_socket[i] \/ m_socket'[i] = "closed"
    BY <1>5 DEF CloseSocket, PlaceType
  <2> QED BY <1>1, <1>2, <2>1, <2>2, LetGoInOrder DEF Ordered
<1> QED BY <1>3, <1>4, <1>5
-----------------------------------------------------------------------------
LEMMA OrderedStep ==
    ASSUME PlaceType, LineType, InstanceInv, ReleaseInv, OrderInv, [Next]_vars,
           NEW i \in Actors
    PROVE  Ordered(i)'
<1>1. Ordered(i)
  BY DEF OrderInv
<1>2. ASSUME NEW a \in Actors, Construct(a)
      PROVE  Ordered(i)'
  <2>1. object[a] = "none"
    BY <1>2, LogAssumption DEF Construct, Goes, InstanceInv, Actors
  <2> QED BY <1>2, <2>1, ConstructOrdered
<1>3. ASSUME NEW j \in Actors, ConnectionBreaks(j)
      PROVE  Ordered(i)'
  <2>1. UNCHANGED << queue, busy, wire, accepted, m_pThread >>
    BY <1>3 DEF ConnectionBreaks
  <2>2. m_socket'[i] = m_socket[i] \/ m_socket'[i] = "broken"
    BY <1>3 DEF ConnectionBreaks, PlaceType
  <2> QED BY <1>1, <2>1, <2>2, LetGoInOrder DEF Ordered
<1>4. ASSUME UNCHANGED << queue, busy, wire, accepted, m_pThread, m_socket >>
      PROVE  Ordered(i)'
  BY <1>1, <1>4 DEF Ordered
<1>5. CASE UNCHANGED vars
  BY <1>4, <1>5 DEF vars, objectVars
<1>6. ASSUME NEW a \in Actors, GetInstance(a) \/ Store(a)
      PROVE  Ordered(i)'
  BY <1>4, <1>6 DEF GetInstance, Store, objectVars
<1>7. ASSUME NEW t \in Threads, CallTrace(t) \/ TestInstance(t) \/ AddTaskDeleted(t)
      PROVE  Ordered(i)'
  BY <1>4, <1>7 DEF CallTrace, TestInstance, AddTaskDeleted, objectVars
<1>8. CASE MainReturns \/ ExitProcess \/ Delete \/ SetNull
  BY <1>4, <1>8 DEF MainReturns, ExitProcess, Delete, SetNull, objectVars
<1>9. ASSUME NEW t \in Threads, TRACE(t)
      PROVE  Ordered(i)'
  BY <1>2, <1>6, <1>7, <1>9, AddTaskOrdered DEF TRACE, Actors
<1>10. ASSUME NEW j \in Actors, Pool(j)
       PROVE  Ordered(i)'
  BY <1>10, TakeLineOrdered, WriteLogOrdered DEF Pool
<1>11. CASE MainThread
  BY <1>2, <1>6, <1>8, <1>11, CloseOrdered DEF MainThread, releaseInstance, Actors
<1> QED
  BY <1>3, <1>5, <1>9, <1>10, <1>11 DEF Next

(* An object that is not made yet has no lines, and gets none.             *)
NoLines(i) ==
    /\ m_pThread[i] = "none"
    /\ queue[i] = << >> /\ busy[i] = << >>
    /\ wire[i] = << >> /\ accepted[i] = << >>

LEMMA NoLinesStep ==
    ASSUME PlaceType, LineType, InstanceInv, ReleaseInv, OrderInv, [Next]_vars,
           NEW i \in Actors, object'[i] = "none"
    PROVE  NoLines(i)'
<1> USE LogAssumption DEF PlaceType, LineType, Lines, Actors, NoLines
<1>1. ASSUME object[i] = "none"
      PROVE  NoLines(i)
  BY <1>1 DEF OrderInv
<1>2. CASE UNCHANGED vars
  BY <1>1, <1>2 DEF vars, objectVars
<1>3. ASSUME NEW t \in Threads, AddTask(t)
      PROVE  NoLines(i)'
  <2>1. object[i] = "none" /\ i # m_instance
    BY <1>3 DEF AddTask
  <2> QED BY <1>1, <1>3, <2>1 DEF AddTask
<1>4. ASSUME NEW a \in Actors, Construct(a)
      PROVE  NoLines(i)'
  BY <1>1, <1>4 DEF Construct
<1>5. ASSUME NEW j \in Actors, TakeLine(j)
      PROVE  NoLines(i)'
  BY <1>1, <1>5 DEF TakeLine
<1>6. ASSUME NEW j \in Actors, WriteLog(j)
      PROVE  NoLines(i)'
  <2>1. object[i] = "none" /\ i # j
    BY <1>1, <1>6, WriteLogSends DEF WriteLog
  <2> QED BY <1>1, <1>6, <2>1, WriteLogSends DEF WriteLog
<1>7. ASSUME NEW a \in Actors, GetInstance(a) \/ Store(a) \/ ConnectionBreaks(a)
      PROVE  NoLines(i)'
  BY <1>1, <1>7 DEF GetInstance, Store, ConnectionBreaks, objectVars
<1>8. ASSUME NEW t \in Threads, CallTrace(t) \/ TestInstance(t) \/ AddTaskDeleted(t)
      PROVE  NoLines(i)'
  BY <1>1, <1>8 DEF CallTrace, TestInstance, AddTaskDeleted, objectVars
<1>9. CASE MainReturns \/ ExitProcess \/ SetNull \/ Delete
  BY <1>1, <1>9 DEF MainReturns, ExitProcess, SetNull, Delete, objectVars
<1>10. CASE CloseQueue \/ StopThread \/ CloseSocket
  <2>1. m_instance = Main /\ object[Main] = "made"
    BY <1>10 DEF CloseQueue, StopThread, CloseSocket, Goes, InstanceInv, Using
  <2>2. object[i] = "none" /\ i # Main
    BY <1>10, <2>1 DEF CloseQueue, StopThread, CloseSocket
  <2> QED BY <1>1, <1>10, <2>1, <2>2 DEF CloseQueue, StopThread, CloseSocket
<1> QED
  BY <1>2, <1>3, <1>4, <1>5, <1>6, <1>7, <1>8, <1>9, <1>10
     DEF Next, TRACE, Pool, MainThread, releaseInstance

LEMMA TracedStep ==
    ASSUME PlaceType, OrderInv, InstanceInv, [Next]_vars, NEW t \in Threads, place'[t] # "idle"
    PROVE  traced'[t] # 0
<1> USE LogAssumption DEF PlaceType, OrderInv, Actors
<1>1. CASE UNCHANGED vars
  BY <1>1 DEF vars
<1>2. ASSUME NEW u \in Threads, CallTrace(u)
      PROVE  traced'[t] # 0
  BY <1>2 DEF CallTrace, Goes
<1>3. ASSUME NEW a \in Actors, GetInstance(a) \/ Construct(a) \/ Store(a)
      PROVE  traced'[t] # 0
  BY <1>3 DEF GetInstance, Construct, Store, Goes, InstanceInv, TracePlaces
<1>4. ASSUME NEW u \in Threads, TestInstance(u) \/ AddTask(u) \/ AddTaskDeleted(u)
      PROVE  traced'[t] # 0
  BY <1>4 DEF TestInstance, AddTask, AddTaskDeleted, Goes
<1>5. ASSUME NEW i \in Actors, Pool(i) \/ ConnectionBreaks(i)
      PROVE  traced'[t] # 0
  BY <1>5 DEF Pool, TakeLine, WriteLog, ConnectionBreaks
<1>6. CASE MainReturns \/ releaseInstance \/ ExitProcess
  BY <1>6 DEF MainReturns, releaseInstance, ExitProcess, CloseQueue, StopThread,
              CloseSocket, Delete, SetNull, Goes
<1> QED
  BY <1>1, <1>2, <1>3, <1>4, <1>5, <1>6 DEF Next, TRACE, MainThread

LEMMA OrderStep ==
    ASSUME PlaceType, LineType, InstanceInv, ReleaseInv, OrderInv, [Next]_vars
    PROVE  OrderInv'
<1>1. Threads' = Threads /\ Actors' = Actors
  BY DEF Actors
<1>2. \A i \in Actors : Ordered(i)'
  BY OrderedStep
<1>3. ASSUME NEW i \in Actors, object'[i] = "none"
      PROVE  NoLines(i)'
  BY <1>3, NoLinesStep
<1>4. \A t \in Threads : place'[t] # "idle" => traced'[t] # 0
  BY TracedStep
<1> QED BY <1>2, <1>3, <1>4 DEF OrderInv, NoLines, Actors

LEMMA NextInv == IndInv /\ [Next]_vars => IndInv'
<1> SUFFICES ASSUME IndInv, [Next]_vars PROVE IndInv'
  OBVIOUS
<1>1. PlaceType /\ LineType /\ InstanceInv /\ ReleaseInv /\ OrderInv
  BY TypeParts DEF IndInv
<1>2. PlaceType' /\ LineType'
  BY <1>1, PlaceTypeStep, LineTypeStep
<1>3. TypeOK'
  BY <1>2 DEF TypeOK, PlaceType, LineType, Lines
<1>4. InstanceInv' /\ ReleaseInv' /\ OrderInv'
  BY <1>1, InstanceStep, ReleaseStep, OrderStep
<1> QED BY <1>3, <1>4 DEF IndInv

LEMMA Invariance == Spec => []IndInv
BY InitInv, NextInv, PTL DEF Spec

-----------------------------------------------------------------------------
(* Until the release only m_helper's object is there, however the threads  *)
(* interleave in getInstance.                                              *)
THEOREM OneLogServer == Spec => []OneInstance
<1>1. ASSUME IndInv PROVE OneInstance
  <2> SUFFICES ASSUME ~Released
               PROVE  Cardinality({a \in Actors : object[a] # "none"}) \leq 1
    BY DEF OneInstance
  <2> DEFINE Made == {a \in Actors : object[a] # "none"}
  <2>1. Made \subseteq {Main}
    BY <1>1 DEF IndInv, InstanceInv, Actors
  <2>2. IsFiniteSet({Main}) /\ Cardinality({Main}) = 1
    BY FS_Singleton
  <2>3. Cardinality(Made) \leq Cardinality({Main})
    BY <2>1, <2>2, FS_Subset
  <2> QED BY <2>2, <2>3
<1> QED BY <1>1, Invariance, PTL

(* No TRACE that begins after the release uses the deleted object, and the *)
(* thread of a pool is gone before the object is.                          *)
THEOREM NoUseOfDeleted == Spec => []DeletedNotUsed
<1>1. ASSUME IndInv PROVE DeletedNotUsed
  <2>1. wild \cap late = {}
    BY <1>1 DEF IndInv, ReleaseInv
  <2>2. ASSUME NEW i \in Actors, object[i] = "deleted"
        PROVE  busy[i] = << >>
    BY <1>1, <2>2 DEF IndInv, InstanceInv, ReleaseInv, Actors
  <2> QED BY <2>1, <2>2 DEF DeletedNotUsed
<1> QED BY <1>1, Invariance, PTL

(* What was sent on a connection is a beginning of what its pool took.     *)
THEOREM LinesSentInOrder == Spec => []SentInOrder
<1>1. IndInv => SentInOrder
  BY DEF IndInv, OrderInv, Ordered, InOrder, SentInOrder
<1> QED BY <1>1, Invariance, PTL

-----------------------------------------------------------------------------
(* THE SINK.  What its invariants are made of.                             *)

MaxPackets == MaxLines * Cardinality(Threads)
NoClient == << >>

(* A thread of the Sink has a packet in its hand, unless it waits for one; *)
(* with the end of a stream it goes no further than ClientRecvData.        *)
HandInv ==
    \A s \in Servers :
        /\ server[s] = "get" <=> hand[s] = NoClient
        /\ server[s] \in {"add", "wild"} => hand[s][2] > 0

(* Close of the pool comes first, Stop before the object goes.             *)
ClosingInv ==
    /\ main # "getchar" => ~Sink!Takes
    /\ instance # "made" => ~Sink!Takes
    /\ writer[1] \in {"ended", "killed"} => ~Sink!Takes
    /\ m_pFile = "closed" => ~Sink!Takes

(* The right to receive from a client: a WSARecv under way, a completion   *)
(* that waits, or a thread that may arm the next, or has the end in hand.  *)
Of(c) == {c} \X (0 .. MaxPackets)
Has(s, c) ==
    /\ hand[s] # NoClient /\ hand[s][1] = c
    /\ server[s] = "rearm" \/ hand[s][2] = 0

OneRight(c) ==
    /\ ends[c] \leq 1
    /\ recvs[c] # 0 => /\ Where(port, Of(c)) = {} /\ ends[c] = 0
                       /\ \A s \in Servers : ~Has(s, c)
    /\ Where(port, Of(c)) # {} => ends[c] = 0 /\ \A s \in Servers : ~Has(s, c)
    /\ AtMostOneOf(Where(port, Of(c)))
    /\ \A s \in Servers : Has(s, c) => ends[c] = 0
    /\ \A r, s \in Servers : Has(r, c) /\ Has(s, c) => r = s

RightInv == \A c \in Actors : OneRight(c)

(* A packet with data that waits is the last that arrived; none is in two  *)
(* places; and none is lost while the pool takes packets.                  *)
PortInv ==
    \A p \in Packets(port) : p[2] # 0 =>
        p[2] = received[p[1]] /\ p \notin Packets(logAccepted)

HandsInv ==
    \A s \in Servers : hand[s] # NoClient /\ hand[s][2] # 0 =>
        /\ hand[s][2] \leq received[hand[s][1]]
        /\ hand[s] \notin Packets(port) /\ hand[s] \notin Packets(logAccepted)
        /\ \A r \in Servers : hand[r] = hand[s] => r = s

TakenInv ==
    /\ \A p \in Packets(logAccepted) : p[2] \leq received[p[1]]
    /\ Distinct(logAccepted)

KeptInv ==
    Sink!Takes => \A c \in Actors : \A k \in 1 .. received[c] :
        \/ << c, k >> \in Packets(port) \cup Packets(logAccepted)
        \/ \E s \in Servers : hand[s] = << c, k >>

PlacesInv == PortInv /\ HandsInv /\ TakenInv /\ KeptInv

(* The earlier packets of a client that are not among those taken.         *)
Missing(p, took) == {k \in 1 .. p[2] - 1 : << p[1], k >> \notin Packets(took)}

FewMissing(p, took) ==
    IsFiniteSet(Missing(p, took)) /\ Cardinality(Missing(p, took)) < Cardinality(Servers)

LateInv == Sink!Takes => \A p \in Packets(logAccepted) : FewMissing(p, logAccepted)

(* Where the packets end: the file, or, without one, the screen; and what  *)
(* the writer has taken and not written there.                             *)
Out == IF m_pFile = "null" THEN screen ELSE file

ToWrite == IF m_pFile = "null" THEN {"stdout"} ELSE {"lock", "write"}

InHand == IF writer[1] \in ToWrite THEN << packet[1] >> ELSE << >>

(* The screen follows the file.                                            *)
ScreenInv ==
    /\ Len(screen) \leq Len(file)
    /\ \A n \in 1 .. Len(screen) : screen[n] = file[n]
    /\ writer[1] \in {"get", "lock", "write", "ended"} => Len(screen) = Len(file)
    /\ writer[1] \in {"flush", "flushing", "stdout"} =>
           /\ Len(screen) = Len(file) - 1
           /\ packet[1] = file[Len(file)]
    /\ writer[1] = "killed" => Len(screen) \in {Len(file), Len(file) - 1}

WriteInv ==
    /\ InOrder(logAccepted, Out, InHand, logQueue, TRUE, Sink!Takes)
    /\ m_pFile # "null" => ScreenInv
    /\ m_pFile = "null" =>
           file = << >> /\ writer[1] \in {"get", "stdout", "ended", "killed"}

(* What the pool of the Sink has of packets, and where its threads stand.  *)
SinkInv == Sink!TypeOK /\ HandInv /\ ClosingInv /\ RightInv /\ PlacesInv
           /\ LateInv /\ WriteInv

Delivery == Actors \X (0 .. MaxPackets)

LEMMA SinkBound == MaxPackets \in Nat /\ IsFiniteSet(Servers) /\ IsFiniteSet(Actors)
<1>1. IsFiniteSet(Threads) /\ Cardinality(Threads) \in Nat /\ MaxLines \in Nat
  BY LogAssumption, SinkAssumption, FS_CardinalityType
<1>2. \A m, n \in Nat : m * n \in Nat
  OBVIOUS
<1>3. IsFiniteSet(Actors)
  BY <1>1, FS_AddElement DEF Actors
<1> QED BY <1>1, <1>2, <1>3, SinkAssumption DEF MaxPackets

-----------------------------------------------------------------------------
(* Each step of the chain is one of the source, or of the Sink, or of both *)
(* programs' surroundings.                                                 *)
LEMMA SourceSteps == [ChainNext]_chainVars => [Next]_vars
<1>1. SourceStep => [Next]_vars
  BY DEF SourceStep, Next
<1>2. SinkStep => [Next]_vars
  BY DEF SinkStep
<1>3. ASSUME NEW c \in Actors, Arrives(c) \/ SourceEnds(c) \/ SinkEnds(c)
      PROVE  [Next]_vars
  BY <1>3 DEF Arrives, SourceEnds, SinkEnds, Next
<1> QED BY <1>1, <1>2, <1>3 DEF ChainNext, chainVars

LEMMA SinkSteps == [ChainNext]_chainVars => [Sink!Next]_(Sink!vars)
<1> USE DEF Sink!vars, Sink!kernelVars, Sink!serverVars, Sink!logVars, Sink!writeVars
<1>1. UNCHANGED sinkVars => UNCHANGED Sink!vars
  BY DEF sinkVars
<1>2. SourceStep => UNCHANGED Sink!vars
  BY <1>1 DEF SourceStep
<1>3. SinkStep => Sink!Next
  BY DEF SinkStep, Sink!Next, Sink!Kernel
<1>4. ASSUME NEW c \in Actors, Arrives(c) \/ SourceEnds(c) \/ SinkEnds(c)
      PROVE  Sink!Next \/ UNCHANGED Sink!vars
  BY <1>1, <1>4 DEF Arrives, SourceEnds, SinkEnds, Sink!Next, Sink!Kernel
<1>5. UNCHANGED chainVars => UNCHANGED sinkVars
  BY DEF chainVars
<1> QED BY <1>1, <1>2, <1>3, <1>4, <1>5 DEF ChainNext

(* The composition adds no step to either program: whatever is proved of   *)
(* the log client, or of the log program, holds in the chain.              *)
THEOREM ChainImplementsBoth == ChainSpec => Spec /\ Sink!Spec
<1>1. ChainInit => Init /\ Sink!Init
  BY DEF ChainInit
<1>2. [ChainNext]_chainVars => [Next]_vars
  BY SourceSteps
<1>3. [ChainNext]_chainVars => [Sink!Next]_(Sink!vars)
  BY SinkSteps
<1> QED BY <1>1, <1>2, <1>3, PTL DEF ChainSpec, Spec, Sink!Spec

-----------------------------------------------------------------------------
(* Its type, in two parts.                                                 *)

SinkPacket == Actors \X (1 .. MaxPackets)

(* The type of what a packet goes through, and of the rest.                *)
NetType ==
    /\ conn \in [Actors -> {"backlog", "open", "eof", "reset"}]
    /\ recvs \in [Actors -> 0 .. 1]
    /\ received \in [Actors -> 0 .. MaxPackets]
    /\ port \in Seq(Delivery)
    /\ server \in [Servers -> {"get", "rearm", "recvdata", "add", "wild"}]
    /\ hand \in [Servers -> Delivery \cup {NoClient}]
    /\ ends \in [Actors -> Nat]
    /\ logThread \in {"running", "silent", "refusing", "closed"}
    /\ logAccepted \in Seq(SinkPacket)

FileType ==
    /\ instance \in {"made", "deleted", "null"}
    /\ m_pFile \in {"open", "null", "closed"}
    /\ logQueue \in Seq(SinkPacket)
    /\ writer \in [{1} -> Sink!WriterPlaces]
    /\ packet \in [{1} -> SinkPacket \cup {NoClient}]
    /\ lock \in {0, 1}
    /\ file \in Seq(SinkPacket) /\ screen \in Seq(SinkPacket)
    /\ main \in {"getchar", "close", "stop", "fclose", "delete", "null", "exit", "exited"}
    /\ m_mapClients \subseteq Actors
    /\ logWild \subseteq Servers

LEMMA SinkTypeParts == Sink!TypeOK <=> NetType /\ FileType
BY DEF Sink!TypeOK, NetType, FileType, Delivery, SinkPacket, MaxPackets, Sink!Packet,
       NoClient, Sink!NoClient, Sink!Writers

-----------------------------------------------------------------------------
(* Whether the pool takes packets changes with m_pThread alone.            *)
LEMMA TakesSame == logThread' = logThread => Sink!Takes' = Sink!Takes
BY DEF Sink!Takes

LEMMA EmptySeqs ==
    /\ Packets(<< >>) = {} /\ Distinct(<< >>)
    /\ \A A : Where(<< >>, A) = {}
BY DEF Packets, Distinct, Where

LEMMA SinkInit == Sink!Init => SinkInv
<1> SUFFICES ASSUME Sink!Init PROVE SinkInv
  OBVIOUS
<1> USE SinkBound DEF Sink!Init, Sink!Construct
<1>1. NetType
  BY DEF NetType, Sink!NoClient, NoClient
<1>2. FileType
  BY DEF FileType, Sink!NoClient, NoClient, Sink!Writers, Sink!WriterPlaces
<1>3. HandInv
  BY DEF HandInv, Sink!NoClient, NoClient
<1>4. ClosingInv
  BY DEF ClosingInv, Sink!Writers
<1>5. RightInv
  BY EmptySeqs DEF RightInv, OneRight, Has, AtMostOneOf, NoClient, Sink!NoClient
<1>6. PlacesInv
  BY EmptySeqs DEF PlacesInv, PortInv, HandsInv, TakenInv, KeptInv, NoClient, Sink!NoClient
<1>7. LateInv
  BY EmptySeqs DEF LateInv
<1>8. WriteInv
  <2>1. InHand = << >> /\ Len(<< >>) = 0
    BY DEF InHand, ToWrite, Sink!Writers
  <2> QED BY <2>1 DEF WriteInv, ScreenInv, Out, InOrder, Sink!Writers
<1> QED BY <1>1, <1>2, <1>3, <1>4, <1>5, <1>6, <1>7, <1>8, SinkTypeParts DEF SinkInv

-----------------------------------------------------------------------------
(* What is in a hand, and the steps that move no packet.                   *)

(* A thread that does not wait has a packet of some client.                *)
LEMMA InItsHand ==
    ASSUME NetType, HandInv, NEW s \in Servers, server[s] # "get"
    PROVE  /\ hand[s] \in Delivery /\ hand[s] # NoClient
           /\ hand[s][1] \in Actors /\ hand[s][2] \in 0 .. MaxPackets /\ hand[s][2] \in Nat
           /\ hand[s] = << hand[s][1], hand[s][2] >>
<1>1. hand[s] \in Delivery /\ hand[s] # NoClient
  BY DEF NetType, HandInv
<1> QED BY <1>1, SinkBound DEF Delivery

LEMMA NoPacket == \A p \in Delivery : p # NoClient
<1> SUFFICES ASSUME NEW p \in Delivery PROVE p # << >>
  BY DEF NoClient
<1>1. PICK c \in Actors, k \in 0 .. MaxPackets : p = << c, k >>
  BY DEF Delivery
<1>2. Len(<< c, k >>) = 2 /\ Len(<< >>) = 0
  OBVIOUS
<1> QED BY <1>1, <1>2

LEMMA InPool ==
    ASSUME NetType, HandInv, NEW s \in Servers, server[s] = "add"
    PROVE  hand[s] \in SinkPacket
<1>1. /\ hand[s][1] \in Actors /\ hand[s][2] \in 0 .. MaxPackets
      /\ hand[s] = << hand[s][1], hand[s][2] >>
  BY InItsHand
<1>2. hand[s][2] \in 1 .. MaxPackets
  BY <1>1, SinkBound DEF HandInv
<1> QED BY <1>1, <1>2 DEF SinkPacket

(* A thread that may arm Recv is the only one with the right.              *)
LEMMA MayArm ==
    ASSUME NetType, HandInv, RightInv, NEW s \in Servers, server[s] = "rearm"
    PROVE  recvs[hand[s][1]] = 0
<1>1. hand[s][1] \in Actors /\ Has(s, hand[s][1])
  BY InItsHand DEF Has
<1> QED BY <1>1 DEF RightInv, OneRight

LEMMA SinkUnchanged == UNCHANGED Sink!vars <=> UNCHANGED sinkVars
BY DEF Sink!vars, Sink!kernelVars, Sink!serverVars, Sink!logVars, Sink!writeVars, sinkVars

(* Steps that move no packet before it is in the pool.                     *)
Quiet ==
    /\ UNCHANGED << recvs, received, port, server, hand, ends, logAccepted >>
    /\ Sink!Takes' => Sink!Takes

LEMMA QuietSteps ==
    /\ \A w \in Sink!Writers : Sink!WriteLog(w) =>
           /\ Quiet
           /\ UNCHANGED << conn, logThread, m_pFile, m_mapClients, instance, main, logWild >>
    /\ Sink!MainThread =>
           /\ Quiet
           /\ UNCHANGED << conn, m_mapClients, logWild >>
    /\ \A c \in Actors : Sink!PeerEnds(c) =>
           /\ Quiet
           /\ UNCHANGED << logThread, m_pFile, m_mapClients, instance, main, logWild,
                           logQueue, writer, packet, lock, file, screen >>
    /\ UNCHANGED sinkVars => Quiet
<1> USE TakesSame DEF Quiet, Sink!kernelVars, Sink!serverVars, Sink!logVars, Sink!writeVars
<1>1. ASSUME NEW w \in Sink!Writers, Sink!WriteLog(w)
      PROVE  /\ Quiet
             /\ UNCHANGED << conn, logThread, m_pFile, m_mapClients, instance, main, logWild >>
  BY <1>1 DEF Sink!WriteLog, Sink!TakePacket, Sink!LockFile, Sink!WriteFile,
              Sink!FlushFile, Sink!WriteStdout, Sink!Steps
<1>3. ASSUME NEW c \in Actors, Sink!PeerEnds(c)
      PROVE  /\ Quiet
             /\ UNCHANGED << logThread, m_pFile, m_mapClients, instance, main, logWild,
                             logQueue, writer, packet, lock, file, screen >>
  BY <1>3 DEF Sink!PeerEnds
<1>2. ASSUME Sink!MainThread
      PROVE  Quiet /\ UNCHANGED << conn, m_mapClients, logWild >>
  <2>1. CASE Sink!CloseQueue
    BY <2>1 DEF Sink!CloseQueue, Sink!Takes
  <2>2. CASE Sink!releaseInstance \/ Sink!ExitProcess
    BY <2>2 DEF Sink!releaseInstance, Sink!Stop, Sink!CloseFile, Sink!Delete, Sink!SetNull,
                Sink!ExitProcess
  <2> QED BY <1>2, <2>1, <2>2 DEF Sink!MainThread
<1>4. UNCHANGED sinkVars => Quiet
  BY DEF sinkVars
<1> QED BY <1>1, <1>2, <1>3, <1>4

-----------------------------------------------------------------------------
(* What the writer has in hand.                                            *)
LEMMA InHandType ==
    ASSUME NetType, FileType, WriteInv
    PROVE  /\ InHand \in Seq(SinkPacket) /\ Out \in Seq(SinkPacket)
           /\ Len(file) \in Nat /\ Len(screen) \in Nat /\ Len(logAccepted) \in Nat
           /\ writer[1] \in {"lock", "write", "flush", "flushing"} => m_pFile # "null"
           /\ writer[1] \in ToWrite =>
                  Len(InHand) = 1 /\ InHand # << >> /\ InHand[1] = packet[1]
           /\ writer[1] \in {"lock", "write", "stdout"} => packet[1] \in SinkPacket
<1>1. /\ Len(file) \in Nat /\ Len(screen) \in Nat /\ Len(logAccepted) \in Nat
      /\ Out \in Seq(SinkPacket) /\ Len(Out) \in Nat
  BY LenProperties DEF NetType, FileType, Out
<1>2. writer[1] \in {"lock", "write", "flush", "flushing"} => m_pFile # "null"
  BY DEF WriteInv
<1>3. \A n \in 1 .. Len(logAccepted) : logAccepted[n] \in SinkPacket
  BY LenProperties DEF NetType
<1>4. ASSUME writer[1] \in ToWrite
      PROVE  /\ Len(InHand) = 1 /\ InHand # << >> /\ InHand[1] = packet[1]
             /\ packet[1] \in SinkPacket /\ InHand = << packet[1] >>
  <2>1. InHand = << packet[1] >>
    BY <1>4 DEF InHand
  <2>2. Len(<< packet[1] >>) = 1 /\ << packet[1] >>[1] = packet[1] /\ Len(<< >>) = 0
    OBVIOUS
  <2>3. InHand # << >> /\ Len(InHand) = 1 /\ InHand[1] = packet[1]
    BY <2>1, <2>2
  <2>4. Len(Out) < Len(logAccepted) /\ packet[1] = logAccepted[Len(Out) + 1]
    BY <2>3 DEF WriteInv, InOrder
  <2>5. Len(Out) + 1 \in 1 .. Len(logAccepted)
    BY <1>1, <2>4
  <2> QED BY <1>3, <2>1, <2>3, <2>4, <2>5
<1>5. InHand \in Seq(SinkPacket)
  <2>1. << >> \in Seq(SinkPacket)
    BY EmptySeq
  <2>2. packet[1] \in SinkPacket => << packet[1] >> \in Seq(SinkPacket)
    OBVIOUS
  <2> QED BY <1>4, <2>1, <2>2 DEF InHand
<1>6. ASSUME writer[1] \in {"lock", "write", "stdout"}
      PROVE  packet[1] \in SinkPacket
  <2>1. CASE writer[1] \in ToWrite
    BY <1>4, <2>1
  <2>2. CASE writer[1] \notin ToWrite
    <3>1. m_pFile # "null" /\ packet[1] = file[Len(file)] /\ Len(screen) = Len(file) - 1
      BY <1>6, <2>2 DEF ToWrite, WriteInv, ScreenInv
    <3>2. Len(file) \in 1 .. Len(file)
      BY <1>1, <3>1
    <3> QED BY <3>1, <3>2, LenProperties DEF FileType
  <2> QED BY <2>1, <2>2
<1> QED BY <1>1, <1>2, <1>4, <1>5, <1>6

-----------------------------------------------------------------------------
(* TypeOK, HandInv and ClosingInv are kept.                                *)

LEMMA NetTypeStep ==
    ASSUME NetType, HandInv, RightInv, FileType, [Sink!Next]_(Sink!vars)
    PROVE  NetType'
<1> USE DEF NetType
<1> USE DEF Sink!kernelVars, Sink!serverVars, Sink!logVars, Sink!writeVars
<1>1. ASSUME NEW c \in Actors, Sink!PacketArrives(c)
      PROVE  NetType'
  <2>1. received[c] + 1 \in 0 .. MaxPackets /\ recvs[c] - 1 \in 0 .. 1
    BY <1>1, SinkBound DEF Sink!PacketArrives, MaxPackets
  <2>2. << c, received[c] + 1 >> \in Delivery
    BY <2>1 DEF Delivery
  <2>3. port' \in Seq(Delivery)
    BY <1>1, <2>2, AppendQueue DEF Sink!PacketArrives
  <2> QED BY <1>1, <2>1, <2>3 DEF Sink!PacketArrives
<1>2. ASSUME NEW c \in Actors, Sink!RecvEnds(c)
      PROVE  NetType'
  <2>1. recvs[c] - 1 \in 0 .. 1 /\ << c, 0 >> \in Delivery
    BY <1>2, SinkBound DEF Sink!RecvEnds, Delivery
  <2>2. port' \in Seq(Delivery)
    BY <1>2, <2>1, AppendQueue DEF Sink!RecvEnds
  <2> QED BY <1>2, <2>1, <2>2 DEF Sink!RecvEnds
<1>3. ASSUME NEW c \in Actors, Sink!PeerEnds(c)
      PROVE  NetType'
  BY <1>3 DEF Sink!PeerEnds
<1>4. ASSUME NEW s \in Servers, Sink!GetCompletion(s)
      PROVE  NetType'
  BY <1>4, TailQueue DEF Sink!GetCompletion, Sink!Goes
<1>5. ASSUME NEW s \in Servers, Sink!Rearm(s)
      PROVE  NetType'
  <2>1. server[s] = "rearm" /\ recvs[hand[s][1]] = 0
    BY <1>5, MayArm DEF Sink!Rearm, Sink!Goes
  <2>2. recvs' \in {recvs, [recvs EXCEPT ![hand[s][1]] = 1]}
    BY <1>5, <2>1 DEF Sink!Rearm
  <2>3. recvs \in [Actors -> 0 .. 1]
    OBVIOUS
  <2>4. recvs' \in [Actors -> 0 .. 1]
    BY ONLY <2>2, <2>3
  <2> QED BY <1>5, <2>4 DEF Sink!Rearm, Sink!Goes
<1>6. ASSUME NEW s \in Servers, Sink!ClientEnds(s)
      PROVE  NetType'
  <2>1. server[s] # "get"
    BY <1>6 DEF Sink!ClientEnds, Sink!Goes
  <2>2. hand[s][1] \in Actors
    BY <2>1, InItsHand
  <2>3. ends' \in [Actors -> Nat]
    BY <1>6, <2>2 DEF Sink!ClientEnds
  <2> QED BY <1>6, <2>3 DEF Sink!ClientEnds, Sink!Goes, NoClient, Sink!NoClient
<1>7. ASSUME NEW s \in Servers, Sink!TestInstance(s)
      PROVE  NetType'
  BY <1>7 DEF Sink!TestInstance, Sink!Goes, NoClient, Sink!NoClient
<1>8. ASSUME NEW s \in Servers, Sink!AddTask(s)
      PROVE  NetType'
  <2>1. hand[s] \in SinkPacket
    BY <1>8, InPool DEF Sink!AddTask, Sink!Goes
  <2>2. logAccepted' = Append(logAccepted, hand[s]) \/ logAccepted' = logAccepted
    BY <1>8 DEF Sink!AddTask
  <2>3. logAccepted \in Seq(SinkPacket)
    OBVIOUS
  <2>4. logAccepted' \in Seq(SinkPacket)
    BY ONLY <2>1, <2>2, <2>3, AppendQueue
  <2> QED BY <1>8, <2>4 DEF Sink!AddTask, Sink!Goes, NoClient, Sink!NoClient
<1>9. ASSUME NEW s \in Servers, Sink!AddTaskDeleted(s)
      PROVE  NetType'
  BY <1>9 DEF Sink!AddTaskDeleted, Sink!Goes
<1>10. ASSUME NEW w \in Sink!Writers, Sink!WriteLog(w)
       PROVE  NetType'
  BY <1>10, QuietSteps DEF Quiet
<1>11. ASSUME Sink!MainThread
       PROVE  NetType'
  <2>1. logThread' \in {logThread, "closed"}
    BY <1>11 DEF Sink!MainThread, Sink!releaseInstance, Sink!CloseQueue, Sink!Stop,
              Sink!CloseFile, Sink!Delete, Sink!SetNull, Sink!ExitProcess
  <2> QED BY <1>11, <2>1, QuietSteps DEF Quiet
<1>12. UNCHANGED Sink!vars => NetType'
  BY SinkUnchanged DEF sinkVars
<1> QED BY <1>1, <1>2, <1>3, <1>4, <1>5, <1>6, <1>7, <1>8, <1>9, <1>10, <1>11, <1>12
     DEF Sink!Next, Sink!Kernel, Sink!ServerMain

LEMMA FileTypeStep ==
    ASSUME NetType, HandInv, FileType, WriteInv, [Sink!Next]_(Sink!vars)
    PROVE  FileType'
<1> USE DEF FileType, Sink!WriterPlaces
<1> USE DEF Sink!kernelVars, Sink!serverVars, Sink!logVars, Sink!writeVars
<1>1. ASSUME NEW c \in Actors, Sink!Kernel(c)
      PROVE  FileType'
  BY <1>1 DEF Sink!Kernel, Sink!PacketArrives, Sink!RecvEnds, Sink!PeerEnds
<1>2. ASSUME NEW s \in Servers, Sink!GetCompletion(s) \/ Sink!Rearm(s)
      PROVE  FileType'
  BY <1>2 DEF Sink!GetCompletion, Sink!Rearm
<1>3. ASSUME NEW s \in Servers, Sink!ClientEnds(s) \/ Sink!TestInstance(s)
      PROVE  FileType'
  BY <1>3 DEF Sink!ClientEnds, Sink!TestInstance
<1>4. ASSUME NEW s \in Servers, Sink!AddTask(s)
      PROVE  FileType'
  <2>1. hand[s] \in SinkPacket
    BY <1>4, InPool DEF Sink!AddTask, Sink!Goes
  <2>2. logQueue' = Append(logQueue, hand[s]) \/ logQueue' = logQueue
    BY <1>4 DEF Sink!AddTask
  <2>3. logQueue \in Seq(SinkPacket)
    OBVIOUS
  <2>4. logQueue' \in Seq(SinkPacket)
    BY ONLY <2>1, <2>2, <2>3, AppendQueue
  <2> QED BY <1>4, <2>4 DEF Sink!AddTask
<1>5. ASSUME NEW s \in Servers, Sink!AddTaskDeleted(s)
      PROVE  FileType'
  BY <1>5 DEF Sink!AddTaskDeleted
<1>6. ASSUME NEW w \in Sink!Writers, Sink!WriteLog(w)
      PROVE  FileType'
  <2>0. w = 1
    BY DEF Sink!Writers
  <2>1. CASE Sink!TakePacket(w)
    BY <2>0, <2>1, TailQueue DEF Sink!TakePacket, Sink!Steps, Sink!ToFile
  <2>2. CASE Sink!LockFile(w)
    BY <2>0, <2>2 DEF Sink!LockFile, Sink!Steps
  <2>3. CASE Sink!WriteFile(w)
    <3>1. packet[1] \in SinkPacket
      BY <2>0, <2>3, InHandType DEF Sink!WriteFile, Sink!Steps
    <3>2. file' \in Seq(SinkPacket)
      BY <2>0, <2>3, <3>1, AppendQueue DEF Sink!WriteFile
    <3> QED BY <2>0, <2>3, <3>2 DEF Sink!WriteFile, Sink!Steps
  <2>4. CASE Sink!WriteStdout(w)
    <3>1. packet[1] \in SinkPacket
      BY <2>0, <2>4, InHandType DEF Sink!WriteStdout, Sink!Steps
    <3>2. screen' \in Seq(SinkPacket)
      BY <2>0, <2>4, <3>1, AppendQueue DEF Sink!WriteStdout
    <3> QED BY <2>0, <2>4, <3>2 DEF Sink!WriteStdout, Sink!Steps, NoClient, Sink!NoClient
  <2>5. CASE Sink!FlushFile(w)
    BY <2>0, <2>5 DEF Sink!FlushFile, Sink!Steps
  <2> QED BY <1>6, <2>1, <2>2, <2>3, <2>4, <2>5 DEF Sink!WriteLog
<1>7. ASSUME Sink!MainThread
      PROVE  FileType'
  <2>1. CASE Sink!CloseQueue
    BY <2>1, EmptySeq DEF Sink!CloseQueue, Sink!MainGoes
  <2>2. CASE Sink!Stop
    BY <2>2 DEF Sink!Stop, Sink!MainGoes, Sink!Writers
  <2>3. CASE Sink!CloseFile \/ Sink!Delete \/ Sink!SetNull \/ Sink!ExitProcess
    BY <2>3 DEF Sink!CloseFile, Sink!Delete, Sink!SetNull, Sink!ExitProcess, Sink!MainGoes
  <2> QED BY <1>7, <2>1, <2>2, <2>3 DEF Sink!MainThread, Sink!releaseInstance
<1>8. UNCHANGED Sink!vars => FileType'
  BY SinkUnchanged DEF sinkVars
<1> QED BY <1>1, <1>2, <1>3, <1>4, <1>5, <1>6, <1>7, <1>8
     DEF Sink!Next, Sink!ServerMain

LEMMA SinkHandStep ==
    ASSUME NetType, HandInv, [Sink!Next]_(Sink!vars)
    PROVE  HandInv'
<1> USE DEF HandInv, NetType
<1>1. Quiet => HandInv'
  BY DEF Quiet
<1>2. ASSUME NEW c \in Actors, Sink!Kernel(c)
      PROVE  HandInv'
  BY <1>2 DEF Sink!Kernel, Sink!PacketArrives, Sink!RecvEnds, Sink!PeerEnds, Sink!serverVars
<1>3. ASSUME NEW s \in Servers, Sink!GetCompletion(s)
      PROVE  HandInv'
  <2>1. Head(port) \in Delivery
    BY <1>3, TailQueue DEF Sink!GetCompletion
  <2>2. Head(port) # NoClient
    BY <2>1, NoPacket
  <2> QED BY <1>3, <2>2 DEF Sink!GetCompletion, Sink!Goes
<1>4. ASSUME NEW s \in Servers, Sink!Rearm(s)
      PROVE  HandInv'
  BY <1>4 DEF Sink!Rearm, Sink!Goes
<1>5. ASSUME NEW s \in Servers,
             Sink!ClientEnds(s) \/ Sink!TestInstance(s) \/ Sink!AddTask(s)
             \/ Sink!AddTaskDeleted(s)
      PROVE  HandInv'
  BY <1>5 DEF Sink!ClientEnds, Sink!TestInstance, Sink!AddTask, Sink!AddTaskDeleted,
              Sink!Goes, Sink!NoClient, NoClient
<1> QED BY <1>1, <1>2, <1>3, <1>4, <1>5, QuietSteps, SinkUnchanged
     DEF Sink!Next, Sink!ServerMain

LEMMA ClosingStep ==
    ASSUME FileType, NetType, ClosingInv, [Sink!Next]_(Sink!vars)
    PROVE  ClosingInv'
<1> USE TakesSame DEF ClosingInv, FileType, NetType
<1>1. ASSUME NEW c \in Actors, Sink!Kernel(c)
      PROVE  ClosingInv'
  BY <1>1 DEF Sink!Kernel, Sink!PacketArrives, Sink!RecvEnds, Sink!PeerEnds,
              Sink!logVars, Sink!writeVars
<1>2. ASSUME NEW s \in Servers, Sink!ServerMain(s)
      PROVE  ClosingInv'
  BY <1>2 DEF Sink!ServerMain, Sink!GetCompletion, Sink!Rearm, Sink!ClientEnds,
              Sink!TestInstance, Sink!AddTask, Sink!AddTaskDeleted, Sink!logVars, Sink!writeVars
<1>3. ASSUME NEW w \in Sink!Writers, Sink!WriteLog(w)
      PROVE  ClosingInv'
  <2>1. UNCHANGED << logThread, m_pFile, instance, main >> /\ w = 1
    BY <1>3, QuietSteps DEF Sink!Writers
  <2>2. writer'[1] \in {"ended", "killed"} => writer[1] \in {"ended", "killed"}
    BY <1>3, <2>1 DEF Sink!WriteLog, Sink!TakePacket, Sink!ToFile, Sink!LockFile,
                Sink!WriteFile, Sink!FlushFile, Sink!WriteStdout, Sink!Steps
  <2> QED BY <2>1, <2>2
<1>4. ASSUME Sink!MainThread
      PROVE  ClosingInv'
  <2>1. CASE Sink!CloseQueue
    BY <2>1 DEF Sink!CloseQueue, Sink!Takes
  <2>2. CASE Sink!releaseInstance \/ Sink!ExitProcess
    BY <2>2 DEF Sink!releaseInstance, Sink!Stop, Sink!CloseFile, Sink!Delete, Sink!SetNull,
                Sink!ExitProcess, Sink!MainGoes, Sink!logVars, Sink!writeVars
  <2> QED BY <1>4, <2>1, <2>2 DEF Sink!MainThread
<1>5. UNCHANGED Sink!vars => ClosingInv'
  BY SinkUnchanged DEF sinkVars
<1> QED BY <1>1, <1>2, <1>3, <1>4, <1>5 DEF Sink!Next

-----------------------------------------------------------------------------
(* RightInv is kept.                                                       *)

LEMMA WhoseItIs == \A p \in Delivery, c \in Actors : p \in Of(c) <=> p[1] = c
BY DEF Delivery, Of

(* The right passes on.                                                    *)
LEMMA RightPosted ==
    ASSUME NetType, RightInv, NEW d \in Actors, recvs[d] > 0,
           recvs' = [recvs EXCEPT ![d] = @ - 1],
           NEW k \in 0 .. MaxPackets, port' \in {port, Append(port, << d, k >>)},
           UNCHANGED << server, hand, ends >>, NEW c \in Actors
    PROVE  OneRight(c)'
<1>1. OneRight(c) /\ recvs[c] \in 0 .. 1 /\ recvs \in [Actors -> 0 .. 1]
      /\ port \in Seq(Delivery) /\ << d, k >> \in Delivery
  BY DEF NetType, RightInv, Delivery
<1>2. \A s \in Servers : Has(s, c)' <=> Has(s, c)
  BY DEF Has
<1>3. << d, k >> \in Of(c) <=> d = c
  BY <1>1, WhoseItIs
<1>6. /\ << d, k >> \notin Of(c) => Where(port', Of(c)) = Where(port, Of(c))
      /\ << d, k >> \in Of(c) /\ Where(port, Of(c)) = {} => AtMostOneOf(Where(port', Of(c)))
  <2>1. CASE port' = port
    BY <2>1 DEF AtMostOneOf
  <2>2. CASE port' = Append(port, << d, k >>)
    BY <1>1, <2>2, AppendWhere
  <2> QED BY <2>1, <2>2
<1>4. CASE d # c
  <2>1. Where(port', Of(c)) = Where(port, Of(c))
    BY <1>3, <1>4, <1>6
  <2>2. recvs'[c] = recvs[c]
    BY <1>1, <1>4
  <2> QED BY <1>1, <1>2, <2>1, <2>2 DEF OneRight
<1>5. CASE d = c
  <2>1. recvs'[c] = 0
    BY <1>1, <1>5
  <2>2. AtMostOneOf(Where(port', Of(c)))
    <3>1. Where(port, Of(c)) = {} /\ AtMostOneOf(Where(port, Of(c)))
      BY <1>1, <1>5 DEF OneRight
    <3>2. << d, k >> \in Of(c)
      BY <1>3, <1>5
    <3> QED BY <1>6, <3>1, <3>2
  <2> QED BY <1>1, <1>2, <1>5, <2>1, <2>2 DEF OneRight
<1> QED BY <1>4, <1>5

LEMMA RightTaken ==
    ASSUME NetType, HandInv, RightInv, NEW s \in Servers, Sink!GetCompletion(s),
           NEW c \in Actors
    PROVE  OneRight(c)'
<1> DEFINE e == Head(port)
<1>1. /\ OneRight(c) /\ port \in Seq(Delivery) /\ port # << >> /\ e \in Delivery
      /\ port' = Tail(port) /\ UNCHANGED << recvs, ends >>
      /\ server' = [server EXCEPT ![s] = "rearm"] /\ server[s] = "get"
      /\ hand' = [hand EXCEPT ![s] = e]
  BY TailQueue DEF NetType, RightInv, Sink!GetCompletion, Sink!Goes
<1> HIDE DEF e
<1>2. /\ server \in [Servers -> {"get", "rearm", "recvdata", "add", "wild"}]
      /\ hand \in [Servers -> Delivery \cup {NoClient}]
      /\ e # NoClient /\ hand[s] = NoClient
  BY <1>1, NoPacket DEF NetType, HandInv
<1>3. /\ \A r \in Servers : r # s => (Has(r, c)' <=> Has(r, c))
      /\ Has(s, c)' <=> e[1] = c
      /\ ~Has(s, c)
  BY <1>1, <1>2 DEF Has
<1>4. /\ AtMostOneOf(Where(port', Of(c)))
      /\ e[1] = c => Where(port, Of(c)) # {} /\ Where(port', Of(c)) = {}
      /\ e[1] # c => (Where(port', Of(c)) = {} <=> Where(port, Of(c)) = {})
  BY <1>1, WhoseItIs, TailWhere DEF OneRight, e
<1> QED BY <1>1, <1>3, <1>4 DEF OneRight

LEMMA RightRearmed ==
    ASSUME NetType, HandInv, RightInv, NEW s \in Servers, Sink!Rearm(s), NEW c \in Actors
    PROVE  OneRight(c)'
<1> DEFINE d == hand[s][1]
<1>1. /\ server[s] = "rearm" /\ server' = [server EXCEPT ![s] = "recvdata"]
      /\ UNCHANGED << port, hand, ends >>
      /\ recvs' = IF hand[s][2] > 0 /\ conn[d] # "reset"
                  THEN [recvs EXCEPT ![d] = @ + 1] ELSE recvs
  BY DEF Sink!Rearm, Sink!Goes, Sink!kernelVars
<1>2. /\ d \in Actors /\ hand[s] # NoClient /\ hand[s][2] \in Nat /\ Has(s, d)
      /\ server \in [Servers -> {"get", "rearm", "recvdata", "add", "wild"}]
      /\ recvs \in [Actors -> 0 .. 1]
      /\ OneRight(c) /\ recvs[d] = 0
  BY <1>1, InItsHand, MayArm DEF Has, NetType, RightInv
<1> HIDE DEF d
<1>3. /\ \A r \in Servers : r # s => (Has(r, c)' <=> Has(r, c))
      /\ Has(s, c)' <=> d = c /\ hand[s][2] = 0
      /\ d # c => ~Has(s, c)
  BY <1>1, <1>2 DEF Has, d
<1>4. CASE d # c
  <2>1. recvs'[c] = recvs[c]
    BY <1>1, <1>2, <1>4
  <2> QED BY <1>1, <1>2, <1>3, <1>4, <2>1 DEF OneRight
<1>5. CASE d = c
  <2>1. /\ Where(port, Of(c)) = {} /\ ends[c] = 0 /\ recvs[c] = 0
        /\ \A r \in Servers : r # s => ~Has(r, c)
    BY <1>2, <1>5 DEF OneRight
  <2>2. CASE hand[s][2] = 0
    <3>1. recvs' = recvs
      BY <1>1, <2>2
    <3> QED BY <1>1, <1>2, <1>3, <1>5, <2>1, <2>2, <3>1 DEF OneRight
  <2>3. CASE hand[s][2] # 0
    <3>1. \A r \in Servers : ~Has(r, c)'
      BY <1>3, <2>1, <2>3
    <3> QED BY <1>1, <2>1, <3>1 DEF OneRight, AtMostOneOf
  <2> QED BY <2>2, <2>3
<1> QED BY <1>4, <1>5

LEMMA RightEnds ==
    ASSUME NetType, HandInv, RightInv, NEW s \in Servers, Sink!ClientEnds(s), NEW c \in Actors
    PROVE  OneRight(c)'
<1> DEFINE d == hand[s][1]
<1>1. /\ server[s] = "recvdata" /\ hand[s][2] = 0
      /\ UNCHANGED << port, recvs >> /\ server' = [server EXCEPT ![s] = "get"]
      /\ hand' = [hand EXCEPT ![s] = NoClient]
      /\ ends' = [ends EXCEPT ![d] = @ + 1]
  BY DEF Sink!ClientEnds, Sink!Goes, Sink!kernelVars, Sink!NoClient, NoClient
<1>2. /\ d \in Actors /\ hand[s] # NoClient /\ Has(s, d)
      /\ server \in [Servers -> {"get", "rearm", "recvdata", "add", "wild"}]
      /\ hand \in [Servers -> Delivery \cup {NoClient}]
      /\ OneRight(c) /\ ends \in [Actors -> Nat]
  BY <1>1, InItsHand DEF Has, NetType, RightInv
<1> HIDE DEF d
<1>3. /\ \A r \in Servers : r # s => (Has(r, c)' <=> Has(r, c))
      /\ ~Has(s, c)' /\ (d # c => ~Has(s, c))
  BY <1>1, <1>2 DEF Has, d
<1>4. CASE d # c
  <2>1. ends'[c] = ends[c]
    BY <1>1, <1>2, <1>4
  <2> QED BY <1>1, <1>2, <1>3, <1>4, <2>1 DEF OneRight
<1>5. CASE d = c
  <2>1. /\ Where(port, Of(c)) = {} /\ ends[c] = 0 /\ recvs[c] = 0
        /\ \A r \in Servers : r # s => ~Has(r, c)
    BY <1>2, <1>5 DEF OneRight
  <2>2. ends'[c] = 1
    BY <1>1, <1>2, <1>5, <2>1
  <2>3. \A r \in Servers : ~Has(r, c)'
    BY <1>3, <2>1
  <2> QED BY <1>1, <2>1, <2>2, <2>3 DEF OneRight, AtMostOneOf
<1> QED BY <1>4, <1>5

(* A packet with data in hand, after Recv, goes without the right.         *)
LEMMA RightUntouched ==
    ASSUME NetType, HandInv, RightInv, NEW s \in Servers,
           Sink!TestInstance(s) \/ Sink!AddTask(s) \/ Sink!AddTaskDeleted(s), NEW c \in Actors
    PROVE  OneRight(c)'
<1>1. /\ server[s] \in {"recvdata", "add"} /\ hand[s] # NoClient /\ hand[s][2] > 0
      /\ UNCHANGED << port, recvs, ends >>
      /\ \A r \in Servers : r # s => hand'[r] = hand[r] /\ server'[r] = server[r]
      /\ server'[s] # "rearm" /\ hand'[s] \in {NoClient, hand[s]}
  <2> USE DEF NetType, HandInv, Sink!kernelVars, Sink!Goes, Sink!NoClient, NoClient
  <2>1. CASE Sink!TestInstance(s)
    BY <2>1 DEF Sink!TestInstance
  <2>2. CASE Sink!AddTask(s)
    BY <2>2 DEF Sink!AddTask
  <2>3. CASE Sink!AddTaskDeleted(s)
    BY <2>3 DEF Sink!AddTaskDeleted
  <2> QED BY <2>1, <2>2, <2>3
<1>2. \A r \in Servers : Has(r, c)' <=> Has(r, c)
  BY <1>1 DEF Has
<1>3. OneRight(c)
  BY DEF RightInv
<1> QED BY <1>1, <1>2, <1>3 DEF OneRight

LEMMA RightStep ==
    ASSUME NetType, HandInv, RightInv, [Sink!Next]_(Sink!vars)
    PROVE  RightInv'
<1> SUFFICES ASSUME NEW c \in Actors PROVE OneRight(c)'
  BY DEF RightInv
<1>1. Quiet => OneRight(c)'
  BY DEF Quiet, RightInv, OneRight, Has
<1>2. ASSUME NEW d \in Actors, Sink!PacketArrives(d)
      PROVE  OneRight(c)'
  <2>1. received[d] + 1 \in 0 .. MaxPackets
    BY <1>2, SinkBound DEF Sink!PacketArrives, NetType, MaxPackets
  <2> QED BY <1>2, <2>1, RightPosted DEF Sink!PacketArrives, Sink!serverVars
<1>3. ASSUME NEW d \in Actors, Sink!RecvEnds(d)
      PROVE  OneRight(c)'
  <2>1. 0 \in 0 .. MaxPackets
    BY SinkBound
  <2> QED BY <1>3, <2>1, RightPosted DEF Sink!RecvEnds, Sink!serverVars
<1> QED BY <1>1, <1>2, <1>3, RightTaken, RightRearmed, RightEnds, RightUntouched,
           QuietSteps, SinkUnchanged
     DEF Sink!Next, Sink!ServerMain, Sink!Kernel

-----------------------------------------------------------------------------
(* PlacesInv is kept.                                                      *)

LEMMA PlacesQuiet == Quiet /\ PlacesInv => PlacesInv'
BY DEF Quiet, PlacesInv, PortInv, HandsInv, TakenInv, KeptInv

LEMMA PlacesArrives ==
    ASSUME NetType, HandInv, RightInv, PlacesInv, NEW d \in Actors, Sink!PacketArrives(d)
    PROVE  PlacesInv'
<1> DEFINE e == << d, received[d] + 1 >>
<1>1. /\ received' = [received EXCEPT ![d] = @ + 1] /\ recvs[d] > 0
      /\ port' = Append(port, e) /\ UNCHANGED << server, hand, Sink!Takes, logAccepted >>
      /\ received[d] + 1 \in 1 .. MaxPackets
      /\ received \in [Actors -> 0 .. MaxPackets] /\ port \in Seq(Delivery)
      /\ logAccepted \in Seq(SinkPacket)
      /\ hand \in [Servers -> Delivery \cup {NoClient}]
  BY SinkBound, TakesSame DEF Sink!PacketArrives, Sink!serverVars, Sink!logVars, NetType, MaxPackets
<1>2. e \in Delivery /\ e[1] = d /\ e[2] = received[d] + 1 /\ e[2] # 0
  BY <1>1, SinkBound DEF Delivery
<1> HIDE DEF e
<1>3. Packets(port') = Packets(port) \cup {e}
  BY <1>1, <1>2, AppendPackets
<1>4. /\ \A p \in Packets(port) : p \in Delivery
      /\ \A p \in Packets(logAccepted) : p \in SinkPacket
  BY <1>1, LenProperties DEF Packets
<1>5. \A p \in Packets(port) : p[1] # d
  <2>1. Where(port, Of(d)) = {}
    BY <1>1 DEF RightInv, OneRight
  <2>2. \A i \in DOMAIN port : port[i] \notin Of(d)
    BY <1>1, <2>1, LenProperties DEF Where
  <2> QED BY <1>4, <2>2, WhoseItIs DEF Packets
<1>6. /\ \A c \in Actors : received'[c] = IF c = d THEN received[d] + 1 ELSE received[c]
      /\ \A c \in Actors : received[c] \in Nat /\ received[c] \leq received'[c]
  BY <1>1, SinkBound
<1>7. e \notin Packets(logAccepted)
  BY <1>2, <1>6 DEF PlacesInv, TakenInv
<1>8. PortInv'
  BY <1>1, <1>2, <1>3, <1>4, <1>5, <1>6, <1>7 DEF PlacesInv, PortInv, Delivery
<1>9. HandsInv'
  <2> SUFFICES ASSUME NEW s \in Servers, hand[s] # NoClient, hand[s][2] # 0
               PROVE  /\ hand[s][2] \leq received'[hand[s][1]]
                      /\ hand[s] \notin Packets(port')
    BY <1>1 DEF HandsInv, PlacesInv
  <2>1. /\ hand[s][1] \in Actors /\ hand[s][2] \in Nat
        /\ hand[s][2] \leq received[hand[s][1]] /\ hand[s] \notin Packets(port)
    BY <1>1, SinkBound DEF HandsInv, PlacesInv, Delivery
  <2>2. received[hand[s][1]] \leq received'[hand[s][1]] /\ received[hand[s][1]] \in Nat
        /\ received'[hand[s][1]] \in Nat
    BY <1>6, <2>1
  <2>3. hand[s] # e
    BY <1>2, <2>1, <2>2
  <2> QED BY <1>3, <2>1, <2>2, <2>3
<1>10. TakenInv'
  <2>1. \A p \in Packets(logAccepted) : p[1] \in Actors /\ p[2] \in Nat
    BY <1>4, SinkBound DEF SinkPacket
  <2> QED BY <1>1, <1>6, <2>1 DEF TakenInv, PlacesInv
<1>11. KeptInv'
  <2> SUFFICES ASSUME Sink!Takes, NEW c \in Actors, NEW k \in 1 .. received'[c]
               PROVE  \/ << c, k >> \in Packets(port') \cup Packets(logAccepted)
                      \/ \E s \in Servers : hand[s] = << c, k >>
    BY <1>1 DEF KeptInv
  <2>1. k \in 1 .. received[c] \/ (c = d /\ k = received[d] + 1)
    BY <1>6
  <2> QED BY <1>3, <2>1 DEF KeptInv, PlacesInv, e
<1> QED BY <1>8, <1>9, <1>10, <1>11 DEF PlacesInv

LEMMA PlacesEnds ==
    ASSUME NetType, HandInv, PlacesInv, NEW d \in Actors, Sink!RecvEnds(d)
    PROVE  PlacesInv'
<1>1. /\ UNCHANGED << received, server, hand, Sink!Takes, logAccepted >>
      /\ port' = port \/ port' = Append(port, << d, 0 >>)
      /\ port \in Seq(Delivery) /\ << d, 0 >> \in Delivery
  BY SinkBound, TakesSame DEF Sink!RecvEnds, Sink!serverVars, Sink!logVars, NetType, Delivery
<1>2. Packets(port') = Packets(port) \/ Packets(port') = Packets(port) \cup {<< d, 0 >>}
  <2>1. CASE port' = port
    BY <2>1
  <2>2. CASE port' = Append(port, << d, 0 >>)
    <3>1. Packets(Append(port, << d, 0 >>)) = Packets(port) \cup {<< d, 0 >>}
      BY <1>1, AppendPackets
    <3> QED BY <2>2, <3>1, Zenon
  <2> QED BY <1>1, <2>1, <2>2
<1>3. \A p \in Packets(port') : p[2] # 0 => p \in Packets(port)
  BY <1>2
<1>4. \A p \in Packets(port) : p \in Packets(port')
  BY <1>2
<1> QED BY <1>1, <1>3, <1>4 DEF PlacesInv, PortInv, HandsInv, TakenInv, KeptInv

LEMMA PlacesGet ==
    ASSUME NetType, HandInv, RightInv, PlacesInv, NEW s \in Servers, Sink!GetCompletion(s)
    PROVE  PlacesInv'
<1> DEFINE e == Head(port)
<1>1. /\ UNCHANGED << received, Sink!Takes, logAccepted >>
      /\ port # << >> /\ port' = Tail(port) /\ port \in Seq(Delivery)
      /\ hand' = [hand EXCEPT ![s] = e] /\ hand \in [Servers -> Delivery \cup {NoClient}]
      /\ hand[s] = NoClient
  BY TakesSame DEF Sink!GetCompletion, Sink!Goes, Sink!logVars, NetType, HandInv
<1>2. e \in Delivery /\ e[1] \in Actors
  BY <1>1, TailQueue DEF Delivery
<1> HIDE DEF e
<1>3. Packets(port) = Packets(port') \cup {e}
  BY <1>1, TailPackets DEF e
<1>4. e \notin Packets(port')
  <2>1. Where(port', Of(e[1])) = {}
    <3>1. AtMostOneOf(Where(port, Of(e[1]))) /\ e \in Of(e[1])
      BY <1>2, WhoseItIs DEF RightInv, OneRight
    <3> QED BY <1>1, <3>1, TailWhere DEF e
  <2>2. e \in Of(e[1])
    BY <1>2, WhoseItIs
  <2>3. port' \in Seq(Delivery)
    BY <1>1, TailQueue
  <2> QED BY <2>1, <2>2, <2>3, LenProperties DEF Where, Packets
<1>5. hand'[s] = e /\ \A r \in Servers : r # s => hand'[r] = hand[r]
  BY <1>1
<1>6. PortInv'
  BY <1>1, <1>3 DEF PlacesInv, PortInv
<1>7. HandsInv'
  <2>1. ASSUME NEW r \in Servers, r # s, hand[r] # NoClient, hand[r][2] # 0
        PROVE  hand[r] # e
    BY <1>3, <2>1 DEF PlacesInv, HandsInv
  <2>2. ASSUME e[2] # 0
        PROVE  e[2] \leq received[e[1]] /\ e \notin Packets(logAccepted)
    <3>1. e[2] = received[e[1]] /\ e \notin Packets(logAccepted)
      BY <1>3, <2>2 DEF PlacesInv, PortInv
    <3>2. received[e[1]] \in Nat
      BY <1>2, SinkBound DEF NetType
    <3> QED BY <3>1, <3>2
  <2>3. \A r \in Servers : hand[r] = e /\ e[2] # 0 => r = s
    BY <1>2, <2>1, NoPacket
  <2> QED BY <1>1, <1>3, <1>4, <1>5, <2>1, <2>2, <2>3 DEF PlacesInv, HandsInv
<1>8. TakenInv'
  BY <1>1 DEF PlacesInv, TakenInv
<1>9. KeptInv'
  <2> SUFFICES ASSUME Sink!Takes, NEW c \in Actors, NEW k \in 1 .. received[c]
               PROVE  \/ << c, k >> \in Packets(port') \cup Packets(logAccepted)
                      \/ \E r \in Servers : hand'[r] = << c, k >>
    BY <1>1 DEF KeptInv
  <2>1. \/ << c, k >> \in Packets(port) \cup Packets(logAccepted)
        \/ \E r \in Servers : hand[r] = << c, k >>
    BY DEF PlacesInv, KeptInv
  <2>2. << c, k >> # NoClient
    <3>1. << c, k >> \in Delivery
      BY SinkBound DEF Delivery, NetType
    <3> QED BY <3>1, NoPacket
  <2> QED BY <1>1, <1>3, <1>5, <2>1, <2>2
<1> QED BY <1>6, <1>7, <1>8, <1>9 DEF PlacesInv

(* The end of a stream leaves a hand, or a packet once the pool is closed. *)
LEMMA PlacesLetGo ==
    ASSUME NetType, HandInv, PlacesInv, NEW s \in Servers,
           UNCHANGED << received, port, Sink!Takes, logAccepted >>,
           hand' = [hand EXCEPT ![s] = NoClient], Sink!Takes => hand[s][2] = 0
    PROVE  PlacesInv'
<1>1. /\ hand \in [Servers -> Delivery \cup {NoClient}]
      /\ hand'[s] = NoClient /\ \A r \in Servers : r # s => hand'[r] = hand[r]
  BY DEF NetType
<1>2. \A r \in Servers : hand'[r] # NoClient => r # s /\ hand'[r] = hand[r]
  BY <1>1
<1>3. PortInv' /\ TakenInv'
  BY DEF PlacesInv, PortInv, TakenInv
<1>4. HandsInv'
  BY <1>2 DEF PlacesInv, HandsInv
<1>5. KeptInv'
  <2> SUFFICES ASSUME Sink!Takes, NEW c \in Actors, NEW k \in 1 .. received[c]
               PROVE  \/ << c, k >> \in Packets(port) \cup Packets(logAccepted)
                      \/ \E r \in Servers : hand'[r] = << c, k >>
    BY DEF KeptInv
  <2>1. \/ << c, k >> \in Packets(port) \cup Packets(logAccepted)
        \/ \E r \in Servers : hand[r] = << c, k >>
    BY DEF PlacesInv, KeptInv
  <2>2. hand[s] # << c, k >>
    OBVIOUS
  <2> QED BY <1>1, <2>1, <2>2
<1> QED BY <1>3, <1>4, <1>5 DEF PlacesInv

LEMMA PlacesAdd ==
    ASSUME NetType, HandInv, PlacesInv, NEW s \in Servers, Sink!AddTask(s)
    PROVE  PlacesInv'
<1> DEFINE h == hand[s]
<1>1. /\ UNCHANGED << received, port, Sink!Takes >> /\ server[s] = "add"
      /\ hand' = [hand EXCEPT ![s] = NoClient] /\ hand \in [Servers -> Delivery \cup {NoClient}]
      /\ logAccepted' = IF Sink!Takes THEN Append(logAccepted, h) ELSE logAccepted
      /\ logAccepted \in Seq(SinkPacket)
  BY TakesSame DEF Sink!AddTask, Sink!Goes, Sink!kernelVars, Sink!NoClient, NoClient, NetType
<1>2. h \in SinkPacket /\ h # NoClient /\ h[1] \in Actors /\ h[2] # 0
  BY <1>1, InPool, InItsHand DEF HandInv
<1>3. CASE ~Sink!Takes
  BY <1>1, <1>3, PlacesLetGo
<1>4. CASE Sink!Takes
  <2> HIDE DEF h
  <2>1. /\ Packets(logAccepted') = Packets(logAccepted) \cup {h}
        /\ Distinct(logAccepted) /\ h \notin Packets(logAccepted) => Distinct(logAccepted')
    BY <1>1, <1>2, <1>4, AppendPackets
  <2>2. /\ h[2] \leq received[h[1]] /\ h \notin Packets(port) /\ h \notin Packets(logAccepted)
        /\ \A r \in Servers : hand[r] = h => r = s
    BY <1>2 DEF h, PlacesInv, HandsInv
  <2>3. hand'[s] = NoClient /\ \A r \in Servers : r # s => hand'[r] = hand[r]
    BY <1>1
  <2>4. PortInv'
    BY <1>1, <2>1, <2>2 DEF PlacesInv, PortInv
  <2>5. HandsInv'
    BY <1>1, <2>1, <2>2, <2>3 DEF PlacesInv, HandsInv
  <2>6. TakenInv'
    BY <1>1, <2>1, <2>2 DEF PlacesInv, TakenInv
  <2>7. KeptInv'
    <3> SUFFICES ASSUME NEW c \in Actors, NEW k \in 1 .. received[c]
                 PROVE  \/ << c, k >> \in Packets(port) \cup Packets(logAccepted')
                        \/ \E r \in Servers : hand'[r] = << c, k >>
      BY <1>1 DEF KeptInv
    <3>1. \/ << c, k >> \in Packets(port) \cup Packets(logAccepted)
          \/ \E r \in Servers : hand[r] = << c, k >>
      BY <1>4 DEF PlacesInv, KeptInv
    <3> QED BY <2>1, <2>3, <3>1 DEF h
  <2> QED BY <2>4, <2>5, <2>6, <2>7 DEF PlacesInv
<1> QED BY <1>3, <1>4

LEMMA PlacesStep ==
    ASSUME NetType, HandInv, ClosingInv, RightInv, PlacesInv, [Sink!Next]_(Sink!vars)
    PROVE  PlacesInv'
<1>1. ASSUME NEW s \in Servers, Sink!Rearm(s) \/ Sink!AddTaskDeleted(s)
      PROVE  PlacesInv'
  <2>1. UNCHANGED << received, port, hand, Sink!Takes, logAccepted >>
    BY <1>1, TakesSame DEF Sink!Rearm, Sink!AddTaskDeleted, Sink!kernelVars, Sink!logVars
  <2> QED BY <2>1 DEF PlacesInv, PortInv, HandsInv, TakenInv, KeptInv
<1>2. ASSUME NEW s \in Servers, Sink!ClientEnds(s)
      PROVE  PlacesInv'
  BY <1>2, PlacesLetGo, TakesSame
     DEF Sink!ClientEnds, Sink!kernelVars, Sink!logVars, Sink!NoClient, NoClient
<1>3. ASSUME NEW s \in Servers, Sink!TestInstance(s)
      PROVE  PlacesInv'
  <2>1. UNCHANGED << received, port, Sink!Takes, logAccepted >>
    BY <1>3, TakesSame DEF Sink!TestInstance, Sink!kernelVars, Sink!logVars
  <2>2. CASE instance = "null"
    <3>1. ~Sink!Takes
      BY <2>2 DEF ClosingInv
    <3> QED BY <1>3, <2>1, <2>2, <3>1, PlacesLetGo DEF Sink!TestInstance, Sink!NoClient, NoClient
  <2>3. CASE instance # "null"
    <3>1. hand' = hand
      BY <1>3, <2>3 DEF Sink!TestInstance
    <3> QED BY <2>1, <3>1 DEF PlacesInv, PortInv, HandsInv, TakenInv, KeptInv
  <2> QED BY <2>2, <2>3
<1> QED BY <1>1, <1>2, <1>3, PlacesQuiet, PlacesArrives, PlacesEnds, PlacesGet, PlacesAdd,
           QuietSteps, SinkUnchanged
     DEF Sink!Next, Sink!ServerMain, Sink!Kernel

-----------------------------------------------------------------------------
(* LateInv is kept.                                                        *)

(* When the pool takes a packet, the earlier ones it has not taken are in  *)
(* the hands of other threads; and from then on there are only fewer.      *)
LEMMA LateWhenAdded ==
    ASSUME NetType, HandInv, PlacesInv, NEW s \in Servers, Sink!AddTask(s), Sink!Takes
    PROVE  FewMissing(hand[s], logAccepted')
<1> DEFINE h == hand[s]
           M == {k \in 1 .. h[2] - 1 : << h[1], k >> \notin Packets(logAccepted')}
<1>1. /\ server[s] = "add" /\ logAccepted' = Append(logAccepted, h)
      /\ logAccepted \in Seq(SinkPacket) /\ port \in Seq(Delivery)
  BY DEF Sink!AddTask, Sink!Goes, NetType
<1>2. h \in SinkPacket /\ h # NoClient /\ h[1] \in Actors /\ h[2] \in Nat /\ h[2] # 0
  BY <1>1, InPool, InItsHand DEF HandInv
<1>3. h[2] \leq received[h[1]] /\ received[h[1]] \in Nat
  BY <1>2, SinkBound DEF PlacesInv, HandsInv, NetType
<1>4. Packets(logAccepted') = Packets(logAccepted) \cup {h}
  BY <1>1, <1>2, AppendPackets
<1>5. ASSUME NEW k \in M
      PROVE  \E r \in Servers \ {s} : hand[r][2] = k
  <2>1. k \in 1 .. received[h[1]] /\ k # h[2] /\ k # 0 /\ k # received[h[1]]
        /\ << h[1], k >> \notin Packets(logAccepted)
    BY <1>2, <1>3, <1>4
  <2>2. << h[1], k >> \notin Packets(port)
    BY <2>1 DEF PlacesInv, PortInv
  <2>3. PICK r \in Servers : hand[r] = << h[1], k >>
    BY <1>2, <2>1, <2>2 DEF PlacesInv, KeptInv
  <2>4. r # s
    BY <2>1, <2>3
  <2> QED BY <2>3, <2>4
<1>6. /\ IsFiniteSet(Servers \ {s}) /\ Cardinality(Servers \ {s}) = Cardinality(Servers) - 1
      /\ Cardinality(Servers) \in Nat
  BY SinkBound, FS_RemoveElement, FS_CardinalityType
<1>7. \A k \in M : \E r \in Servers \ {s} : [q \in Servers |-> hand[q][2]][r] = k
  BY <1>5
<1> HIDE DEF M
<1>8. IsFiniteSet(M) /\ Cardinality(M) \in Nat /\ Cardinality(M) \leq Cardinality(Servers \ {s})
  BY ONLY <1>6, <1>7, HeldByFew
<1>9. IsFiniteSet(M) /\ Cardinality(M) < Cardinality(Servers)
  BY <1>6, <1>8
<1> QED BY <1>9 DEF M, Missing, FewMissing

LEMMA StillMissing ==
    ASSUME NEW p, NEW took, NEW more, FewMissing(p, took),
           Missing(p, more) \in SUBSET Missing(p, took)
    PROVE  FewMissing(p, more)
<1> USE DEF FewMissing
<1>1. IsFiniteSet(Missing(p, more)) /\ Cardinality(Missing(p, more)) \leq Cardinality(Missing(p, took))
  BY FS_Subset
<1>2. /\ Cardinality(Missing(p, more)) \in Nat /\ Cardinality(Missing(p, took)) \in Nat
      /\ Cardinality(Servers) \in Nat
  BY <1>1, SinkBound, FS_CardinalityType
<1> QED BY <1>1, <1>2

LEMMA LateStep ==
    ASSUME NetType, HandInv, PlacesInv, LateInv, [Sink!Next]_(Sink!vars)
    PROVE  LateInv'
<1>1. ASSUME UNCHANGED logAccepted, Sink!Takes' => Sink!Takes
      PROVE  LateInv'
  BY <1>1 DEF LateInv
<1>2. ASSUME NEW s \in Servers, Sink!AddTask(s)
      PROVE  LateInv'
  <2>0. Sink!Takes' = Sink!Takes
    BY <1>2, TakesSame DEF Sink!AddTask
  <2>1. CASE ~Sink!Takes
    BY <1>2, <2>0, <2>1 DEF LateInv
  <2>2. CASE Sink!Takes
    <3>1. hand[s] \in SinkPacket /\ logAccepted \in Seq(SinkPacket)
      BY <1>2, InPool DEF Sink!AddTask, Sink!Goes, NetType
    <3>2. Packets(logAccepted') = Packets(logAccepted) \cup {hand[s]}
      <4>1. logAccepted' = Append(logAccepted, hand[s])
        BY <1>2, <2>2 DEF Sink!AddTask
      <4> QED BY <3>1, <4>1, AppendPackets
    <3>3. ASSUME NEW p \in Packets(logAccepted)
          PROVE  FewMissing(p, logAccepted')
      <4>1. Missing(p, logAccepted') \in SUBSET Missing(p, logAccepted)
        BY <3>2 DEF Missing
      <4>2. FewMissing(p, logAccepted)
        BY <2>2 DEF LateInv
      <4> QED BY <4>1, <4>2, StillMissing
    <3>4. FewMissing(hand[s], logAccepted')
      BY <1>2, <2>2, LateWhenAdded
    <3> QED BY <3>2, <3>3, <3>4 DEF LateInv
  <2> QED BY <2>1, <2>2
<1>3. ASSUME NEW s \in Servers,
             Sink!GetCompletion(s) \/ Sink!Rearm(s) \/ Sink!ClientEnds(s)
             \/ Sink!TestInstance(s) \/ Sink!AddTaskDeleted(s)
      PROVE  UNCHANGED << logAccepted, Sink!Takes >>
  BY <1>3, TakesSame DEF Sink!GetCompletion, Sink!Rearm, Sink!ClientEnds, Sink!TestInstance,
              Sink!AddTaskDeleted, Sink!logVars
<1>4. ASSUME NEW c \in Actors, Sink!Kernel(c)
      PROVE  UNCHANGED << logAccepted, Sink!Takes >>
  BY <1>4, TakesSame DEF Sink!Kernel, Sink!PacketArrives, Sink!RecvEnds, Sink!PeerEnds, Sink!logVars
<1>5. Quiet => UNCHANGED logAccepted /\ (Sink!Takes' => Sink!Takes)
  BY DEF Quiet
<1> QED BY <1>1, <1>2, <1>3, <1>4, <1>5, QuietSteps, SinkUnchanged
     DEF Sink!Next, Sink!ServerMain

-----------------------------------------------------------------------------
(* WriteInv is kept.                                                       *)

LEMMA WriteSame ==
    ASSUME WriteInv, UNCHANGED << logAccepted, logQueue, logThread, writer, packet, file, screen >>,
           m_pFile' = "null" <=> m_pFile = "null"
    PROVE  WriteInv'
<1>1. Sink!Takes' = Sink!Takes /\ Out' = Out /\ InHand' = InHand
  BY TakesSame DEF Out, InHand, ToWrite
<1>2. ScreenInv' <=> ScreenInv
  BY DEF ScreenInv
<1> QED BY <1>1, <1>2 DEF WriteInv

LEMMA WriteAdds ==
    ASSUME NetType, HandInv, FileType, WriteInv, NEW s \in Servers, Sink!AddTask(s)
    PROVE  WriteInv'
<1>1. UNCHANGED << logThread, m_pFile, writer, packet, file, screen >>
  BY DEF Sink!AddTask, Sink!writeVars
<1>2. CASE ~Sink!Takes
  BY <1>1, <1>2, WriteSame DEF Sink!AddTask
<1>3. CASE Sink!Takes
  <2>1. /\ logAccepted' = Append(logAccepted, hand[s]) /\ logQueue' = Append(logQueue, hand[s])
        /\ hand[s] \in SinkPacket
    BY <1>3, InPool DEF Sink!AddTask, Sink!Goes
  <2>2. /\ InHand' = InHand /\ InHand \in Seq(SinkPacket) /\ logAccepted \in Seq(SinkPacket)
        /\ logQueue \in Seq(SinkPacket) /\ Out' = Out /\ Out \in Seq(SinkPacket)
    BY <1>1, InHandType DEF InHand, Out, ToWrite, NetType, FileType
  <2>3. InOrder(logAccepted, Out, InHand, logQueue, TRUE, Sink!Takes)
    BY DEF WriteInv
  <2>4. InOrder(logAccepted', Out, InHand, logQueue', TRUE, Sink!Takes)
    BY ONLY <2>1, <2>2, <2>3, TakenInOrder
  <2>5. (ScreenInv' <=> ScreenInv) /\ Sink!Takes' = Sink!Takes
    BY <1>1, TakesSame DEF ScreenInv
  <2> QED BY <1>1, <2>2, <2>4, <2>5 DEF WriteInv
<1> QED BY <1>2, <1>3

LEMMA WriteTakes ==
    ASSUME NetType, FileType, ClosingInv, WriteInv, Sink!TakePacket(1)
    PROVE  WriteInv'
<1>1. /\ logThread = "running" /\ logQueue # << >> /\ logQueue' = Tail(logQueue)
      /\ writer[1] = "get" /\ writer'[1] = Sink!ToFile /\ packet'[1] = Head(logQueue)
      /\ UNCHANGED << logThread, m_pFile, logAccepted, file, screen >>
  BY DEF Sink!TakePacket, Sink!Steps, FileType
<1>2. Sink!Takes /\ Sink!Takes' = Sink!Takes
  BY <1>1, TakesSame DEF Sink!Takes
<1>3. /\ m_pFile = "open" => writer'[1] = "lock"
      /\ m_pFile = "null" => writer'[1] = "stdout"
      /\ m_pFile \in {"open", "null"}
  BY <1>1, <1>2 DEF Sink!ToFile, FileType, ClosingInv
<1>4. /\ InHand = << >> /\ InHand' = << Head(logQueue) >> /\ Out' = Out
      /\ << >> \in Seq(SinkPacket) /\ Len(<< >>) < 1
  BY <1>1, <1>3, EmptySeq DEF InHand, ToWrite, Out
<1>5. << Head(logQueue) >> = Append(<< >>, Head(logQueue))
  OBVIOUS
<1>6. logAccepted \in Seq(SinkPacket) /\ logQueue \in Seq(SinkPacket) /\ Out \in Seq(SinkPacket)
  BY InHandType DEF NetType, FileType
<1>7. InOrder(logAccepted, Out, << >>, logQueue, TRUE, Sink!Takes)
  BY <1>4 DEF WriteInv
<1>8. InOrder(logAccepted, Out, Append(<< >>, Head(logQueue)), Tail(logQueue), TRUE, Sink!Takes)
  BY <1>1, <1>2, <1>4, <1>6, <1>7, HandInOrder
<1>9. InOrder(logAccepted', Out', InHand', logQueue', TRUE, Sink!Takes')
  BY <1>1, <1>2, <1>4, <1>5, <1>8
<1>10. m_pFile' # "null" => ScreenInv'
  BY <1>1, <1>3 DEF WriteInv, ScreenInv
<1>11. m_pFile' = "null" => file' = << >> /\ writer'[1] \in {"get", "stdout", "ended", "killed"}
  BY <1>1, <1>3 DEF WriteInv
<1> QED BY <1>9, <1>10, <1>11 DEF WriteInv

(* Neither lock moves the packet; nor does fflush.                         *)
LEMMA WriteLocks ==
    ASSUME NetType, FileType, WriteInv, Sink!LockFile(1) \/ Sink!FlushFile(1)
    PROVE  WriteInv'
<1>1. /\ UNCHANGED << logAccepted, logQueue, logThread, m_pFile, packet, file, screen >>
      /\ \/ writer[1] = "lock" /\ writer'[1] = "write"
         \/ writer[1] = "flush" /\ writer'[1] = "flushing"
         \/ writer[1] = "flushing" /\ writer'[1] = "stdout"
  BY DEF Sink!LockFile, Sink!FlushFile, Sink!Steps, Sink!logVars, FileType
<1>2. m_pFile # "null"
  BY <1>1, InHandType
<1>3. InHand' = InHand /\ Out' = Out /\ Sink!Takes' = Sink!Takes
  BY <1>1, <1>2, TakesSame DEF InHand, ToWrite, Out
<1>4. ScreenInv'
  BY <1>1, <1>2 DEF WriteInv, ScreenInv
<1> QED BY <1>1, <1>2, <1>3, <1>4 DEF WriteInv

LEMMA WriteFiles ==
    ASSUME NetType, FileType, WriteInv, Sink!WriteFile(1)
    PROVE  WriteInv'
<1>1. /\ UNCHANGED << logAccepted, logQueue, logThread, m_pFile, packet, screen >>
      /\ writer[1] = "write" /\ writer'[1] = "flush" /\ file' = Append(file, packet[1])
  BY DEF Sink!WriteFile, Sink!Steps, Sink!logVars, FileType
<1>2. m_pFile # "null" /\ Out = file /\ Out' = file' /\ Sink!Takes' = Sink!Takes
  BY <1>1, InHandType, TakesSame DEF Out
<1>3. /\ InHand \in Seq(SinkPacket) /\ packet[1] \in SinkPacket /\ Len(InHand) = 1
      /\ InHand # << >> /\ InHand[1] = packet[1] /\ InHand' = << >>
  BY <1>1, <1>2, InHandType DEF InHand, ToWrite
<1>4. logAccepted \in Seq(SinkPacket) /\ logQueue \in Seq(SinkPacket) /\ file \in Seq(SinkPacket)
  BY DEF NetType, FileType
<1>5. InOrder(logAccepted, file, InHand, logQueue, TRUE, Sink!Takes)
  BY <1>2 DEF WriteInv
<1>6. InOrder(logAccepted, Append(file, packet[1]), << >>, logQueue, TRUE, Sink!Takes)
  BY <1>3, <1>4, <1>5, SentIsInOrder
<1>7. /\ Len(file') = Len(file) + 1 /\ (\A n \in 1 .. Len(file) : file'[n] = file[n])
      /\ file'[Len(file) + 1] = packet[1] /\ Len(file) \in Nat
  BY <1>1, <1>3, <1>4, AppendQueue
<1>8. Len(screen) = Len(file) /\ \A n \in 1 .. Len(screen) : screen[n] = file[n]
  BY <1>1, <1>2 DEF WriteInv, ScreenInv
<1>9. /\ Len(screen') = Len(file') - 1 /\ Len(screen') \leq Len(file')
      /\ \A n \in 1 .. Len(screen') : screen'[n] = file'[n]
      /\ packet'[1] = file'[Len(file')]
  BY <1>1, <1>7, <1>8
<1>10. ScreenInv'
  BY <1>1, <1>9 DEF ScreenInv
<1>11. InOrder(logAccepted', Out', InHand', logQueue', TRUE, Sink!Takes')
  BY <1>1, <1>2, <1>3, <1>6
<1> QED BY <1>1, <1>2, <1>10, <1>11 DEF WriteInv

(* A packet on the screen: behind the file, or without one.                *)
LEMMA WriteShows ==
    ASSUME NetType, FileType, WriteInv, Sink!WriteStdout(1)
    PROVE  WriteInv'
<1>1. /\ UNCHANGED << logAccepted, logQueue, logThread, m_pFile, file >>
      /\ writer[1] = "stdout" /\ writer'[1] = "get" /\ screen' = Append(screen, packet[1])
  BY DEF Sink!WriteStdout, Sink!Steps, Sink!logVars, FileType
<1>2. /\ packet[1] \in SinkPacket /\ Len(file) \in Nat /\ Len(screen) \in Nat
      /\ Sink!Takes' = Sink!Takes
  BY <1>1, InHandType, TakesSame
<1>3. CASE m_pFile = "null"
  <2>1. /\ Out = screen /\ Out' = screen' /\ InHand' = << >>
        /\ InHand \in Seq(SinkPacket) /\ Len(InHand) = 1 /\ InHand # << >>
        /\ InHand[1] = packet[1]
    BY <1>1, <1>3, InHandType DEF Out, InHand, ToWrite
  <2>2. logAccepted \in Seq(SinkPacket) /\ logQueue \in Seq(SinkPacket) /\ screen \in Seq(SinkPacket)
    BY DEF NetType, FileType
  <2>3. InOrder(logAccepted, screen, InHand, logQueue, TRUE, Sink!Takes)
    BY <2>1 DEF WriteInv
  <2>4. InOrder(logAccepted, Append(screen, packet[1]), << >>, logQueue, TRUE, Sink!Takes)
    BY <1>2, <2>1, <2>2, <2>3, SentIsInOrder
  <2>5. InOrder(logAccepted', Out', InHand', logQueue', TRUE, Sink!Takes')
    BY <1>1, <1>2, <2>1, <2>4
  <2> QED BY <1>1, <1>3, <2>5 DEF WriteInv
<1>4. CASE m_pFile # "null"
  <2>1. InHand' = InHand /\ Out' = Out
    BY <1>1, <1>4 DEF InHand, ToWrite, Out
  <2>2. /\ Len(screen) = Len(file) - 1 /\ packet[1] = file[Len(file)]
        /\ \A n \in 1 .. Len(screen) : screen[n] = file[n]
    BY <1>1, <1>4 DEF WriteInv, ScreenInv
  <2>3. /\ Len(screen') = Len(screen) + 1
        /\ \A n \in 1 .. Len(screen) : screen'[n] = screen[n]
        /\ screen'[Len(screen) + 1] = packet[1]
    BY <1>1, <1>2, AppendQueue DEF FileType
  <2>4. ASSUME NEW n \in 1 .. Len(screen')
        PROVE  screen'[n] = file[n]
    <3>1. n \in 1 .. Len(screen) \/ n = Len(screen) + 1
      BY <1>2, <2>3
    <3>2. Len(screen) + 1 = Len(file)
      BY <1>2, <2>2
    <3> QED BY <2>2, <2>3, <3>1, <3>2
  <2>5. Len(screen') = Len(file)
    BY <1>2, <2>2, <2>3
  <2>6. /\ Len(screen') = Len(file') /\ Len(screen') \leq Len(file')
        /\ \A n \in 1 .. Len(screen') : screen'[n] = file'[n]
    BY <1>1, <1>2, <2>4, <2>5
  <2>7. ScreenInv'
    BY <1>1, <2>6 DEF ScreenInv
  <2>8. InOrder(logAccepted', Out', InHand', logQueue', TRUE, Sink!Takes')
    BY <1>1, <1>2, <2>1 DEF WriteInv
  <2> QED BY <1>1, <1>4, <2>7, <2>8 DEF WriteInv
<1> QED BY <1>3, <1>4

LEMMA WriteCloses ==
    ASSUME NetType, FileType, ClosingInv, ClosingInv', WriteInv, Sink!CloseQueue \/ Sink!Stop
    PROVE  WriteInv'
<1>1. /\ UNCHANGED << logAccepted, m_pFile, packet, file, screen >> /\ ~Sink!Takes'
      /\ logQueue' \in {logQueue, << >>}
  BY DEF Sink!CloseQueue, Sink!Stop, Sink!MainGoes, Sink!logVars, Sink!writeVars, ClosingInv
<1>2. InHand' = InHand \/ InHand' = << >>
  BY <1>1 DEF Sink!CloseQueue, Sink!Stop, Sink!writeVars, InHand, ToWrite, Sink!Writers
<1>3. InOrder(logAccepted, Out, InHand, logQueue, TRUE, Sink!Takes)
  BY DEF WriteInv
<1>4. InOrder(logAccepted, Out, InHand', logQueue', TRUE, Sink!Takes')
  BY <1>1, <1>2, <1>3, LetGoInOrder
<1>5. Out' = Out
  BY <1>1 DEF Out
<1>6. CASE writer' = writer
  BY <1>1, <1>4, <1>5, <1>6 DEF WriteInv, ScreenInv
<1>7. CASE Sink!Stop
  <2>1. /\ writer'[1] = IF writer[1] = "get" THEN "ended" ELSE "killed"
        /\ writer[1] \in Sink!WriterPlaces
    BY <1>7 DEF Sink!Stop, Sink!Writers, FileType
  <2>2. m_pFile # "null" => ScreenInv'
    BY <1>1, <2>1 DEF WriteInv, ScreenInv, Sink!WriterPlaces
  <2> QED BY <1>1, <1>4, <1>5, <2>1, <2>2 DEF WriteInv
<1> QED BY <1>6, <1>7 DEF Sink!CloseQueue, Sink!writeVars

LEMMA WriteStep ==
    ASSUME NetType, HandInv, FileType, ClosingInv, ClosingInv', WriteInv, [Sink!Next]_(Sink!vars)
    PROVE  WriteInv'
<1> USE DEF Sink!logVars, Sink!writeVars
<1>1. ASSUME NEW s \in Servers,
             Sink!GetCompletion(s) \/ Sink!Rearm(s) \/ Sink!ClientEnds(s)
             \/ Sink!TestInstance(s) \/ Sink!AddTaskDeleted(s)
      PROVE  WriteInv'
  BY <1>1, WriteSame DEF Sink!GetCompletion, Sink!Rearm, Sink!ClientEnds, Sink!TestInstance,
              Sink!AddTaskDeleted
<1>2. ASSUME NEW c \in Actors, Sink!Kernel(c)
      PROVE  WriteInv'
  BY <1>2, WriteSame DEF Sink!Kernel, Sink!PacketArrives, Sink!RecvEnds, Sink!PeerEnds
<1>3. ASSUME NEW w \in Sink!Writers, Sink!WriteLog(w)
      PROVE  WriteInv'
  BY <1>3, WriteTakes, WriteLocks, WriteFiles, WriteShows DEF Sink!WriteLog, Sink!Writers
<1>4. ASSUME Sink!CloseFile \/ Sink!Delete \/ Sink!SetNull \/ Sink!ExitProcess
      PROVE  WriteInv'
  <2>1. m_pFile' = "null" <=> m_pFile = "null"
    BY <1>4 DEF Sink!CloseFile, Sink!Delete, Sink!SetNull, Sink!ExitProcess
  <2> QED BY <1>4, <2>1, WriteSame DEF Sink!CloseFile, Sink!Delete, Sink!SetNull, Sink!ExitProcess
<1>5. UNCHANGED Sink!vars => WriteInv'
  BY WriteSame, SinkUnchanged DEF sinkVars
<1> QED BY <1>1, <1>2, <1>3, <1>4, <1>5, WriteAdds, WriteCloses
     DEF Sink!Next, Sink!ServerMain, Sink!MainThread, Sink!releaseInstance

-----------------------------------------------------------------------------
(* The invariant of the Sink, in the chain, and what follows from it.      *)

LEMMA SameCardinality == \A S : Sink!Cardinality(S) = Cardinality(S)
BY DEF Sink!Cardinality, Cardinality

LEMMA SinkNextInv == SinkInv /\ [Sink!Next]_(Sink!vars) => SinkInv'
<1> SUFFICES ASSUME SinkInv, [Sink!Next]_(Sink!vars) PROVE SinkInv'
  OBVIOUS
<1>1. NetType /\ FileType /\ HandInv /\ ClosingInv /\ RightInv /\ PlacesInv /\ LateInv /\ WriteInv
  BY SinkTypeParts DEF SinkInv
<1>2. NetType' /\ FileType'
  BY <1>1, NetTypeStep, FileTypeStep
<1>3. Sink!TypeOK'
  BY <1>2 DEF Sink!TypeOK, NetType, FileType, Delivery, SinkPacket, MaxPackets,
              Sink!Packet, NoClient, Sink!NoClient, Sink!Writers
<1>4. HandInv' /\ ClosingInv' /\ RightInv'
  BY <1>1, SinkHandStep, ClosingStep, RightStep
<1>5. PlacesInv' /\ LateInv' /\ WriteInv'
  BY <1>1, <1>4, PlacesStep, LateStep, WriteStep
<1> QED BY <1>3, <1>4, <1>5 DEF SinkInv

LEMMA SinkInvariance == Sink!Spec => []SinkInv
BY SinkInit, SinkNextInv, PTL DEF Sink!Spec

LEMMA ChainInvariance == ChainSpec => []SinkInv
BY ChainImplementsBoth, SinkInvariance, PTL

(* The file holds what the log program's pool took, in order and without a *)
(* gap, and the screen all of it but the last at most; without a file the  *)
(* screen holds what was taken.  For any number of connections, of threads *)
(* of the server, and of packets.                                          *)
THEOREM FileHoldsWhatWasTaken == ChainSpec => []FileInOrder
<1>1. ASSUME SinkInv
      PROVE  FileInOrder
  <2>1. /\ Len(screen) \in Nat /\ Len(file) \in Nat /\ Len(logAccepted) \in Nat
        /\ WriteInv /\ writer[1] \in Sink!WriterPlaces
    BY <1>1, SinkTypeParts, InHandType DEF SinkInv, FileType
  <2>2. Len(Out) \leq Len(logAccepted) /\ \A n \in 1 .. Len(Out) : Out[n] = logAccepted[n]
    BY <2>1 DEF WriteInv, InOrder
  <2>3. CASE m_pFile = "null"
    <3>1. file = << >> /\ Len(<< >>) = 0 /\ Out = screen
      BY <2>1, <2>3, EmptySeq DEF WriteInv, Out
    <3> QED BY <2>1, <2>2, <2>3, <3>1 DEF FileInOrder, Sink!FileInOrder, Sink!InFront
  <2>4. CASE m_pFile # "null"
    <3>1. ScreenInv /\ Out = file
      BY <2>1, <2>4 DEF WriteInv, Out
    <3>2. Len(screen) \in {Len(file), Len(file) - 1}
      BY <2>1, <3>1 DEF ScreenInv, Sink!WriterPlaces
    <3>3. Len(screen) \leq Len(logAccepted) /\ \A n \in 1 .. Len(screen) : screen[n] = logAccepted[n]
      BY <2>1, <2>2, <3>1 DEF ScreenInv
    <3> QED BY <2>2, <2>4, <3>1, <3>2, <3>3 DEF FileInOrder, Sink!FileInOrder, Sink!InFront
  <2> QED BY <2>3, <2>4
<1> QED BY <1>1, ChainInvariance, PTL

(* The end of each connection's stream is passed on once, and nothing is   *)
(* received after it.                                                      *)
THEOREM EndPassedOnOnce == ChainSpec => []EndsOnce
<1>1. ASSUME SinkInv
      PROVE  EndsOnce
  <2> SUFFICES ASSUME NEW c \in Actors
               PROVE  /\ ends[c] \leq 1
                      /\ ends[c] = 1 => recvs[c] = 0 /\ ~Sink!IsIn(<< c, 0 >>, port)
    BY DEF EndsOnce, Sink!EndsOnce
  <2>1. OneRight(c) /\ port \in Seq(Delivery)
    BY <1>1, SinkTypeParts DEF SinkInv, RightInv, NetType
  <2>2. ASSUME Sink!IsIn(<< c, 0 >>, port)
        PROVE  Where(port, Of(c)) # {}
    <3>1. << c, 0 >> \in Of(c)
      BY SinkBound DEF Of
    <3> QED BY <2>1, <2>2, <3>1, LenProperties DEF Sink!IsIn, Where
  <2> QED BY <2>1, <2>2 DEF OneRight
<1> QED BY <1>1, ChainInvariance, PTL

(* No packet is logged twice; and although the threads of the server       *)
(* overtake each other, of the packets before one that was logged fewer    *)
(* are missing than there are threads.                                     *)
THEOREM LoggedOnceAndSoon == ChainSpec => []LateBounded
<1>1. ASSUME SinkInv
      PROVE  LateBounded
  <2>1. Distinct(logAccepted)
    BY <1>1 DEF SinkInv, PlacesInv, TakenInv
  <2>2. ASSUME Sink!Takes, NEW n \in DOMAIN logAccepted
        PROVE  Cardinality({k \in 1 .. logAccepted[n][2] - 1 :
                   ~Sink!IsIn(<< logAccepted[n][1], k >>, logAccepted)}) < Cardinality(Servers)
    <3>1. \A p : Sink!IsIn(p, logAccepted) <=> p \in Packets(logAccepted)
      BY DEF Sink!IsIn, Packets
    <3>2. logAccepted[n] \in Packets(logAccepted)
      BY <2>2 DEF Packets
    <3>3. Cardinality(Missing(logAccepted[n], logAccepted)) < Cardinality(Servers)
      BY <1>1, <2>2, <3>2 DEF SinkInv, LateInv, FewMissing
    <3>4. Missing(logAccepted[n], logAccepted)
          = {k \in 1 .. logAccepted[n][2] - 1 : ~Sink!IsIn(<< logAccepted[n][1], k >>, logAccepted)}
      BY <3>1 DEF Missing
    <3> QED BY <3>3, <3>4
  <2>3. \A m, n \in DOMAIN logAccepted : logAccepted[m] = logAccepted[n] => m = n
    BY <2>1 DEF Distinct
  <2> QED BY <2>2, <2>3, SameCardinality, Zenon DEF LateBounded, Sink!LateBounded
<1> QED BY <1>1, ChainInvariance, PTL
=============================================================================
