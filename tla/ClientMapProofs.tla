--------------------------- MODULE ClientMapProofs ---------------------------
(***************************************************************************)
(* Proofs about module ClientMap, for any clients and any number of        *)
(* queries: its invariants, and the refinement of ClientRegistry.          *)
(***************************************************************************)
EXTENDS ClientMap, QueueLemmas, TLAPS

(* A message that waits or is being handled names a client or a call; that *)
(* call has not been answered and its event is not set.                    *)
Valid(m) ==
    /\ m.type \in {"ADD", "DEL"} => m.client \in Clients
    /\ m.type = "QUERY" <=> m.query \in Queries
    /\ m.query \in Queries =>
           call[m.query] \in {"wait", "failed"} /\ m.query \notin event

(* Of the messages in the port and in hand no two are of the same call.    *)
MessageInv ==
    /\ \A i \in 1 .. Len(mailbox) : Valid(mailbox[i])
    /\ \A i \in 1 .. Len(hand) : Valid(hand[i])
    /\ \A i, j \in 1 .. Len(mailbox) :
           mailbox[i].query = mailbox[j].query /\ mailbox[i].query \in Queries => i = j
    /\ \A i \in 1 .. Len(mailbox), j \in 1 .. Len(hand) :
           mailbox[i].query = hand[j].query => mailbox[i].query \notin Queries
    /\ \A q \in event : call[q] # "none"

(* The actor has a message in hand while it handles one, and only then.    *)
HandInv ==
    /\ actor \in {"handle", "signal"} => Len(hand) = 1
    /\ actor \in {"loop", "get", "ended"} => hand = << >>
    /\ actor = "signal" => hand[1].type = "QUERY"

(* The destructor closes the port after it has stopped the actor.          *)
DestructorInv ==
    /\ port = "closed" => destructor = "gone"
    /\ destructor \in {"close", "gone"} => actor \in {"ended", "killed"}

IndInv ==
    /\ TypeOK
    /\ MessageInv
    /\ HandInv
    /\ DestructorInv
    /\ StrayOnlyAfterTimeout

-----------------------------------------------------------------------------
(* The callers.  One lemma per action says that it keeps IndInv.           *)

LEMMA MessageTypes ==
    /\ Quit \in Message
    /\ \A c \in Clients : Add(c) \in Message /\ Del(c) \in Message
    /\ \A q \in Queries : Ask(q) \in Message
BY DEF Message, Quit, Add, Del, Ask

(* A call has at most one message in the port.                             *)
LEMMA OneInPort ==
    ASSUME IndInv, NEW i \in 1 .. Len(mailbox), NEW j \in 1 .. Len(mailbox),
           mailbox[i].query = mailbox[j].query, mailbox[i].query \in Queries
    PROVE  i = j
BY DEF IndInv, MessageInv

(* Posting a message that is not of a query.                               *)
LEMMA PostInv ==
    ASSUME IndInv, NEW m \in Message, m.query = None, m.type # "QUERY",
           m.type \in {"ADD", "DEL"} => m.client \in Clients,
           Post(m), UNCHANGED << call, event, hand >>
    PROVE  mailbox' \in Seq(Message) /\ MessageInv'
<1>1. CASE mailbox' = mailbox
  BY <1>1 DEF IndInv, TypeOK, MessageInv, Valid
<1>2. CASE mailbox' = Append(mailbox, m)
  <2>1. /\ Len(mailbox) \in Nat
        /\ mailbox' \in Seq(Message)
        /\ Len(mailbox') = Len(mailbox) + 1
        /\ \A i \in 1 .. Len(mailbox) : mailbox'[i] = mailbox[i]
        /\ mailbox'[Len(mailbox) + 1] = m
    BY <1>2, AppendQueue DEF IndInv, TypeOK
  <2>2. (\A i \in 1 .. Len(mailbox) : Valid(mailbox[i]))'
    BY <2>1, ClientMapAssumption DEF IndInv, MessageInv, Valid
  <2>3. \A i, j \in 1 .. Len(mailbox') :
            mailbox'[i].query = mailbox'[j].query /\ mailbox'[i].query \in Queries => i = j
    BY <2>1, OneInPort, ClientMapAssumption
  <2>4. \A i \in 1 .. Len(mailbox'), j \in 1 .. Len(hand') :
            mailbox'[i].query = hand'[j].query => mailbox'[i].query \notin Queries
    BY <2>1, ClientMapAssumption DEF IndInv, MessageInv
  <2>5. /\ (\A i \in 1 .. Len(hand) : Valid(hand[i]))'
        /\ \A q \in event' : call'[q] # "none"
    BY DEF IndInv, MessageInv, Valid
  <2> QED BY <2>1, <2>2, <2>3, <2>4, <2>5 DEF MessageInv
<1> QED BY <1>1, <1>2 DEF Post

LEMMA AddClientInv == ASSUME IndInv, NEW c \in Clients, AddClient(c) PROVE IndInv'
<1>1. mailbox' \in Seq(Message) /\ MessageInv'
  BY PostInv, MessageTypes DEF AddClient, Add, actorVars
<1>2. TypeOK'
  BY <1>1 DEF IndInv, TypeOK, AddClient, actorVars
<1>3. HandInv' /\ DestructorInv' /\ StrayOnlyAfterTimeout'
  BY DEF IndInv, HandInv, DestructorInv, StrayOnlyAfterTimeout, AddClient, actorVars
<1> QED BY <1>1, <1>2, <1>3 DEF IndInv

LEMMA DelClientInv == ASSUME IndInv, NEW c \in Clients, DelClient(c) PROVE IndInv'
<1>1. mailbox' \in Seq(Message) /\ MessageInv'
  BY PostInv, MessageTypes DEF DelClient, Del, actorVars
<1>2. TypeOK'
  BY <1>1, ClientMapAssumption DEF IndInv, TypeOK, DelClient, actorVars
<1>3. HandInv' /\ DestructorInv' /\ StrayOnlyAfterTimeout'
  BY DEF IndInv, HandInv, DestructorInv, StrayOnlyAfterTimeout, DelClient, actorVars
<1> QED BY <1>1, <1>2, <1>3 DEF IndInv

LEMMA QueryInv ==
    ASSUME IndInv, NEW q \in Queries, NEW S \in SUBSET Clients, Query(q, S)
    PROVE  IndInv'
<1>1. /\ q \notin event
      /\ \A i \in 1 .. Len(mailbox) : mailbox[i].query # q
      /\ \A i \in 1 .. Len(hand) : hand[i].query # q
  BY DEF IndInv, MessageInv, Valid, Query
<1>2. \A p \in Queries : p # q => call'[p] = call[p]
  BY DEF IndInv, TypeOK, Query
<1>3. mailbox' \in Seq(Message) /\ MessageInv'
  <2>1. CASE call'[q] = "wait"
    <3>1. /\ Len(mailbox) \in Nat
          /\ mailbox' \in Seq(Message)
          /\ Len(mailbox') = Len(mailbox) + 1
          /\ \A i \in 1 .. Len(mailbox) : mailbox'[i] = mailbox[i]
          /\ mailbox'[Len(mailbox) + 1] = Ask(q)
      <4>1. mailbox' = Append(mailbox, Ask(q))
        BY <2>1 DEF IndInv, TypeOK, Query
      <4>2. mailbox \in Seq(Message) /\ Ask(q) \in Message
        BY MessageTypes DEF IndInv, TypeOK
      <4> QED BY <4>1, <4>2, AppendQueue
    <3>2. (\A i \in 1 .. Len(mailbox) : Valid(mailbox[i]))'
      BY <1>1, <1>2, <2>1, <3>1 DEF IndInv, MessageInv, Valid, Query, actorVars, Ask
    <3>3. \A i, j \in 1 .. Len(mailbox') :
              mailbox'[i].query = mailbox'[j].query /\ mailbox'[i].query \in Queries => i = j
      BY <1>1, <3>1, OneInPort DEF Ask
    <3>4. \A i \in 1 .. Len(mailbox'), j \in 1 .. Len(hand') :
              mailbox'[i].query = hand'[j].query => mailbox'[i].query \notin Queries
      BY <1>1, <3>1 DEF IndInv, MessageInv, Ask, Query, actorVars
    <3>5. /\ (\A i \in 1 .. Len(hand) : Valid(hand[i]))'
          /\ \A p \in event' : call'[p] # "none"
      BY <1>1, <1>2 DEF IndInv, TypeOK, MessageInv, Valid, Query, actorVars
    <3> QED BY <3>1, <3>2, <3>3, <3>4, <3>5 DEF MessageInv
  <2>2. CASE mailbox' = mailbox
    BY <1>1, <1>2, <2>2 DEF IndInv, TypeOK, MessageInv, Valid, Query, actorVars
  <2> QED BY <2>1, <2>2 DEF IndInv, TypeOK, Query
<1>4. TypeOK'
  BY <1>3 DEF IndInv, TypeOK, Query, actorVars
<1>5. StrayOnlyAfterTimeout'
  BY <1>2 DEF IndInv, StrayOnlyAfterTimeout, Query, actorVars
<1>6. HandInv' /\ DestructorInv'
  BY DEF IndInv, HandInv, DestructorInv, Query, actorVars
<1> QED BY <1>3, <1>4, <1>5, <1>6 DEF IndInv

LEMMA QuerySignalledInv == ASSUME IndInv, NEW q \in Queries, QuerySignalled(q) PROVE IndInv'
<1>1. /\ \A i \in 1 .. Len(mailbox) : mailbox[i].query # q
      /\ \A i \in 1 .. Len(hand) : hand[i].query # q
  BY DEF IndInv, MessageInv, Valid, QuerySignalled
<1>2. \A p \in Queries : call'[p] = IF p = q THEN "OK" ELSE call[p]
  BY DEF IndInv, TypeOK, QuerySignalled, Returns
<1>3. TypeOK'
  BY DEF IndInv, TypeOK, QuerySignalled, Returns, actorVars
<1>4. MessageInv'
  BY <1>1, <1>2 DEF IndInv, TypeOK, MessageInv, Valid, QuerySignalled, Returns, actorVars
<1>5. StrayOnlyAfterTimeout'
  BY <1>2 DEF IndInv, StrayOnlyAfterTimeout, QuerySignalled, Returns, actorVars
<1>6. HandInv' /\ DestructorInv'
  BY DEF IndInv, HandInv, DestructorInv, QuerySignalled, Returns, actorVars
<1> QED BY <1>3, <1>4, <1>5, <1>6 DEF IndInv

LEMMA QueryTimesOutInv == ASSUME IndInv, NEW q \in Queries, QueryTimesOut(q) PROVE IndInv'
<1>1. \A p \in Queries : call'[p] = IF p = q THEN "failed" ELSE call[p]
  BY DEF IndInv, TypeOK, QueryTimesOut, Returns
<1>2. TypeOK'
  BY DEF IndInv, TypeOK, QueryTimesOut, Returns, actorVars
<1>3. MessageInv'
  BY <1>1 DEF IndInv, TypeOK, MessageInv, Valid, QueryTimesOut, Returns, actorVars
<1>4. StrayOnlyAfterTimeout'
  BY <1>1 DEF IndInv, StrayOnlyAfterTimeout, QueryTimesOut, Returns, actorVars
<1>5. HandInv' /\ DestructorInv'
  BY DEF IndInv, HandInv, DestructorInv, QueryTimesOut, Returns, actorVars
<1> QED BY <1>2, <1>3, <1>4, <1>5 DEF IndInv

-----------------------------------------------------------------------------
(* The actor.                                                              *)

LEMMA LoopTestInv == ASSUME IndInv, LoopTest PROVE IndInv'
<1>1. TypeOK'
  BY DEF IndInv, TypeOK, Running, LoopTest, callerVars
<1>2. MessageInv'
  BY DEF IndInv, MessageInv, Valid, LoopTest, callerVars
<1>3. HandInv' /\ DestructorInv' /\ StrayOnlyAfterTimeout'
  BY DEF IndInv, HandInv, DestructorInv, StrayOnlyAfterTimeout, LoopTest, callerVars
<1> QED BY <1>1, <1>2, <1>3 DEF IndInv

LEMMA GetFailsInv == ASSUME IndInv, GetFails PROVE IndInv'
<1>1. TypeOK'
  BY DEF IndInv, TypeOK, Running, GetFails, callerVars
<1>2. MessageInv'
  BY DEF IndInv, MessageInv, Valid, GetFails, callerVars
<1>3. HandInv' /\ DestructorInv' /\ StrayOnlyAfterTimeout'
  BY DEF IndInv, HandInv, DestructorInv, StrayOnlyAfterTimeout, GetFails, callerVars
<1> QED BY <1>1, <1>2, <1>3 DEF IndInv

LEMMA GetInv == ASSUME IndInv, Get PROVE IndInv'
<1>1. /\ Len(mailbox) \in Nat \ {0}
      /\ Head(mailbox) \in Message
      /\ Head(mailbox) = mailbox[1]
      /\ mailbox' \in Seq(Message)
      /\ Len(mailbox') = Len(mailbox) - 1
      /\ \A i \in 1 .. Len(mailbox) - 1 : mailbox'[i] = mailbox[i + 1]
  BY TailQueue DEF IndInv, TypeOK, Get
<1>2. /\ hand' \in Seq(Message)
      /\ Len(hand') = 1
      /\ hand'[1] = mailbox[1]
  BY <1>1 DEF Get
<1>3. TypeOK'
  BY <1>1, <1>2 DEF IndInv, TypeOK, Running, Get, callerVars
<1>4. MessageInv'
  <2>1. /\ (\A i \in 1 .. Len(mailbox) : Valid(mailbox[i]))'
        /\ (\A i \in 1 .. Len(hand) : Valid(hand[i]))'
    BY <1>1, <1>2 DEF IndInv, MessageInv, Valid, Get, callerVars
  <2>2. \A i, j \in 1 .. Len(mailbox') :
            mailbox'[i].query = mailbox'[j].query /\ mailbox'[i].query \in Queries => i = j
    <3> SUFFICES ASSUME NEW i \in 1 .. Len(mailbox'), NEW j \in 1 .. Len(mailbox'),
                        mailbox'[i].query = mailbox'[j].query, mailbox'[i].query \in Queries
                 PROVE  i = j
      OBVIOUS
    <3>1. /\ i \in Nat /\ i + 1 \in 1 .. Len(mailbox) /\ mailbox'[i] = mailbox[i + 1]
          /\ j \in Nat /\ j + 1 \in 1 .. Len(mailbox) /\ mailbox'[j] = mailbox[j + 1]
      BY <1>1
    <3>2. i + 1 = j + 1
      BY <3>1, OneInPort
    <3> QED BY <3>1, <3>2
  <2>3. \A i \in 1 .. Len(mailbox'), j \in 1 .. Len(hand') :
            mailbox'[i].query = hand'[j].query => mailbox'[i].query \notin Queries
    <3> SUFFICES ASSUME NEW i \in 1 .. Len(mailbox'), NEW j \in 1 .. Len(hand'),
                        mailbox'[i].query = hand'[j].query, mailbox'[i].query \in Queries
                 PROVE  FALSE
      OBVIOUS
    <3>1. /\ i \in Nat /\ i # 0 /\ i + 1 \in 1 .. Len(mailbox) /\ mailbox'[i] = mailbox[i + 1]
          /\ 1 \in 1 .. Len(mailbox) /\ j = 1
      BY <1>1, <1>2
    <3>2. i + 1 = 1
      BY <1>2, <3>1, OneInPort
    <3> QED BY <3>1, <3>2
  <2> QED BY <2>1, <2>2, <2>3 DEF IndInv, MessageInv, Get, callerVars
<1>5. HandInv'
  BY <1>2 DEF HandInv, Get
<1>6. DestructorInv' /\ StrayOnlyAfterTimeout'
  BY DEF IndInv, DestructorInv, StrayOnlyAfterTimeout, Get, callerVars
<1> QED BY <1>3, <1>4, <1>5, <1>6 DEF IndInv

LEMMA InHand ==
    ASSUME IndInv, actor \in {"handle", "signal"}
    PROVE  Len(hand) = 1 /\ hand[1] \in Message /\ Valid(hand[1])
<1>1. Len(hand) = 1 /\ hand \in Seq(Message)
  BY DEF IndInv, TypeOK, HandInv
<1>2. Valid(hand[1])
  BY <1>1 DEF IndInv, MessageInv
<1>3. hand[1] \in Message
  <2>1. hand \in Seq(Message) /\ 1 \in 1 .. Len(hand)
    BY <1>1
  <2> QED BY <2>1, ElementOfSeq, Zenon
<1> QED BY <1>1, <1>2, <1>3

(* The message leaves the hand: those in the port stay valid.              *)
LEMMA HandleChangeInv == ASSUME IndInv, HandleChange PROVE IndInv'
<1>1. hand[1].type = "ADD" => hand[1].client \in Clients
  BY InHand DEF Valid, HandleChange
<1>2. m_mapClient' \subseteq Clients
  BY <1>1 DEF IndInv, TypeOK, HandleChange
<1>3. hand' = << >> /\ hand' \in Seq(Message) /\ Len(hand') = 0
  BY DEF HandleChange, Handled
<1>4. TypeOK'
  BY <1>2, <1>3 DEF IndInv, TypeOK, Running, HandleChange, Handled, callerVars
<1>5. MessageInv'
  BY <1>3 DEF IndInv, MessageInv, Valid, HandleChange, callerVars
<1>6. HandInv'
  BY <1>3 DEF HandInv, HandleChange, Handled
<1>7. DestructorInv' /\ StrayOnlyAfterTimeout'
  BY DEF IndInv, DestructorInv, StrayOnlyAfterTimeout, HandleChange, Handled, callerVars
<1> QED BY <1>4, <1>5, <1>6, <1>7 DEF IndInv

(* A call whose frame is used though it does not wait has given up: it has *)
(* a message in hand, so it is not answered.                               *)
LEMMA DeadFrameInv ==
    ASSUME IndInv, Len(hand) = 1, NEW next, UseDeadFrame(hand[1].query, next),
           hand[1].query \in Queries, UNCHANGED call
    PROVE  StrayOnlyAfterTimeout'
BY DEF IndInv, MessageInv, Valid, StrayOnlyAfterTimeout, UseDeadFrame

LEMMA HandleQueryInv == ASSUME IndInv, HandleQuery PROVE IndInv'
<1> DEFINE q == hand[1].query
<1>1. hand[1] \in Message /\ q \in Queries /\ Len(hand) = 1 /\ hand[1].type = "QUERY"
  BY InHand DEF Valid, HandleQuery
<1>2. CASE WriteAnswer(q)
  <2>1. TypeOK'
    BY <1>1, <1>2 DEF IndInv, TypeOK, Running, HandleQuery, WriteAnswer, callerVars
  <2>2. StrayOnlyAfterTimeout'
    BY <1>2 DEF IndInv, StrayOnlyAfterTimeout, HandleQuery, WriteAnswer, callerVars
  <2> QED BY <1>1, <1>2, <2>1, <2>2 DEF IndInv, MessageInv, Valid, HandInv,
          DestructorInv, HandleQuery, WriteAnswer, callerVars
<1>3. CASE UseDeadFrame(q, "signal")
  <2>1. TypeOK'
    BY <1>3 DEF IndInv, TypeOK, Running, HandleQuery, UseDeadFrame, callerVars
  <2>2. StrayOnlyAfterTimeout'
    BY <1>1, <1>3, DeadFrameInv DEF HandleQuery, callerVars
  <2> QED BY <1>1, <1>3, <2>1, <2>2 DEF IndInv, MessageInv, Valid, HandInv,
          DestructorInv, HandleQuery, UseDeadFrame, callerVars
<1> QED BY <1>2, <1>3 DEF HandleQuery

LEMMA SignalQueryInv == ASSUME IndInv, SignalQuery PROVE IndInv'
<1> DEFINE q == hand[1].query
<1>1. q \in Queries /\ Len(hand) = 1
  BY InHand DEF IndInv, HandInv, Valid, SignalQuery
<1>2. hand' = << >> /\ hand' \in Seq(Message) /\ Len(hand') = 0
  BY DEF SignalQuery
<1>3. \A i \in 1 .. Len(mailbox) : mailbox[i].query # q
  BY <1>1 DEF IndInv, MessageInv
<1>4. CASE call[q] = "wait" /\ event' = event \cup {q} /\ actor' = "loop"
            /\ UNCHANGED << result, stray >>
  <2>1. TypeOK'
    BY <1>1, <1>2, <1>4 DEF IndInv, TypeOK, Running, SignalQuery, callerVars
  <2>2. MessageInv'
    BY <1>1, <1>2, <1>3, <1>4 DEF IndInv, MessageInv, Valid, SignalQuery, callerVars
  <2> QED BY <1>2, <1>4, <2>1, <2>2 DEF IndInv, HandInv, DestructorInv,
          StrayOnlyAfterTimeout, SignalQuery, callerVars
<1>5. CASE UseDeadFrame(q, "loop")
  <2>1. TypeOK'
    BY <1>2, <1>5 DEF IndInv, TypeOK, Running, SignalQuery, UseDeadFrame, callerVars
  <2>2. MessageInv'
    BY <1>2, <1>5 DEF IndInv, MessageInv, Valid, SignalQuery, UseDeadFrame, callerVars
  <2>3. StrayOnlyAfterTimeout'
    BY <1>1, <1>5, DeadFrameInv DEF SignalQuery, callerVars
  <2> QED BY <1>2, <1>5, <2>1, <2>2, <2>3 DEF IndInv, HandInv, DestructorInv,
          SignalQuery, UseDeadFrame, callerVars
<1> QED BY <1>4, <1>5 DEF SignalQuery

-----------------------------------------------------------------------------
(* The destructor.                                                         *)

LEMMA DestroyPostInv == ASSUME IndInv, DestroyPost PROVE IndInv'
<1>1. mailbox' \in Seq(Message) /\ MessageInv'
  BY PostInv, MessageTypes DEF DestroyPost, Quit, actorVars, callerVars
<1>2. TypeOK'
  BY <1>1 DEF IndInv, TypeOK, DestroyPost, actorVars, callerVars
<1>3. HandInv' /\ DestructorInv' /\ StrayOnlyAfterTimeout'
  BY DEF IndInv, HandInv, DestructorInv, StrayOnlyAfterTimeout, Usable, DestroyPost,
     actorVars, callerVars
<1> QED BY <1>1, <1>2, <1>3 DEF IndInv

LEMMA DestructorStepsInv == ASSUME IndInv, DestructorSteps PROVE IndInv'
<1> USE DEF DestroyInvalidate, StopJoins, StopTerminates, DestroyClose, actorVars, callerVars
<1>1. TypeOK'
  BY DEF IndInv, TypeOK, DestructorSteps
<1>2. MessageInv'
  BY DEF IndInv, MessageInv, Valid, DestructorSteps
<1>3. HandInv'
  BY DEF IndInv, HandInv, DestructorSteps
<1>4. DestructorInv'
  BY DEF IndInv, DestructorInv, DestructorSteps
<1>5. StrayOnlyAfterTimeout'
  BY DEF IndInv, StrayOnlyAfterTimeout, DestructorSteps
<1> QED BY <1>1, <1>2, <1>3, <1>4, <1>5 DEF IndInv

-----------------------------------------------------------------------------
LEMMA InitInv == Init => IndInv
<1> SUFFICES ASSUME Init PROVE IndInv
  OBVIOUS
<1>1. /\ mailbox = << >> /\ mailbox \in Seq(Message) /\ Len(mailbox) = 0
      /\ hand = << >> /\ hand \in Seq(Message) /\ Len(hand) = 0
  BY DEF Init
<1>2. TypeOK
  <2>1. /\ call \in [Queries -> {"none", "wait", "OK", "failed"}]
        /\ wanted \in [Queries -> SUBSET Clients]
        /\ result \in [Queries -> SUBSET Clients]
    BY DEF Init
  <2>2. deletes \in 0 .. MaxDeletes
    BY ClientMapAssumption DEF Init
  <2>3. m_mapClient \subseteq Clients /\ known \subseteq Clients /\ event \subseteq Queries
    BY DEF Init
  <2>4. Len(hand) \leq 1
    BY <1>1
  <2>5. /\ m_iocp = "open" /\ port = "open" /\ actor = "loop"
        /\ destructor = "none" /\ stray = FALSE
    BY DEF Init
  <2> QED BY <1>1, <2>1, <2>2, <2>3, <2>4, <2>5 DEF TypeOK, Running
<1>3. MessageInv
  BY <1>1 DEF Init, MessageInv
<1> QED BY <1>1, <1>2, <1>3 DEF Init, IndInv, HandInv, DestructorInv, StrayOnlyAfterTimeout

LEMMA NextInv == IndInv /\ [Next]_vars => IndInv'
<1> SUFFICES ASSUME IndInv, [Next]_vars PROVE IndInv'
  OBVIOUS
<1>1. ASSUME NEW c \in Clients, AddClient(c) \/ DelClient(c) PROVE IndInv'
  BY <1>1, AddClientInv, DelClientInv
<1>2. ASSUME NEW q \in Queries, GetClient(q) \/ GetClients(q) PROVE IndInv'
  BY <1>2, QueryInv DEF GetClient, GetClients
<1>3. ASSUME NEW q \in Queries, QuerySignalled(q) \/ QueryTimesOut(q) PROVE IndInv'
  BY <1>3, QuerySignalledInv, QueryTimesOutInv
<1>4. CASE ClientMapMain
  BY <1>4, LoopTestInv, GetFailsInv, GetInv, HandleChangeInv, HandleQueryInv,
     SignalQueryInv DEF ClientMapMain
<1>5. CASE DestroyPost
  BY <1>5, DestroyPostInv
<1>6. CASE DestructorSteps
  BY <1>6, DestructorStepsInv
<1>7. CASE UNCHANGED vars
  BY <1>7 DEF vars, IndInv, TypeOK, MessageInv, Valid, HandInv, DestructorInv,
     StrayOnlyAfterTimeout
<1> QED BY <1>1, <1>2, <1>3, <1>4, <1>5, <1>6, <1>7 DEF Next

-----------------------------------------------------------------------------
(* IndInv holds in every reachable state of module ClientMap.              *)
THEOREM Invariance == Spec => []IndInv
BY InitInv, NextInv, PTL DEF Spec

(* The variables of the client map and the actor's places have their types *)
(* in every reachable state.                                               *)
THEOREM TypeCorrect == Spec => []TypeOK
<1>1. IndInv => TypeOK
  BY DEF IndInv
<1> QED BY <1>1, Invariance, PTL

(* The actor uses the local variables of a GetClient or GetClients call    *)
(* after the call returned only if some call gave up waiting; ~ClientMap   *)
(* closes the port and destroys the map after the actor ended.             *)
THEOREM ActorUsesLiving == Spec => []UsesOnlyLiving
<1>1. IndInv => StrayOnlyAfterTimeout
  BY DEF IndInv
<1>2. IndInv => ActorStopsFirst
  BY DEF IndInv, DestructorInv, ActorStopsFirst
<1>3. IndInv => UsesOnlyLiving
  BY <1>1, <1>2 DEF UsesOnlyLiving
<1> QED BY <1>3, Invariance, PTL

-----------------------------------------------------------------------------
(* The refinement of ClientRegistry: what the messages not handled yet make *)
(* of the map, and how a step changes them.                                *)

LEMMA PendingIs ==
    ASSUME TypeOK
    PROVE  /\ Len(Pending) \in Nat /\ Len(mailbox) \in Nat /\ Len(hand) \in {0, 1}
           /\ Len(Pending) = Len(hand) + Len(mailbox)
           /\ \A i \in 1 .. Len(Pending) :
                  Pending[i] = IF i \leq Len(hand) THEN hand[i] ELSE mailbox[i - Len(hand)]
<1>1. hand \in Seq(Message) /\ mailbox \in Seq(Message) /\ Len(hand) \leq 1
  BY DEF TypeOK
<1>2. Len(mailbox) \in Nat /\ Len(hand) \in Nat
  BY <1>1, LenProperties
<1>3. /\ Len(Pending) = Len(hand) + Len(mailbox)
      /\ \A i \in 1 .. Len(hand) + Len(mailbox) :
             Pending[i] = IF i \leq Len(hand) THEN hand[i] ELSE mailbox[i - Len(hand)]
  BY <1>1, ConcatProperties DEF Pending
<1>4. Len(hand) \in {0, 1}
  <2>1. \A n \in Nat : n \leq 1 => n \in {0, 1}
    OBVIOUS
  <2> QED BY <1>1, <1>2, <2>1, Zenon
<1>5. Len(Pending) \in Nat
  BY <1>2, <1>3
<1>6. \A i \in 1 .. Len(Pending) :
          Pending[i] = IF i \leq Len(hand) THEN hand[i] ELSE mailbox[i - Len(hand)]
  BY <1>3
<1> QED BY <1>2, <1>3, <1>4, <1>5, <1>6

(* The first ones stay where they are.                                     *)
FirstStay == \A i \in 1 .. Len(Pending) : Pending'[i] = Pending[i]

Posted(m) ==
    /\ Len(Pending)' = Len(Pending) + 1
    /\ FirstStay /\ Pending'[Len(Pending) + 1] = m

NoneMoves == Len(Pending)' = Len(Pending) /\ FirstStay

FirstLeaves ==
    /\ Len(Pending) # 0 /\ Len(Pending)' = Len(Pending) - 1
    /\ \A i \in 1 .. Len(Pending) - 1 : Pending'[i] = Pending[i + 1]

LEMMA PostedPending ==
    ASSUME TypeOK, NEW m \in Message, mailbox' = Append(mailbox, m), UNCHANGED hand
    PROVE  Posted(m)
<1>1. mailbox \in Seq(Message) /\ mailbox' \in Seq(Message) /\ hand \in Seq(Message)
  BY AppendQueue DEF TypeOK
<1>2. /\ Len(mailbox') = Len(mailbox) + 1 /\ Len(mailbox) \in Nat
      /\ \A i \in 1 .. Len(mailbox) : mailbox'[i] = mailbox[i]
      /\ mailbox'[Len(mailbox) + 1] = m
  BY <1>1, AppendQueue
<1>3. /\ Len(Pending)' = Len(hand) + Len(mailbox')
      /\ \A i \in 1 .. Len(hand) + Len(mailbox') :
             Pending'[i] = IF i \leq Len(hand) THEN hand[i] ELSE mailbox'[i - Len(hand)]
  BY <1>1, ConcatProperties DEF Pending
<1> QED BY <1>2, <1>3, PendingIs DEF Posted, FirstStay

LEMMA NotPosted == ASSUME UNCHANGED << mailbox, hand >> PROVE NoneMoves
BY DEF NoneMoves, FirstStay, Pending

LEMMA GotPending ==
    ASSUME IndInv, Get
    PROVE  NoneMoves
<1>1. /\ mailbox \in Seq(Message) /\ mailbox # << >> /\ mailbox' = Tail(mailbox)
      /\ hand = << >> /\ hand' = << Head(mailbox) >>
  BY DEF IndInv, TypeOK, HandInv, Get
<1>2. /\ Len(mailbox) \in Nat \ {0} /\ Head(mailbox) \in Message /\ Head(mailbox) = mailbox[1]
      /\ mailbox' \in Seq(Message) /\ Len(mailbox') = Len(mailbox) - 1
      /\ \A i \in 1 .. Len(mailbox) - 1 : mailbox'[i] = mailbox[i + 1]
  BY <1>1, TailQueue
<1>3. hand' \in Seq(Message) /\ Len(hand') = 1 /\ hand'[1] = mailbox[1] /\ Len(hand) = 0
  BY <1>1, <1>2
<1>4. /\ Len(Pending)' = Len(hand') + Len(mailbox')
      /\ \A i \in 1 .. Len(hand') + Len(mailbox') :
             Pending'[i] = IF i \leq Len(hand') THEN hand'[i] ELSE mailbox'[i - Len(hand')]
  BY <1>2, <1>3, ConcatProperties DEF Pending
<1>5. \A i \in 1 .. Len(mailbox) : Pending'[i] = mailbox[i]
  <2> SUFFICES ASSUME NEW i \in 1 .. Len(mailbox) PROVE Pending'[i] = mailbox[i]
    OBVIOUS
  <2>1. CASE i = 1
    BY <1>2, <1>3, <1>4, <2>1
  <2>2. CASE i # 1
    <3>1. i - 1 \in 1 .. Len(mailbox) - 1 /\ (i - 1) + 1 = i
      BY <1>2, <2>2
    <3> QED BY <1>2, <1>3, <1>4, <2>2, <3>1
  <2> QED BY <2>1, <2>2
<1>6. Len(Pending) = Len(mailbox) /\ \A i \in 1 .. Len(mailbox) : Pending[i] = mailbox[i]
  BY <1>2, <1>3, PendingIs DEF IndInv
<1> QED BY <1>2, <1>3, <1>4, <1>5, <1>6 DEF NoneMoves, FirstStay

LEMMA HandledPending ==
    ASSUME IndInv, Len(hand) = 1, hand' = << >>, UNCHANGED mailbox
    PROVE  FirstLeaves /\ Pending[1] = hand[1] /\ \A i \in 1 .. Len(mailbox) : Pending'[i] = mailbox[i]
<1>1. mailbox \in Seq(Message) /\ Pending' = << >> \o mailbox
  BY DEF IndInv, TypeOK, Pending
<1>2. Pending' = mailbox /\ Len(mailbox) \in Nat
  BY <1>1, ConcatEmptySeq, LenProperties
<1>3. /\ Len(Pending) = 1 + Len(mailbox)
      /\ \A i \in 1 .. Len(Pending) : Pending[i] = IF i \leq 1 THEN hand[i] ELSE mailbox[i - 1]
  BY PendingIs DEF IndInv
<1>4. Len(Pending)' = Len(mailbox)
  BY <1>2
<1>5. \A i \in 1 .. Len(Pending) - 1 : Pending'[i] = Pending[i + 1]
  <2> SUFFICES ASSUME NEW i \in 1 .. Len(mailbox) PROVE mailbox[i] = Pending[i + 1]
    BY <1>2, <1>3
  <2>1. i + 1 \in 1 .. Len(Pending) /\ ~(i + 1 \leq 1) /\ (i + 1) - 1 = i
    BY <1>2, <1>3
  <2> QED BY <1>3, <2>1
<1> QED BY <1>2, <1>3, <1>4, <1>5 DEF FirstLeaves

-----------------------------------------------------------------------------
(* What the registry's clients are, after a step.                          *)

LEMMA AfterStays ==
    ASSUME TypeOK, FirstStay, UNCHANGED m_mapClient, NEW n \in 0 .. Len(Pending)
    PROVE  After(n)' = After(n)
<1>1. \A i \in 1 .. n : i \in 1 .. Len(Pending) /\ \A j \in i .. n : j \in 1 .. Len(Pending)
  BY PendingIs
<1> QED BY <1>1 DEF After, FirstStay, Adds, Deletes

LEMMA AfterPosted ==
    ASSUME TypeOK, NEW m, Posted(m), UNCHANGED m_mapClient
    PROVE  /\ \A c \in Clients :
                  c \in AfterAll' <=> (c \in AfterAll \/ Adds(m, c)) /\ ~Deletes(m, c)
           /\ AfterAll' \subseteq Clients /\ AfterAll \subseteq Clients
<1>0. PICK L \in Nat : L = Len(Pending)
  BY PendingIs
<1>1. L \in Nat /\ AfterAll' = After(L + 1)' /\ AfterAll = After(L)
  <2>1. Len(Pending)' = L + 1
    BY <1>0 DEF Posted
  <2> QED BY <1>0, <2>1 DEF AfterAll, After
<1>2. /\ \A i \in 1 .. L : Pending'[i] = Pending[i] /\ i \in 1 .. L + 1
      /\ Pending'[L + 1] = m /\ L + 1 \in 1 .. L + 1
      /\ \A i \in 1 .. L + 1 : i \in 1 .. L \/ i = L + 1
      /\ \A i \in 1 .. L : /\ L + 1 \in i .. L + 1
                           /\ \A j \in i .. L : j \in 1 .. L /\ j \in i .. L + 1
                           /\ \A j \in i .. L + 1 : j \in i .. L \/ j = L + 1
      /\ \A j \in L + 1 .. L + 1 : j = L + 1
  BY <1>0 DEF Posted, FirstStay
<1>3. ASSUME NEW c \in Clients
      PROVE  c \in After(L + 1)' <=> (c \in After(L) \/ Adds(m, c)) /\ ~Deletes(m, c)
  <2>1. Adds(m, c) => ~Deletes(m, c)
    BY DEF Adds, Deletes
  <2>2. c \in After(L + 1)' => (c \in After(L) \/ Adds(m, c)) /\ ~Deletes(m, c)
    BY <1>2 DEF After, Adds, Deletes
  <2>3. c \in After(L) /\ ~Deletes(m, c) => c \in After(L + 1)'
    BY <1>2 DEF After, Adds, Deletes
  <2>4. Adds(m, c) => c \in After(L + 1)'
    BY <1>2 DEF After, Adds, Deletes
  <2> QED BY <2>1, <2>2, <2>3, <2>4
<1> QED BY <1>1, <1>3 DEF After

(* The first message has left, and done to the map what it says.           *)
Applied ==
    /\ m_mapClient' \subseteq Clients
    /\ \A c \in Clients :
           c \in m_mapClient'
               <=> (c \in m_mapClient \/ Adds(Pending[1], c)) /\ ~Deletes(Pending[1], c)

LEMMA AfterHandled ==
    ASSUME TypeOK, FirstLeaves, Applied, NEW n \in 0 .. Len(Pending) - 1
    PROVE  After(n)' = After(n + 1)
<1>1. Len(Pending) \in Nat \ {0} /\ n \in Nat
  BY PendingIs DEF FirstLeaves
<1>2. /\ \A i \in 1 .. n : Pending'[i] = Pending[i + 1] /\ i + 1 \in 1 .. n + 1
      /\ 1 \in 1 .. n + 1
      /\ \A i \in 1 .. n + 1 : i = 1 \/ (i - 1 \in 1 .. n /\ (i - 1) + 1 = i)
  BY <1>1 DEF FirstLeaves
<1>3. \A i \in 1 .. n : \A j \in i .. n : j \in 1 .. n /\ j + 1 \in i + 1 .. n + 1
  BY <1>1
<1>4. \A i \in 1 .. n : \A j \in i + 1 .. n + 1 : /\ j - 1 \in i .. n /\ j - 1 \in 1 .. n
                                                 /\ (j - 1) + 1 = j
  BY <1>1
<1>5. ASSUME NEW c \in Clients, NEW i \in 1 .. n
      PROVE  (\A j \in i .. n : ~Deletes(Pending'[j], c))
                 <=> (\A j \in i + 1 .. n + 1 : ~Deletes(Pending[j], c))
  <2>1. ASSUME \A j \in i .. n : ~Deletes(Pending'[j], c), NEW j \in i + 1 .. n + 1
        PROVE  ~Deletes(Pending[j], c)
    <3>1. j - 1 \in i .. n /\ Pending'[j - 1] = Pending[j]
      BY <1>2, <1>4
    <3> QED BY <2>1, <3>1
  <2>2. ASSUME \A j \in i + 1 .. n + 1 : ~Deletes(Pending[j], c), NEW j \in i .. n
        PROVE  ~Deletes(Pending'[j], c)
    <3>1. j + 1 \in i + 1 .. n + 1 /\ Pending'[j] = Pending[j + 1]
      BY <1>2, <1>3
    <3> QED BY <2>2, <3>1
  <2> QED BY <2>1, <2>2
<1>6. ASSUME NEW c \in Clients
      PROVE  (\A j \in 1 .. n : ~Deletes(Pending'[j], c))
                 <=> (\A j \in 1 + 1 .. n + 1 : ~Deletes(Pending[j], c))
  <2>1. CASE n = 0
    <3>1. 1 .. n = {} /\ 1 + 1 .. n + 1 = {}
      BY <2>1
    <3> QED BY <3>1
  <2>2. CASE n # 0
    <3>1. 1 \in 1 .. n
      BY <1>1, <2>2
    <3> QED BY <1>5, <3>1
  <2> QED BY <2>1, <2>2
<1>7. ASSUME NEW c \in Clients
      PROVE  c \in After(n)' <=> c \in After(n + 1)
  <2> DEFINE Kept(i) == \A j \in i .. n + 1 : ~Deletes(Pending[j], c)
  <2>1. Kept(1) <=> ~Deletes(Pending[1], c) /\ Kept(1 + 1)
    <3>1. \A j \in 1 .. n + 1 : j = 1 \/ j \in 1 + 1 .. n + 1
      BY <1>1
    <3>2. \A j \in 1 + 1 .. n + 1 : j \in 1 .. n + 1
      BY <1>1
    <3> QED BY <1>2, <3>1, <3>2
  <2>2. c \in After(n + 1) <=> \/ c \in m_mapClient /\ Kept(1)
                               \/ \E i \in 1 .. n + 1 : Adds(Pending[i], c) /\ Kept(i)
    BY DEF After
  <2>3. c \in After(n)' <=> \/ c \in m_mapClient' /\ Kept(1 + 1)
                            \/ \E i \in 1 .. n : Adds(Pending[i + 1], c) /\ Kept(i + 1)
    BY <1>2, <1>5, <1>6 DEF After, Adds, Deletes
  <2>4. (\E i \in 1 .. n + 1 : Adds(Pending[i], c) /\ Kept(i))
            <=> \/ Adds(Pending[1], c) /\ Kept(1)
                \/ \E i \in 1 .. n : Adds(Pending[i + 1], c) /\ Kept(i + 1)
    <3> HIDE DEF Kept
    <3> QED BY <1>2
  <2>5. c \in m_mapClient' <=> (c \in m_mapClient \/ Adds(Pending[1], c)) /\ ~Deletes(Pending[1], c)
    BY DEF Applied
  <2> HIDE DEF Kept
  <2> QED BY <2>1, <2>2, <2>3, <2>4, <2>5
<1> QED BY <1>7 DEF After


-----------------------------------------------------------------------------
(* The answers.                                                            *)

(* A question has one message at most, and none once it is answered.       *)
LEMMA AskedOnce ==
    ASSUME IndInv, NEW q \in Queries
    PROVE  /\ \A i, j \in Asked(q) : i = j
           /\ Asked(q) # {} => call[q] \in {"wait", "failed"} /\ q \notin event
<1>1. ASSUME NEW i \in Asked(q)
      PROVE  \/ i = 1 /\ Len(hand) = 1 /\ hand[1].query = q
             \/ i - Len(hand) \in 1 .. Len(mailbox) /\ mailbox[i - Len(hand)].query = q
  <2>1. i \in 1 .. Len(Pending) /\ Pending[i].query = q
    BY DEF Asked
  <2>2. CASE i \leq Len(hand)
    BY <2>1, <2>2, PendingIs DEF IndInv
  <2>3. CASE ~(i \leq Len(hand))
    BY <2>1, <2>3, PendingIs DEF IndInv
  <2> QED BY <2>2, <2>3
<1>2. ASSUME NEW i \in Asked(q), NEW j \in Asked(q) PROVE i = j
  <2>1. i \in Nat /\ j \in Nat /\ Len(hand) \in {0, 1}
    BY PendingIs DEF Asked, IndInv
  <2>2. CASE i - Len(hand) \in 1 .. Len(mailbox) /\ mailbox[i - Len(hand)].query = q
    <3>1. CASE j - Len(hand) \in 1 .. Len(mailbox) /\ mailbox[j - Len(hand)].query = q
      <4>1. i - Len(hand) = j - Len(hand)
        BY <2>2, <3>1, OneInPort
      <4> QED BY <2>1, <4>1
    <3>2. CASE j = 1 /\ Len(hand) = 1 /\ hand[1].query = q
      BY <2>2, <3>2 DEF IndInv, MessageInv
    <3> QED BY <1>1, <3>1, <3>2
  <2>3. CASE i = 1 /\ Len(hand) = 1 /\ hand[1].query = q
    <3>1. CASE j - Len(hand) \in 1 .. Len(mailbox) /\ mailbox[j - Len(hand)].query = q
      BY <2>3, <3>1 DEF IndInv, MessageInv
    <3> QED BY <1>1, <2>3, <3>1
  <2> QED BY <1>1, <2>2, <2>3
<1>3. ASSUME NEW i \in Asked(q) PROVE call[q] \in {"wait", "failed"} /\ q \notin event
  <2>1. \/ 1 \in 1 .. Len(hand) /\ hand[1].query = q
        \/ \E k \in 1 .. Len(mailbox) : mailbox[k].query = q
    BY <1>1
  <2> QED BY <2>1 DEF IndInv, MessageInv, Valid
<1> QED BY <1>2, <1>3

LEMMA PlaceIs ==
    ASSUME NEW q, Asked(q) # {}, TypeOK
    PROVE  Place(q) \in Asked(q) /\ Place(q) \in 1 .. Len(Pending) /\ Place(q) - 1 \in 0 .. Len(Pending)
<1>1. Place(q) \in Asked(q)
  BY Zenon DEF Place
<1>2. Place(q) \in 1 .. Len(Pending)
  BY <1>1 DEF Asked
<1> QED BY <1>1, <1>2, PendingIs

LEMMA AskedStays ==
    ASSUME TypeOK, NEW q \in Queries, FirstStay,
           \/ Len(Pending)' = Len(Pending)
           \/ Len(Pending)' = Len(Pending) + 1 /\ Pending'[Len(Pending) + 1].query # q
    PROVE  Asked(q)' = Asked(q)
<1>1. Len(Pending) \in Nat
  BY PendingIs
<1> QED BY <1>1 DEF Asked, FirstStay

(* An answer depends on the messages before the question only.             *)
Waits(q) == call[q] \in {"wait", "OK"}

LEMMA AnswerStays ==
    ASSUME TypeOK, NEW q, FirstStay, UNCHANGED m_mapClient, Asked(q)' = Asked(q),
           Waits(q)' = Waits(q), wanted'[q] = wanted[q],
           Asked(q) = {} => result'[q] = result[q]
    PROVE  Answer(q)' = Answer(q)
<1>1. Place(q)' = Place(q)
  BY Zenon DEF Place
<1>2. ASSUME Asked(q) # {} PROVE After(Place(q) - 1)' = After(Place(q) - 1)
  <2>1. PICK n \in 0 .. Len(Pending) : n = Place(q) - 1
    BY <1>2, PlaceIs
  <2>2. After(n)' = After(n)
    BY <2>1, AfterStays
  <2>3. After(Place(q) - 1)' = After(n)'
    BY <1>1, <2>1 DEF After
  <2> QED BY <2>1, <2>2, <2>3
<1> QED BY <1>2, Zenon DEF Answer, Waits

LEMMA AnswerMoves ==
    ASSUME IndInv, NEW q \in Queries, FirstLeaves, Applied, Pending[1].query # q,
           UNCHANGED << call, wanted, result >>
    PROVE  Answer(q)' = Answer(q)
<1>1. TypeOK /\ Len(Pending) \in Nat \ {0} /\ Len(Pending)' = Len(Pending) - 1
  BY PendingIs DEF IndInv, FirstLeaves
<1>2. ASSUME NEW i \in Asked(q)' PROVE i \in 1 .. Len(Pending) - 1 /\ i + 1 \in Asked(q)
  <2>1. i \in 1 .. Len(Pending) - 1 /\ Pending'[i].query = q
    BY <1>1 DEF Asked
  <2>2. i + 1 \in 1 .. Len(Pending) /\ Pending'[i] = Pending[i + 1]
    BY <1>1, <2>1 DEF FirstLeaves
  <2> QED BY <2>1, <2>2 DEF Asked
<1>3. ASSUME NEW i \in Asked(q) PROVE i - 1 \in Asked(q)'
  <2>1. i \in 1 .. Len(Pending) /\ i # 1 /\ Pending[i].query = q
    BY DEF Asked
  <2>2. i - 1 \in 1 .. Len(Pending) - 1 /\ (i - 1) + 1 = i
    BY <1>1, <2>1
  <2>3. Pending'[i - 1] = Pending[i]
    BY <2>2 DEF FirstLeaves
  <2> QED BY <1>1, <2>1, <2>2, <2>3 DEF Asked
<1>4. CASE Asked(q) = {}
  <2>1. Asked(q)' = {}
    BY <1>2, <1>4
  <2> QED BY <1>4, <2>1 DEF Answer
<1>5. CASE Asked(q) # {}
  <2>1. PICK p : p = Place(q)'
    OBVIOUS
  <2>2. Asked(q)' # {} /\ p \in Asked(q)'
    <3>1. Asked(q)' # {}
      BY <1>3, <1>5
    <3> QED BY <2>1, <3>1, Zenon DEF Place
  <2>3. p \in 1 .. Len(Pending) - 1 /\ p + 1 \in Asked(q)
    BY <1>2, <2>2
  <2>4. p + 1 = Place(q)
    BY <1>1, <1>5, <2>3, PlaceIs, AskedOnce
  <2>5. PICK n \in 0 .. Len(Pending) - 1 : n = p - 1 /\ n + 1 = Place(q) - 1
    <3>1. p - 1 \in 0 .. Len(Pending) - 1 /\ (p - 1) + 1 = (p + 1) - 1
      BY <1>1, <2>3
    <3> QED BY <2>4, <3>1
  <2>6. After(n)' = After(n + 1)
    BY <1>1, <2>5, AfterHandled
  <2>7. After(Place(q) - 1)' = After(n)'
    BY <2>1, <2>5 DEF After
  <2>8. After(Place(q) - 1)' = After(Place(q) - 1)
    BY <2>5, <2>6, <2>7
  <2> QED BY <1>5, <2>2, <2>8, Zenon DEF Answer
<1> QED BY <1>4, <1>5

-----------------------------------------------------------------------------
(* The steps.  What the actor has written is the answer.                   *)
WrittenInv ==
    actor = "signal" /\ call[hand[1].query] = "wait" =>
        result[hand[1].query] = m_mapClient \cap wanted[hand[1].query]

LEMMA WrittenNext == ASSUME IndInv, WrittenInv, [Next]_vars PROVE WrittenInv'
<1> USE DEF WrittenInv, callerVars, actorVars
<1>1. ASSUME NEW c \in Clients, AddClient(c) \/ DelClient(c) PROVE WrittenInv'
  BY <1>1 DEF AddClient, DelClient
<1>2. ASSUME NEW q \in Queries, GetClient(q) \/ GetClients(q) PROVE WrittenInv'
  <2>1. PICK S : Query(q, S)
    BY <1>2 DEF GetClient, GetClients
  <2>2. CASE actor = "signal"
    <3>1. hand[1].query \in Queries /\ call[hand[1].query] # "none"
      BY <2>2, InHand DEF Valid, IndInv, HandInv
    <3> QED BY <2>1, <3>1 DEF Query, IndInv, TypeOK
  <2> QED BY <2>1, <2>2 DEF Query
<1>3. ASSUME NEW q \in Queries, QuerySignalled(q) \/ QueryTimesOut(q) PROVE WrittenInv'
  <2>1. PICK o \in {"OK", "failed"} : Returns(q, o)
    BY <1>3 DEF QuerySignalled, QueryTimesOut
  <2> QED BY <2>1 DEF Returns, IndInv, TypeOK
<1>4. CASE ClientMapMain
  <2>1. CASE HandleQuery
    <3>1. hand[1].query \in Queries
      BY <2>1, InHand DEF HandleQuery, Valid
    <3> QED BY <2>1, <3>1 DEF HandleQuery, WriteAnswer, UseDeadFrame, IndInv, TypeOK
  <2>2. CASE SignalQuery
    BY <2>2 DEF SignalQuery, UseDeadFrame
  <2> QED BY <1>4, <2>1, <2>2 DEF ClientMapMain, LoopTest, GetFails, Get, HandleChange, Handled
<1>5. CASE DestroyPost \/ DestructorSteps
  BY <1>5 DEF DestroyPost, DestructorSteps, DestroyInvalidate, StopJoins, StopTerminates, DestroyClose
<1>6. CASE UNCHANGED vars
  BY <1>6 DEF vars
<1> QED BY <1>1, <1>2, <1>3, <1>4, <1>5, <1>6 DEF Next

RegistryStays ==
    /\ AfterAll' = AfterAll /\ UNCHANGED << call, wanted >>
    /\ \A q \in Queries : Answer(q)' = Answer(q)

LEMMA Stutters == RegistryStays => UNCHANGED Registry!vars
BY DEF RegistryStays, Registry!vars

(* A step that moves no message.                                           *)
LEMMA QuietStep ==
    ASSUME TypeOK, NoneMoves, UNCHANGED << m_mapClient, call, wanted >>,
           \A q \in Queries : Asked(q) = {} => result'[q] = result[q]
    PROVE  RegistryStays
<1>1. AfterAll' = AfterAll
  <2>1. PICK n \in 0 .. Len(Pending) : n = Len(Pending)
    BY PendingIs
  <2>2. After(n)' = After(n)
    BY AfterStays DEF NoneMoves
  <2>3. AfterAll' = After(n)'
    BY <2>1 DEF AfterAll, After, NoneMoves
  <2> QED BY <2>1, <2>2, <2>3 DEF AfterAll
<1>2. ASSUME NEW q \in Queries PROVE Answer(q)' = Answer(q)
  <2>1. Asked(q)' = Asked(q)
    BY AskedStays DEF NoneMoves
  <2> QED BY <2>1, AnswerStays DEF NoneMoves, Waits
<1> QED BY <1>1, <1>2 DEF RegistryStays

(* A message that asks nothing is posted.                                  *)
LEMMA PostStep ==
    ASSUME TypeOK, NEW m \in Message, m.query \notin Queries, Post(m),
           UNCHANGED << hand, m_mapClient, call, wanted, result >>
    PROVE  \/ RegistryStays
           \/ /\ UNCHANGED << call, wanted >> /\ \A q \in Queries : Answer(q)' = Answer(q)
              /\ AfterAll' \subseteq Clients /\ AfterAll \subseteq Clients
              /\ \A c \in Clients :
                     c \in AfterAll' <=> (c \in AfterAll \/ Adds(m, c)) /\ ~Deletes(m, c)
<1>1. CASE mailbox' = mailbox
  BY <1>1, NotPosted, QuietStep
<1>2. CASE mailbox' = Append(mailbox, m)
  <2>1. Posted(m)
    BY <1>2, PostedPending
  <2>2. ASSUME NEW q \in Queries PROVE Answer(q)' = Answer(q)
    <3>1. Asked(q)' = Asked(q)
      BY <2>1, AskedStays DEF Posted
    <3> QED BY <2>1, <3>1, AnswerStays DEF Posted, Waits
  <2> QED BY <2>1, <2>2, AfterPosted
<1> QED BY <1>1, <1>2 DEF Post


LEMMA AddStep ==
    ASSUME IndInv, NEW c \in Clients, AddClient(c)
    PROVE  [Registry!Next]_(Registry!vars)
<1>1. Add(c) \in Message /\ Add(c).query \notin Queries
  BY MessageTypes, ClientMapAssumption DEF Add
<1>2. Post(Add(c)) /\ UNCHANGED << hand, m_mapClient, call, wanted, result >> /\ TypeOK
  BY DEF AddClient, IndInv, actorVars
<1>3. CASE RegistryStays
  BY <1>3, Stutters
<1>4. CASE /\ UNCHANGED << call, wanted >> /\ \A q \in Queries : Answer(q)' = Answer(q)
           /\ AfterAll' \subseteq Clients /\ AfterAll \subseteq Clients
           /\ \A d \in Clients :
                  d \in AfterAll' <=> (d \in AfterAll \/ Adds(Add(c), d)) /\ ~Deletes(Add(c), d)
  <2>1. \A d \in Clients : (Adds(Add(c), d) <=> d = c) /\ ~Deletes(Add(c), d)
    BY DEF Adds, Deletes, Add
  <2>2. AfterAll' = AfterAll \cup {c}
    BY <1>4, <2>1
  <2>3. Registry!Add(c)
    BY <1>4, <2>2 DEF Registry!Add
  <2> QED BY <2>3 DEF Registry!Next
<1> QED BY <1>1, <1>2, <1>3, <1>4, PostStep

LEMMA DelStep ==
    ASSUME IndInv, NEW c \in Clients, DelClient(c)
    PROVE  [Registry!Next]_(Registry!vars)
<1>1. Del(c) \in Message /\ Del(c).query \notin Queries
  BY MessageTypes, ClientMapAssumption DEF Del
<1>2. Post(Del(c)) /\ UNCHANGED << hand, m_mapClient, call, wanted, result >> /\ TypeOK
  BY DEF DelClient, IndInv, actorVars
<1>3. CASE RegistryStays
  BY <1>3, Stutters
<1>4. CASE /\ UNCHANGED << call, wanted >> /\ \A q \in Queries : Answer(q)' = Answer(q)
           /\ AfterAll' \subseteq Clients /\ AfterAll \subseteq Clients
           /\ \A d \in Clients :
                  d \in AfterAll' <=> (d \in AfterAll \/ Adds(Del(c), d)) /\ ~Deletes(Del(c), d)
  <2>1. \A d \in Clients : ~Adds(Del(c), d) /\ (Deletes(Del(c), d) <=> d = c)
    BY DEF Adds, Deletes, Del
  <2>2. AfterAll' = AfterAll \ {c}
    BY <1>4, <2>1
  <2>3. Registry!Delete(c)
    BY <1>4, <2>2 DEF Registry!Delete
  <2> QED BY <2>3 DEF Registry!Next
<1> QED BY <1>1, <1>2, <1>3, <1>4, PostStep

LEMMA DestroyStep == ASSUME IndInv, DestroyPost PROVE [Registry!Next]_(Registry!vars)
<1>1. /\ Quit \in Message /\ Quit.query \notin Queries
      /\ \A c \in Clients : ~Adds(Quit, c) /\ ~Deletes(Quit, c)
  BY MessageTypes, ClientMapAssumption DEF Quit, Adds, Deletes
<1>2. Post(Quit) /\ UNCHANGED << hand, m_mapClient, call, wanted, result >> /\ TypeOK
  BY DEF DestroyPost, IndInv, actorVars, callerVars
<1>3. RegistryStays
  BY <1>1, <1>2, PostStep DEF RegistryStays
<1> QED BY <1>3, Stutters

LEMMA AskStep ==
    ASSUME IndInv, NEW q \in Queries, NEW S, S = Clients \/ \E c \in Clients : S = {c},
           Query(q, S)
    PROVE  [Registry!Next]_(Registry!vars)
<1>1. /\ TypeOK /\ call[q] = "none" /\ UNCHANGED << hand, m_mapClient, result >>
      /\ call \in [Queries -> {"none", "wait", "OK", "failed"}]
      /\ wanted \in [Queries -> SUBSET Clients]
  BY DEF IndInv, TypeOK, Query, actorVars
<1>2. Asked(q) = {} /\ Answer(q) = {}
  BY <1>1, AskedOnce DEF Answer
<1>3. CASE mailbox' = Append(mailbox, Ask(q)) /\ call' = [call EXCEPT ![q] = "wait"]
           /\ wanted' = [wanted EXCEPT ![q] = S]
  <2>1. Posted(Ask(q))
    BY <1>1, <1>3, MessageTypes, PostedPending
  <2>2. ASSUME NEW p \in Queries, p # q PROVE Answer(p)' = Answer(p)
    <3>1. Ask(q).query = q
      BY DEF Ask
    <3>2. Asked(p)' = Asked(p)
      BY <1>1, <2>1, <2>2, <3>1, AskedStays DEF Posted
    <3>3. call'[p] = call[p] /\ wanted'[p] = wanted[p]
      BY <1>1, <1>3, <2>2
    <3> QED BY <1>1, <2>1, <3>2, <3>3, AnswerStays DEF Posted, Waits
  <2>3. PICK n \in 0 .. Len(Pending) : n = Len(Pending) /\ n \in Nat /\ n + 1 = Len(Pending)'
    BY <1>1, <2>1, PendingIs DEF Posted
  <2>4. Asked(q)' = {n + 1}
    <3>1. \A i \in 1 .. n + 1 : i = n + 1 \/ i \in 1 .. n
      BY <2>3
    <3>2. n + 1 \in 1 .. n + 1 /\ Pending'[n + 1] = Ask(q)
      BY <2>1, <2>3 DEF Posted
    <3>3. \A i \in 1 .. n : Pending'[i].query # q
      BY <1>2, <2>1, <2>3 DEF Posted, FirstStay, Asked
    <3>4. Ask(q).query = q
      BY DEF Ask
    <3> QED BY <2>3, <3>1, <3>2, <3>3, <3>4 DEF Asked
  <2>5. Place(q)' = n + 1
    BY <2>4 DEF Place
  <2>6. After(n)' = AfterAll
    BY <1>1, <2>1, <2>3, AfterStays DEF Posted, AfterAll
  <2>7. After(Place(q) - 1)' = AfterAll
    <3>1. (n + 1) - 1 = n
      BY <2>3
    <3>2. After(Place(q) - 1)' = After(n)'
      BY <2>5, <3>1 DEF After
    <3> QED BY <2>6, <3>2
  <2>8. call'[q] = "wait" /\ wanted'[q] = S
    BY <1>1, <1>3
  <2>9. Answer(q)' = AfterAll \cap S
    BY <2>4, <2>7, <2>8 DEF Answer
  <2>10. AfterAll' = AfterAll
    <3>1. \A c \in Clients : ~Adds(Ask(q), c) /\ ~Deletes(Ask(q), c)
      BY DEF Ask, Adds, Deletes
    <3> QED BY <1>1, <2>1, <3>1, AfterPosted
  <2>11. Registry!Ask(q)
    <3>1. [p \in Queries |-> Answer(p)]' = [[p \in Queries |-> Answer(p)] EXCEPT ![q] = AfterAll \cap S]
      BY <2>2, <2>9
    <3>2. S \in {Clients} \cup {{c} : c \in Clients}
      OBVIOUS
    <3> QED BY <1>1, <1>3, <2>10, <3>1, <3>2 DEF Registry!Ask
  <2> QED BY <2>11 DEF Registry!Next
<1>4. CASE call' = [call EXCEPT ![q] = "failed"] /\ UNCHANGED << mailbox, wanted >>
  <2>1. NoneMoves
    BY <1>1, <1>4, NotPosted
  <2>2. ASSUME NEW p \in Queries PROVE Answer(p)' = Answer(p)
    <3>1. Asked(p)' = Asked(p)
      BY <1>1, <2>1, AskedStays DEF NoneMoves
    <3>2. Waits(p)' = Waits(p)
      BY <1>1, <1>4 DEF Waits
    <3> QED BY <1>1, <1>4, <2>1, <3>1, <3>2, AnswerStays DEF NoneMoves
  <2>3. AfterAll' = AfterAll
    <3>1. Pending' = Pending
      BY <1>1, <1>4 DEF Pending
    <3> QED BY <1>1, <3>1 DEF AfterAll, After
  <2>4. Registry!GiveUp(q)
    <3>1. [p \in Queries |-> Answer(p)]' = [[p \in Queries |-> Answer(p)] EXCEPT ![q] = {}]
      BY <1>2, <2>2
    <3> QED BY <1>1, <1>4, <2>3, <3>1 DEF Registry!GiveUp
  <2> QED BY <2>4 DEF Registry!Next
<1> QED BY <1>3, <1>4 DEF Query

LEMMA ReturnStep ==
    ASSUME IndInv, NEW q \in Queries, QuerySignalled(q) \/ QueryTimesOut(q)
    PROVE  [Registry!Next]_(Registry!vars)
<1>1. PICK o \in {"OK", "failed"} : Returns(q, o)
  BY DEF QuerySignalled, QueryTimesOut
<1>2. /\ TypeOK /\ call[q] = "wait" /\ call' = [call EXCEPT ![q] = o]
      /\ UNCHANGED << hand, mailbox, m_mapClient, result, wanted >>
      /\ call \in [Queries -> {"none", "wait", "OK", "failed"}]
  BY <1>1 DEF IndInv, TypeOK, Returns, actorVars
<1>3. NoneMoves
  BY <1>2, NotPosted
<1>4. ASSUME NEW p \in Queries, p # q \/ o = "OK" PROVE Answer(p)' = Answer(p)
  <2>1. Asked(p)' = Asked(p)
    BY <1>2, <1>3, AskedStays DEF NoneMoves
  <2>2. Waits(p)' = Waits(p)
    BY <1>2, <1>4 DEF Waits
  <2> QED BY <1>2, <1>3, <2>1, <2>2, AnswerStays DEF NoneMoves
<1>5. AfterAll' = AfterAll
  <2>1. Pending' = Pending
    BY <1>2 DEF Pending
  <2> QED BY <1>2, <2>1 DEF AfterAll, After
<1>6. CASE o = "OK"
  <2>1. Registry!Answered(q)
    BY <1>2, <1>4, <1>5, <1>6 DEF Registry!Answered
  <2> QED BY <2>1 DEF Registry!Next
<1>7. CASE o = "failed"
  <2>1. Answer(q)' = {}
    BY <1>2, <1>7 DEF Answer
  <2>2. [p \in Queries |-> Answer(p)]' = [[p \in Queries |-> Answer(p)] EXCEPT ![q] = {}]
    BY <1>4, <2>1
  <2>3. Registry!GiveUp(q)
    BY <1>2, <1>5, <1>7, <2>2 DEF Registry!GiveUp
  <2> QED BY <2>3 DEF Registry!Next
<1> QED BY <1>6, <1>7

(* A message is handled: the map comes to hold what it was to hold.        *)
LEMMA HandledStep ==
    ASSUME IndInv, FirstLeaves, Applied, UNCHANGED << call, wanted >>,
           \A q \in Queries : Answer(q)' = Answer(q)
    PROVE  RegistryStays
<1>1. PICK n \in 0 .. Len(Pending) - 1 : n = Len(Pending) - 1 /\ n + 1 = Len(Pending)
  BY PendingIs DEF FirstLeaves, IndInv
<1>2. After(n)' = After(n + 1)
  BY <1>1, AfterHandled DEF IndInv
<1>3. AfterAll' = After(n)'
  BY <1>1 DEF AfterAll, After, FirstLeaves
<1>4. AfterAll = After(n + 1)
  BY <1>1 DEF AfterAll
<1> QED BY <1>2, <1>3, <1>4 DEF RegistryStays

LEMMA ChangeStep == ASSUME IndInv, HandleChange PROVE RegistryStays
<1>1. /\ Len(hand) = 1 /\ hand' = << >> /\ hand[1] \in Message /\ Valid(hand[1])
      /\ UNCHANGED << mailbox, call, wanted, result >>
  BY InHand DEF HandleChange, Handled, callerVars
<1>2. FirstLeaves /\ Pending[1] = hand[1]
  BY <1>1, HandledPending
<1>3. hand[1].type # "QUERY" /\ hand[1].query \notin Queries
  BY <1>1 DEF HandleChange, Valid
<1>4. Applied
  <2>1. m_mapClient \subseteq Clients
    BY DEF IndInv, TypeOK
  <2> QED BY <1>1, <1>2, <2>1 DEF Applied, Adds, Deletes, HandleChange, Valid
<1>5. \A q \in Queries : Answer(q)' = Answer(q)
  BY <1>1, <1>2, <1>3, <1>4, AnswerMoves
<1> QED BY <1>1, <1>2, <1>4, <1>5, HandledStep

LEMMA WriteStep == ASSUME IndInv, HandleQuery PROVE RegistryStays
<1>1. /\ Len(hand) = 1 /\ hand[1].query \in Queries /\ TypeOK
      /\ UNCHANGED << mailbox, hand, m_mapClient, call, wanted >>
  BY InHand DEF HandleQuery, callerVars, Valid, IndInv
<1>2. 1 \in Asked(hand[1].query)
  BY <1>1, PendingIs DEF Asked
<1>3. \A q \in Queries : Asked(q) = {} => result'[q] = result[q]
  BY <1>1, <1>2 DEF HandleQuery, WriteAnswer, UseDeadFrame, TypeOK
<1> QED BY <1>1, <1>3, NotPosted, QuietStep

LEMMA SignalStep == ASSUME IndInv, WrittenInv, SignalQuery PROVE RegistryStays
<1>1. PICK q \in Queries : q = hand[1].query
  BY InHand DEF SignalQuery, Valid, IndInv, HandInv
<1>2. /\ Len(hand) = 1 /\ hand' = << >> /\ hand[1].type = "QUERY" /\ actor = "signal"
      /\ UNCHANGED << mailbox, m_mapClient, call, wanted, result >> /\ TypeOK
  BY InHand DEF SignalQuery, UseDeadFrame, callerVars, IndInv, HandInv
<1>3. /\ FirstLeaves /\ Pending[1] = hand[1]
      /\ \A i \in 1 .. Len(mailbox) : Pending'[i] = mailbox[i]
  BY <1>2, HandledPending
<1>4. Applied
  BY <1>2, <1>3 DEF Applied, Adds, Deletes, TypeOK
<1>5. ASSUME NEW p \in Queries, p # q PROVE Answer(p)' = Answer(p)
  BY <1>1, <1>2, <1>3, <1>4, <1>5, AnswerMoves
<1>6. Answer(q)' = Answer(q)
  <2>1. 1 \in Asked(q)
    BY <1>1, <1>2, <1>3, PendingIs DEF Asked
  <2>2. Asked(q)' = {}
    <3>1. Len(Pending)' = Len(mailbox)
      BY <1>2, <1>3, PendingIs DEF FirstLeaves
    <3>2. \A i \in 1 .. Len(mailbox) : mailbox[i].query # q
      BY <1>1, <1>2 DEF IndInv, MessageInv
    <3> QED BY <1>3, <3>1, <3>2 DEF Asked
  <2>3. call[q] \in {"wait", "failed"}
    BY <2>1, AskedOnce
  <2>4. CASE call[q] = "failed"
    BY <1>2, <2>4 DEF Answer
  <2>5. CASE call[q] = "wait"
    <3>1. result[q] = m_mapClient \cap wanted[q]
      BY <1>1, <1>2, <2>5 DEF WrittenInv
    <3>2. Place(q) = 1
      BY <2>1, <1>2, PlaceIs, AskedOnce
    <3>3. After(Place(q) - 1) = m_mapClient
      <4>1. 1 .. (Place(q) - 1) = {}
        BY <3>2
      <4>2. m_mapClient \subseteq Clients
        BY <1>2 DEF TypeOK
      <4> QED BY <4>1, <4>2 DEF After
    <3>4. Answer(q) = m_mapClient \cap wanted[q]
      BY <2>1, <2>5, <3>3 DEF Answer
    <3>5. Answer(q)' = result[q]
      BY <1>2, <2>2, <2>5 DEF Answer
    <3> QED BY <3>1, <3>4, <3>5
  <2> QED BY <2>3, <2>4, <2>5
<1> QED BY <1>2, <1>3, <1>4, <1>5, <1>6, HandledStep

LEMMA RegistryStep ==
    ASSUME IndInv, WrittenInv, [Next]_vars
    PROVE  [Registry!Next]_(Registry!vars)
<1>1. ASSUME NEW c \in Clients, AddClient(c) \/ DelClient(c)
      PROVE  [Registry!Next]_(Registry!vars)
  BY <1>1, AddStep, DelStep
<1>2. ASSUME NEW q \in Queries, GetClient(q) \/ GetClients(q)
      PROVE  [Registry!Next]_(Registry!vars)
  BY <1>2, AskStep DEF GetClient, GetClients
<1>3. ASSUME NEW q \in Queries, QuerySignalled(q) \/ QueryTimesOut(q)
      PROVE  [Registry!Next]_(Registry!vars)
  BY <1>3, ReturnStep
<1>4. CASE LoopTest \/ GetFails \/ DestructorSteps \/ UNCHANGED vars
  <2>1. UNCHANGED << mailbox, hand, m_mapClient, call, wanted, result >>
    BY <1>4 DEF LoopTest, GetFails, DestructorSteps, DestroyInvalidate, StopJoins,
                StopTerminates, DestroyClose, actorVars, callerVars, vars
  <2> QED BY <2>1, NotPosted, QuietStep, Stutters DEF IndInv
<1>5. CASE Get
  <2>1. UNCHANGED << m_mapClient, call, wanted, result >>
    BY <1>5 DEF Get, callerVars
  <2> QED BY <1>5, <2>1, GotPending, QuietStep, Stutters DEF IndInv
<1>6. CASE HandleChange \/ HandleQuery \/ SignalQuery
  BY <1>6, ChangeStep, WriteStep, SignalStep, Stutters
<1> QED BY <1>1, <1>2, <1>3, <1>4, <1>5, <1>6, DestroyStep DEF Next, ClientMapMain

LEMMA RegistryInit == Init => Registry!Init
<1> SUFFICES ASSUME Init PROVE Registry!Init
  OBVIOUS
<1>1. Len(Pending) = 0
  BY InitInv, PendingIs DEF Init, IndInv
<1>2. AfterAll = {}
  <2>1. 1 .. Len(Pending) = {}
    BY <1>1
  <2> QED BY <2>1 DEF Init, AfterAll, After
<1>3. \A q \in Queries : Answer(q) = {}
  BY DEF Init, Answer
<1> QED BY <1>2, <1>3 DEF Init, Registry!Init

(* To its callers the map is ClientRegistry, for any clients and queries,  *)
(* any posts that fail, calls that give up and the destructor at any time: *)
(* a change takes effect when it is posted, an answer is that of the moment *)
(* the question was posted.                                                *)
THEOREM MapImplementsRegistry == Spec => ImplementsRegistry
<1>1. Init => WrittenInv
  BY DEF Init, WrittenInv
<1>2. Spec => [](IndInv /\ WrittenInv)
  BY <1>1, InitInv, NextInv, WrittenNext, PTL DEF Spec
<1>3. Spec => [][Registry!Next]_(Registry!vars)
  BY <1>2, RegistryStep, PTL DEF Spec
<1> QED BY <1>3, RegistryInit, PTL DEF Spec, ImplementsRegistry, Registry!Spec
=============================================================================
