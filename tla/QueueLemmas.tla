----------------------------- MODULE QueueLemmas -----------------------------
(***************************************************************************)
(* A sequence used as the FIFO queue of a completion port: what Append and *)
(* Tail do to its elements; how many elements a set can have; induction    *)
(* over the numbers; and the parts of a sequence.                          *)
(***************************************************************************)
EXTENDS Integers, Sequences, FiniteSets, SequenceTheorems, FiniteSetTheorems, TLAPS

(* A post puts the packet behind those that wait, which keep their places. *)
LEMMA AppendQueue ==
    ASSUME NEW S, NEW q \in Seq(S), NEW e \in S
    PROVE  /\ Len(q) \in Nat
           /\ Append(q, e) \in Seq(S)
           /\ Len(Append(q, e)) = Len(q) + 1
           /\ \A i \in 1 .. Len(q) : Append(q, e)[i] = q[i]
           /\ Append(q, e)[Len(q) + 1] = e
BY AppendProperties, LenProperties

(* Taking the first packet moves the others up by one.                      *)
LEMMA TailQueue ==
    ASSUME NEW S, NEW q \in Seq(S), q # << >>
    PROVE  /\ Len(q) \in Nat \ {0}
           /\ Head(q) \in S
           /\ Head(q) = q[1]
           /\ Tail(q) \in Seq(S)
           /\ Len(Tail(q)) = Len(q) - 1
           /\ \A i \in 1 .. Len(q) - 1 : Tail(q)[i] = q[i + 1]
BY HeadTailProperties, EmptySeq

(* The packets of a queue, and that none is in it twice.                   *)
Packets(q) == {q[i] : i \in DOMAIN q}
Distinct(q) == \A i, j \in DOMAIN q : q[i] = q[j] => i = j

LEMMA AppendPackets ==
    ASSUME NEW S, NEW q \in Seq(S), NEW e \in S
    PROVE  /\ Packets(Append(q, e)) = Packets(q) \cup {e}
           /\ Distinct(q) /\ e \notin Packets(q) => Distinct(Append(q, e))
<1>1. DOMAIN q = 1 .. Len(q) /\ DOMAIN Append(q, e) = 1 .. Len(q) + 1 /\ Len(q) \in Nat
  BY AppendQueue, LenProperties
<1>2. \A i \in DOMAIN Append(q, e) : i \in DOMAIN q \/ i = Len(q) + 1
  BY <1>1
<1>3. \A i \in DOMAIN q : i \in DOMAIN Append(q, e) /\ Append(q, e)[i] = q[i]
  BY <1>1, AppendQueue
<1>4. Len(q) + 1 \in DOMAIN Append(q, e) /\ Append(q, e)[Len(q) + 1] = e
  BY <1>1, AppendQueue
<1> QED BY <1>2, <1>3, <1>4, Zenon DEF Packets, Distinct

LEMMA TailPackets ==
    ASSUME NEW S, NEW q \in Seq(S), q # << >>
    PROVE  /\ Packets(q) = Packets(Tail(q)) \cup {Head(q)}
           /\ Distinct(q) => Distinct(Tail(q)) /\ Head(q) \notin Packets(Tail(q))
<1>1. /\ DOMAIN q = 1 .. Len(q) /\ DOMAIN Tail(q) = 1 .. Len(q) - 1
      /\ Len(q) \in Nat \ {0} /\ Head(q) = q[1]
  BY TailQueue, LenProperties
<1>2. \A i \in DOMAIN Tail(q) : i + 1 \in DOMAIN q /\ i + 1 # 1 /\ Tail(q)[i] = q[i + 1]
  BY <1>1, TailQueue
<1>3. \A j \in DOMAIN q : j = 1 \/ \E i \in DOMAIN Tail(q) : j = i + 1
  <2> SUFFICES ASSUME NEW j \in DOMAIN q, j # 1 PROVE \E i \in DOMAIN Tail(q) : j = i + 1
    OBVIOUS
  <2>1. j - 1 \in DOMAIN Tail(q) /\ j = (j - 1) + 1
    BY <1>1
  <2> QED BY <2>1
<1>4. 1 \in DOMAIN q
  BY <1>1
<1>5. \A i, j \in DOMAIN Tail(q) : i + 1 = j + 1 => i = j
  BY <1>1
<1> QED BY <1>1, <1>2, <1>3, <1>4, <1>5 DEF Packets, Distinct

-----------------------------------------------------------------------------
(* Where the packets of a set wait in a queue.                             *)
Where(q, A) == {i \in 1 .. Len(q) : q[i] \in A}

AtMostOneOf(A) == \A x, y \in A : x = y

LEMMA AppendWhere ==
    ASSUME NEW S, NEW q \in Seq(S), NEW e \in S, NEW A
    PROVE  /\ e \notin A => Where(Append(q, e), A) = Where(q, A)
           /\ e \in A => Where(Append(q, e), A) # {}
           /\ e \in A /\ Where(q, A) = {} => AtMostOneOf(Where(Append(q, e), A))
<1>1. /\ Len(q) \in Nat /\ Len(Append(q, e)) = Len(q) + 1
      /\ \A i \in 1 .. Len(q) : Append(q, e)[i] = q[i]
      /\ Append(q, e)[Len(q) + 1] = e
  BY AppendQueue
<1> QED BY <1>1 DEF Where, AtMostOneOf

LEMMA TailWhere ==
    ASSUME NEW S, NEW q \in Seq(S), q # << >>, NEW A, AtMostOneOf(Where(q, A))
    PROVE  /\ AtMostOneOf(Where(Tail(q), A))
           /\ Head(q) \in A => Where(q, A) # {} /\ Where(Tail(q), A) = {}
           /\ Head(q) \notin A => (Where(Tail(q), A) = {} <=> Where(q, A) = {})
<1>1. /\ Len(q) \in Nat \ {0} /\ Head(q) = q[1] /\ Len(Tail(q)) = Len(q) - 1
      /\ \A i \in 1 .. Len(q) - 1 : Tail(q)[i] = q[i + 1]
  BY TailQueue
<1>2. \A i \in Where(Tail(q), A) : i \in Nat \ {0} /\ i + 1 \in Where(q, A)
  BY <1>1 DEF Where
<1>3. \A i \in Where(q, A) : i = 1 \/ i - 1 \in Where(Tail(q), A)
  BY <1>1 DEF Where
<1>4. 1 \in Where(q, A) <=> Head(q) \in A
  BY <1>1 DEF Where
<1>5. AtMostOneOf(Where(Tail(q), A))
  BY <1>2 DEF AtMostOneOf
<1>6. Head(q) \in A => Where(Tail(q), A) = {}
  BY <1>2, <1>4 DEF AtMostOneOf
<1> QED BY <1>2, <1>3, <1>4, <1>5, <1>6
-----------------------------------------------------------------------------
(* How many packets of a set wait in a queue.                              *)
LEMMA WhereFinite ==
    ASSUME NEW S, NEW q \in Seq(S), NEW A
    PROVE  IsFiniteSet(Where(q, A)) /\ Cardinality(Where(q, A)) \in Nat
<1>1. Len(q) \in Nat /\ IsFiniteSet(1 .. Len(q))
  BY LenProperties, FS_Interval
<1>2. Where(q, A) \in SUBSET (1 .. Len(q))
  BY DEF Where
<1> QED BY <1>1, <1>2, FS_Subset, FS_CardinalityType

LEMMA AppendCount ==
    ASSUME NEW S, NEW q \in Seq(S), NEW e \in S, NEW A
    PROVE  /\ e \notin A => Cardinality(Where(Append(q, e), A)) = Cardinality(Where(q, A))
           /\ e \in A => Cardinality(Where(Append(q, e), A)) = Cardinality(Where(q, A)) + 1
<1>1. ASSUME e \in A
      PROVE  /\ Where(Append(q, e), A) = Where(q, A) \cup {Len(q) + 1}
             /\ Len(q) + 1 \notin Where(q, A)
  <2>1. /\ Len(q) \in Nat /\ Len(Append(q, e)) = Len(q) + 1
        /\ \A i \in 1 .. Len(q) : Append(q, e)[i] = q[i]
        /\ Append(q, e)[Len(q) + 1] = e
    BY AppendQueue
  <2> QED BY <1>1, <2>1 DEF Where
<1> QED BY <1>1, AppendWhere, WhereFinite, FS_AddElement

LEMMA TailCount ==
    ASSUME NEW S, NEW q \in Seq(S), q # << >>, NEW A
    PROVE  /\ Head(q) \notin A => Cardinality(Where(Tail(q), A)) = Cardinality(Where(q, A))
           /\ Head(q) \in A => Cardinality(Where(Tail(q), A)) = Cardinality(Where(q, A)) - 1
<1> DEFINE B == Where(Tail(q), A)
           C == Where(q, A) \ {1}
           f == [i \in B |-> i + 1]
<1>1. /\ Len(q) \in Nat \ {0} /\ Head(q) = q[1] /\ Len(Tail(q)) = Len(q) - 1
      /\ \A i \in 1 .. Len(q) - 1 : Tail(q)[i] = q[i + 1]
      /\ Tail(q) \in Seq(S)
  BY TailQueue
<1>2. \A i \in B : i \in Nat \ {0} /\ i + 1 \in C
  BY <1>1 DEF Where
<1>3. \A i \in C : i - 1 \in B /\ (i - 1) + 1 = i
  BY <1>1 DEF Where
<1>4. 1 \in Where(q, A) <=> Head(q) \in A
  BY <1>1 DEF Where
<1>5. f \in [B -> C] /\ (\A i \in B : f[i] = i + 1)
  BY <1>2
<1>6. f \in Bijection(B, C)
  <2> HIDE DEF B, C, f
  <2>1. \A i, j \in B : f[i] = f[j] => i = j
    BY <1>2, <1>5
  <2>2. \A i \in C : \E j \in B : f[j] = i
    BY <1>3, <1>5
  <2> QED BY <1>5, <2>1, <2>2 DEF Bijection, Injection, Surjection, IsInjective
<1>7. IsFiniteSet(B) /\ IsFiniteSet(Where(q, A)) /\ Cardinality(Where(q, A)) \in Nat
  BY <1>1, WhereFinite
<1>8. Cardinality(C) = Cardinality(B)
  BY <1>6, <1>7, FS_Bijection DEF ExistsBijection
<1>9. Cardinality(C) = IF 1 \in Where(q, A) THEN Cardinality(Where(q, A)) - 1 ELSE Cardinality(Where(q, A))
  BY <1>7, FS_RemoveElement
<1> QED BY <1>4, <1>8, <1>9

(* A sequence without repetitions is as long as it has elements.           *)
LEMMA DistinctCount ==
    ASSUME NEW S, NEW q \in Seq(S), Distinct(q)
    PROVE  Len(q) = Cardinality(Packets(q))
<1>1. Len(q) \in Nat /\ DOMAIN q = 1 .. Len(q) /\ q \in [1 .. Len(q) -> S]
  BY LenProperties
<1>2. q \in [1 .. Len(q) -> Packets(q)]
  BY <1>1 DEF Packets
<1>3. q \in Bijection(1 .. Len(q), Packets(q))
  BY <1>1, <1>2 DEF Distinct, Packets, Bijection, Injection, Surjection, IsInjective
<1> QED BY <1>1, <1>3, FS_CountingElements DEF ExistsBijection

(* What workers have in their hands, one thing each, is no more than there *)
(* are workers.                                                            *)
LEMMA HeldByFew ==
    ASSUME NEW M, NEW W, IsFiniteSet(W), NEW h, \A x \in M : \E w \in W : h[w] = x
    PROVE  IsFiniteSet(M) /\ Cardinality(M) \in Nat /\ Cardinality(M) \leq Cardinality(W)
<1> DEFINE V == {w \in W : h[w] \in M}
           g == [w \in V |-> h[w]]
<1>1. IsFiniteSet(V) /\ Cardinality(V) \leq Cardinality(W)
  <2>1. V \in SUBSET W
    OBVIOUS
  <2> QED BY <2>1, FS_Subset
<1>2. g \in Surjection(V, M)
  BY DEF Surjection
<1>3. IsFiniteSet(M) /\ Cardinality(M) \leq Cardinality(V)
  BY <1>1, <1>2, FS_Surjection
<1>4. Cardinality(M) \in Nat /\ Cardinality(V) \in Nat /\ Cardinality(W) \in Nat
  BY <1>1, <1>3, FS_CardinalityType
<1> QED BY <1>1, <1>3, <1>4

-----------------------------------------------------------------------------
(* A set of natural numbers has a least one, and one that is bounded a     *)
(* greatest; so a set with 0 and each next number has them all.            *)
LEMMA LeastOf ==
    ASSUME NEW T, T \subseteq Nat, T # {}
    PROVE  \E x \in T : \A y \in T : x <= y
<1>0. IsWellFoundedOn(OpToRel(<, Nat), Nat)
  BY NatLessThanWellFounded
<1>1. \E x \in T : \A y \in T : ~(<< y, x >> \in OpToRel(<, Nat))
  BY <1>0, WFMin
<1>2. \A x, y \in T : << y, x >> \in OpToRel(<, Nat) <=> y < x
  BY DEF OpToRel
<1>3. \A x, y \in T : ~(y < x) => x <= y
  OBVIOUS
<1> QED BY <1>1, <1>2, <1>3, Zenon

LEMMA GreatestOf ==
    ASSUME NEW T, NEW n \in Nat, T \subseteq 0 .. n, T # {}
    PROVE  \E x \in T : \A y \in T : y <= x
<1> DEFINE U == {k \in 0 .. n : n - k \in T}
<1>1. U \subseteq Nat /\ U # {}
  <2>1. PICK t \in T : TRUE
    OBVIOUS
  <2>2. n - t \in 0 .. n /\ n - (n - t) = t
    BY <2>1
  <2> QED BY <2>1, <2>2
<1>2. PICK k \in U : \A j \in U : k <= j
  BY <1>1, LeastOf
<1>3. ASSUME NEW y \in T PROVE y <= n - k
  <2>1. y \in 0 .. n /\ n - y \in 0 .. n /\ n - (n - y) = y
    OBVIOUS
  <2>2. k <= n - y /\ k \in 0 .. n
    BY <1>2, <2>1
  <2> QED BY <2>1, <2>2
<1> QED BY <1>2, <1>3

LEMMA AllFromZero ==
    ASSUME NEW T, 0 \in T, \A n \in Nat : n \in T => n + 1 \in T
    PROVE  Nat \subseteq T
<1> DEFINE Missing == Nat \ T
<1> SUFFICES ASSUME Missing # {} PROVE FALSE
  OBVIOUS
<1>1. PICK n \in Missing : \A y \in Missing : n <= y
  BY LeastOf
<1>2. n - 1 \in Nat /\ n - 1 \notin Missing /\ (n - 1) + 1 = n
  BY <1>1
<1> QED BY <1>1, <1>2

(* A function given by its value at 0 and at each next argument.           *)
LEMMA Stepwise ==
    ASSUME NEW N \in Nat, NEW z \in Nat, NEW G \in [(1 .. N) \X Nat -> Nat]
    PROVE  \E f \in [0 .. N -> Nat] : f[0] = z /\ \A i \in 1 .. N : f[i] = G[i, f[i - 1]]
<1> DEFINE P(f, k) == f \in [0 .. k -> Nat] /\ f[0] = z /\ \A i \in 1 .. k : f[i] = G[i, f[i - 1]]
           T == {k \in Nat : k <= N => \E f : P(f, k)}
<1>0. P([i \in 0 .. 0 |-> z], 0)
  OBVIOUS
<1>1. 0 \in T
  <2> HIDE DEF P
  <2> QED BY <1>0
<1>2. ASSUME NEW k \in Nat, k \in T PROVE k + 1 \in T
  <2> SUFFICES ASSUME k + 1 <= N PROVE \E f : P(f, k + 1)
    <3> HIDE DEF P
    <3>1. k + 1 \in Nat
      OBVIOUS
    <3> QED BY <3>1, Zenon
  <2>0. k <= N
    OBVIOUS
  <2>1. PICK f : P(f, k)
    <3> HIDE DEF P
    <3> QED BY <1>2, <2>0, Zenon
  <2> DEFINE e == G[k + 1, f[k]]
             g == [i \in 0 .. k + 1 |-> IF i <= k THEN f[i] ELSE e]
  <2>2. k \in 0 .. k /\ k + 1 \in 1 .. N
    OBVIOUS
  <2>3. f[k] \in Nat
    BY <2>1, <2>2
  <2>4. e \in Nat
    BY <2>2, <2>3
  <2> HIDE DEF e
  <2>5. \A i \in 0 .. k + 1 : g[i] = IF i <= k THEN f[i] ELSE e
    OBVIOUS
  <2> HIDE DEF g
  <2>6. \A i \in 0 .. k : f[i] \in Nat /\ g[i] = f[i]
    <3>1. \A i \in 0 .. k : i \in 0 .. k + 1 /\ i <= k
      OBVIOUS
    <3> QED BY <2>1, <2>5, <3>1
  <2>7. g \in [0 .. k + 1 -> Nat]
    <3>1. \A i \in 0 .. k + 1 : i \in 0 .. k \/ ~(i <= k)
      OBVIOUS
    <3>2. \A i \in 0 .. k + 1 : g[i] \in Nat
      BY <2>4, <2>5, <2>6, <3>1
    <3> QED BY <3>2 DEF g
  <2>8. g[k + 1] = e /\ g[k] = f[k] /\ g[0] = z
    <3>1. k + 1 \in 0 .. k + 1 /\ ~(k + 1 <= k) /\ 0 \in 0 .. k
      OBVIOUS
    <3> QED BY <2>1, <2>2, <2>5, <2>6, <3>1
  <2>9. \A i \in 1 .. k : g[i] = G[i, g[i - 1]]
    <3> SUFFICES ASSUME NEW i \in 1 .. k PROVE g[i] = G[i, g[i - 1]]
      OBVIOUS
    <3>1. i \in 0 .. k /\ i - 1 \in 0 .. k
      OBVIOUS
    <3> QED BY <2>1, <2>6, <3>1
  <2>10. \A i \in 1 .. k + 1 : g[i] = G[i, g[i - 1]]
    <3>1. \A i \in 1 .. k + 1 : i \in 1 .. k \/ i = k + 1
      OBVIOUS
    <3>2. g[k + 1] = G[k + 1, g[(k + 1) - 1]]
      <4>1. (k + 1) - 1 = k
        OBVIOUS
      <4> QED BY <2>8, <4>1 DEF e
    <3> QED BY <2>9, <3>1, <3>2
  <2> QED BY <2>7, <2>8, <2>10
<1>3. N \in T
  <2> HIDE DEF T
  <2> QED BY <1>1, <1>2, AllFromZero
<1>4. \E f : P(f, N)
  <2>1. N <= N
    OBVIOUS
  <2> HIDE DEF P
  <2> QED BY <1>3, <2>1, Zenon
<1> QED BY <1>4

(* Part of a sequence; and part of a part.                                 *)
LEMMA Part ==
    ASSUME NEW S, NEW u \in Seq(S), NEW i \in Nat \ {0}, NEW j \in Int, j <= Len(u)
    PROVE  /\ SubSeq(u, i, j) \in Seq(S)
           /\ Len(SubSeq(u, i, j)) = IF i <= j THEN j - i + 1 ELSE 0
           /\ \A k \in 1 .. j - i + 1 : SubSeq(u, i, j)[k] = u[k + i - 1]
<1>1. Len(u) \in Nat /\ \A k \in i .. j : u[k] \in S
  BY LenProperties, ElementOfSeq
<1>2. \A k \in 1 .. j - i + 1 : i + k - 1 = k + i - 1
  OBVIOUS
<1> QED BY <1>1, <1>2, SubSeqProperties

LEMMA PartOfPart ==
    ASSUME NEW S, NEW u \in Seq(S), NEW i \in Nat \ {0}, NEW j \in Int, j <= Len(u),
           NEW m \in Nat \ {0}, NEW n \in Int, n <= j - i + 1
    PROVE  SubSeq(SubSeq(u, i, j), m, n) = SubSeq(u, i + m - 1, i + n - 1)
<1> DEFINE d == SubSeq(u, i, j)
           p == SubSeq(d, m, n)
           q == SubSeq(u, i + m - 1, i + n - 1)
<1>1. Len(u) \in Nat
  BY LenProperties
<1>2. /\ d \in Seq(S) /\ Len(d) = IF i <= j THEN j - i + 1 ELSE 0
      /\ \A k \in 1 .. j - i + 1 : d[k] = u[k + i - 1]
  BY Part
<1>3. CASE m <= n
  <2>0. i <= j /\ n <= Len(d)
    BY <1>2, <1>3
  <2>1. /\ p \in Seq(S) /\ Len(p) = n - m + 1
        /\ \A k \in 1 .. n - m + 1 : p[k] = d[k + m - 1]
    BY <1>2, <1>3, <2>0, Part
  <2>2. /\ i + m - 1 \in Nat \ {0} /\ i + n - 1 \in Int /\ i + n - 1 <= Len(u)
        /\ i + m - 1 <= i + n - 1 /\ (i + n - 1) - (i + m - 1) + 1 = n - m + 1
    BY <1>1, <1>3
  <2>3. /\ q \in Seq(S) /\ Len(q) = n - m + 1
        /\ \A k \in 1 .. n - m + 1 : q[k] = u[k + (i + m - 1) - 1]
    BY <2>2, Part
  <2>4. \A k \in 1 .. n - m + 1 : /\ k + m - 1 \in 1 .. j - i + 1
                                 /\ (k + m - 1) + i - 1 = k + (i + m - 1) - 1
    OBVIOUS
  <2>5. \A k \in 1 .. n - m + 1 : p[k] = q[k]
    BY <1>2, <2>1, <2>3, <2>4
  <2> HIDE DEF d, p, q
  <2>6. p = q
    BY <2>1, <2>3, <2>5, SeqEqual
  <2> QED BY <2>6 DEF p, q, d
<1>4. CASE ~(m <= n)
  <2>1. n < m /\ i + n - 1 < i + m - 1 /\ i + n - 1 \in Int /\ i + m - 1 \in Int
    BY <1>4
  <2>2. p = << >> /\ q = << >>
    BY <2>1, SubSeqEmpty
  <2> QED BY <2>2
<1> QED BY <1>3, <1>4

LEMMA PartOfPartIs ==
    ASSUME NEW S, NEW u \in Seq(S), NEW i \in Nat \ {0}, NEW j \in Int, j <= Len(u),
           NEW m \in Nat \ {0}, NEW n \in Int, n <= j - i + 1,
           NEW a, a = i + m - 1, NEW b, b = i + n - 1
    PROVE  SubSeq(SubSeq(u, i, j), m, n) = SubSeq(u, a, b)
<1>1. SubSeq(SubSeq(u, i, j), m, n) = SubSeq(u, i + m - 1, i + n - 1)
  BY PartOfPart
<1> QED BY <1>1

(* The first n elements of a sequence, those behind them, and those from   *)
(* one place to another.                                                   *)
LEMMA FirstPart ==
    ASSUME NEW S, NEW u \in Seq(S), NEW n \in 0 .. Len(u)
    PROVE  /\ SubSeq(u, 1, n) \in Seq(S) /\ Len(SubSeq(u, 1, n)) = n
           /\ DOMAIN SubSeq(u, 1, n) = 1 .. n
           /\ \A k \in 1 .. n : SubSeq(u, 1, n)[k] = u[k]
<1>1. Len(u) \in Nat
  BY LenProperties
<1>2. n \in Nat /\ n <= Len(u) /\ n - 1 + 1 = n /\ \A k \in 1 .. n : k + 1 - 1 = k
  BY <1>1
<1>3. /\ SubSeq(u, 1, n) \in Seq(S) /\ Len(SubSeq(u, 1, n)) = IF 1 <= n THEN n - 1 + 1 ELSE 0
      /\ \A k \in 1 .. n - 1 + 1 : SubSeq(u, 1, n)[k] = u[k + 1 - 1]
  BY <1>2, Part
<1>4. Len(SubSeq(u, 1, n)) = n
  BY <1>2, <1>3
<1>5. \A k \in 1 .. n : SubSeq(u, 1, n)[k] = u[k]
  BY <1>2, <1>3
<1>6. DOMAIN SubSeq(u, 1, n) = 1 .. Len(SubSeq(u, 1, n))
  BY <1>3, LenProperties
<1> QED BY <1>3, <1>4, <1>5, <1>6

LEMMA LastPart ==
    ASSUME NEW S, NEW u \in Seq(S), NEW n \in 0 .. Len(u)
    PROVE  /\ SubSeq(u, n + 1, Len(u)) \in Seq(S)
           /\ Len(SubSeq(u, n + 1, Len(u))) = Len(u) - n
           /\ DOMAIN SubSeq(u, n + 1, Len(u)) = 1 .. Len(u) - n
           /\ \A k \in 1 .. Len(u) - n : SubSeq(u, n + 1, Len(u))[k] = u[k + n]
<1> DEFINE L == Len(u)
           p == SubSeq(u, n + 1, L)
<1>1. L \in Nat
  BY LenProperties
<1>2. p \in Seq(S) /\ Len(p) = (IF n + 1 <= L THEN L - (n + 1) + 1 ELSE 0)
      /\ \A k \in 1 .. L - (n + 1) + 1 : p[k] = u[k + (n + 1) - 1]
  <2>1. n + 1 \in Nat \ {0} /\ L \in Int /\ L <= L
    BY <1>1
  <2> QED BY <2>1, Part
<1>3. n \in 0 .. L
  OBVIOUS
<1> HIDE DEF p, L
<1>4. L - (n + 1) + 1 = L - n /\ (~(n + 1 <= L) => L - n = 0)
      /\ \A k \in 1 .. L - n : k + (n + 1) - 1 = k + n
  BY <1>1, <1>3
<1>5. Len(p) = L - n
  BY <1>2, <1>4
<1>6. \A k \in 1 .. L - n : p[k] = u[k + n]
  BY <1>2, <1>4
<1>7. DOMAIN p = 1 .. Len(p)
  BY <1>2, LenProperties
<1> QED BY <1>2, <1>5, <1>6, <1>7 DEF p, L

LEMMA Piece ==
    ASSUME NEW S, NEW u \in Seq(S), NEW x \in Nat \ {0}, NEW y \in Nat, x <= y + 1, y <= Len(u)
    PROVE  /\ SubSeq(u, x, y) \in Seq(S) /\ Len(SubSeq(u, x, y)) = y - x + 1
           /\ DOMAIN SubSeq(u, x, y) = 1 .. y - x + 1
           /\ \A k \in 1 .. y - x + 1 : SubSeq(u, x, y)[k] = u[x + k - 1]
<1> DEFINE p == SubSeq(u, x, y)
<1>1. /\ p \in Seq(S) /\ Len(p) = (IF x <= y THEN y - x + 1 ELSE 0)
      /\ \A k \in 1 .. y - x + 1 : p[k] = u[k + x - 1]
  BY Part
<1> HIDE DEF p
<1>2. Len(p) = y - x + 1
  <2>1. ~(x <= y) => y - x + 1 = 0
    OBVIOUS
  <2> QED BY <1>1, <2>1
<1>3. DOMAIN p = 1 .. Len(p)
  BY <1>1, LenProperties
<1>4. \A k \in 1 .. y - x + 1 : k + x - 1 = x + k - 1
  OBVIOUS
<1> QED BY <1>1, <1>2, <1>3, <1>4 DEF p

LEMMA Wider ==
    ASSUME NEW S, NEW p \in Seq(S), NEW c
    PROVE  p \in Seq(S \cup {c})
<1> DEFINE R == S \cup {c}
<1>1. \A i \in 1 .. Len(p) : p[i] \in R
  BY ElementOfSeq
<1>2. p = [i \in 1 .. Len(p) |-> p[i]] /\ Len(p) \in Nat
  BY LenProperties
<1> HIDE DEF R
<1>3. p \in [1 .. Len(p) -> R]
  BY <1>1, <1>2
<1>4. p \in Seq(R)
  BY <1>2, <1>3, SeqDef
<1> QED BY <1>4 DEF R
=============================================================================
