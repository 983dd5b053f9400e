---------------------------- MODULE ClientProofs ----------------------------
(***************************************************************************)
(* What holds of iperf clients however many there are: they start together *)
(* (ClientBarrier), and then each has its session with the server          *)
(* (UdpSession).                                                           *)
(*                                                                         *)
(* The barrier synchronizes every group of clients, of any size and        *)
(* whether or not some of them fail to connect, as long as                 *)
(* pthread_cond_wait returns only after the broadcast; and the count of    *)
(* the barrier is exact even if it does not.                               *)
(*                                                                         *)
(* Any number of UDP clients that share one listening socket, whatever the *)
(* network loses or delays and however often a FIN is sent again: the      *)
(* report a client prints is final, a client has one session, and its      *)
(* server counts what arrived before the FIN.                              *)
(***************************************************************************)
EXTENDS ClientBarrier, UdpSession, FiniteSetTheorems, WellFoundedInduction, TLAPS

-----------------------------------------------------------------------------
(* The barrier. *)

Inside == {c \in Group : pc[c] \in {"wait", "woken"}}

\* InitMulti makes a group of at least two clients.
LEMMA GroupSize == N \in Nat /\ N > 1
  BY BarrierAssumption, FS_CardinalityType DEF N

\* The clients inside BarrierClient can be counted.
LEMMA InsideFinite == IsFiniteSet(Inside) /\ Cardinality(Inside) \in Nat
  BY BarrierAssumption, FS_Subset, FS_CardinalityType DEF Inside

\* While threads is 1 on arrival, everybody else is in the barrier.
LEMMA OthersInside ==
  ASSUME BarrierInv, NEW c \in Group, pc[c] = "connect", threads = 1
  PROVE  \A d \in Group : d # c => pc[d] \in {"wait", "woken"}
<1> DEFINE Rest == Group \ {c}
<1>1. IsFiniteSet(Rest) /\ Cardinality(Rest) = N - 1
  BY BarrierAssumption, FS_RemoveElement DEF N
<1>2. Inside \subseteq Rest
  BY DEF Inside
<1>3. Cardinality(Inside) = N - 1
  BY InsideFinite, GroupSize DEF BarrierInv, CountExact, Inside
<1>4. Inside = Rest
  BY <1>1, <1>2, <1>3, FS_Subset
<1> QED BY <1>4 DEF Inside

\* The invariant holds when InitMulti has made the group.
LEMMA BarrierStart == BarrierInit => BarrierInv
<1> SUFFICES ASSUME BarrierInit PROVE BarrierInv
  OBVIOUS
<1>1. Inside = {}
  BY DEF BarrierInit, Inside
<1>2. Cardinality(Inside) = 0
  BY <1>1, FS_EmptySet
<1>3. CountExact
  BY <1>2, GroupSize DEF BarrierInit, CountExact, Inside
<1>4. threads \in 0 .. N
  BY GroupSize DEF BarrierInit
<1>5. startTime \in BOOLEAN /\ ~startTime /\ spurious \in BOOLEAN
  BY DEF BarrierInit
<1>6. pc \in [Group -> PCs] /\ \A c \in Group : pc[c] = "connect"
  BY DEF BarrierInit, PCs
<1> QED BY <1>3, <1>4, <1>5, <1>6 DEF BarrierInv, BarrierTypeOK

\* Every step keeps the count exact and nobody leaves before the last one
\* has arrived.
LEMMA BarrierStep ==
  ASSUME BarrierInv, [BarrierNext]_barrierVars
  PROVE  BarrierInv'
<1> USE GroupSize
<1>1. ASSUME NEW c \in Group, Fail(c)
      PROVE  BarrierInv'
  <2>1. Inside' = Inside
    BY <1>1 DEF Fail, Inside, BarrierInv, BarrierTypeOK
  <2>2. spurious \/ ~startTime
    BY <1>1 DEF Fail, BarrierInv
  <2> QED BY <1>1, <2>1, <2>2 DEF Fail, BarrierInv, BarrierTypeOK, CountExact, PCs, Inside
<1>2. ASSUME NEW c \in Group, ArriveLast(c)
      PROVE  BarrierInv'
  <2>1. \A d \in Group : d # c => pc[d] \in {"wait", "woken"}
    BY <1>2, OthersInside DEF ArriveLast, LastToArrive
  <2>2. Inside' = Inside
    BY <1>2, <2>1 DEF ArriveLast, Inside
  <2> QED BY <1>2, <2>1, <2>2
          DEF ArriveLast, BarrierInv, BarrierTypeOK, CountExact, PCs, Inside
<1>3. ASSUME NEW c \in Group, ArriveAndWait(c)
      PROVE  BarrierInv'
  <2>1. Inside' = Inside \cup {c} /\ c \notin Inside
    BY <1>3 DEF ArriveAndWait, Inside, BarrierInv, BarrierTypeOK
  <2>2. Cardinality(Inside') = Cardinality(Inside) + 1
    BY <2>1, InsideFinite, FS_AddElement
  <2>3. Cardinality(Inside') <= N
    BY BarrierAssumption, FS_Subset DEF Inside, N
  <2>4. spurious \/ ~startTime
    BY <1>3 DEF ArriveAndWait, BarrierInv
  <2> QED BY <1>3, <2>1, <2>2, <2>3, <2>4, InsideFinite
          DEF ArriveAndWait, BarrierInv, BarrierTypeOK, CountExact, PCs, Inside
<1>4. ASSUME NEW c \in Group, Spurious(c)
      PROVE  BarrierInv'
  <2>1. Inside' = Inside
    BY <1>4 DEF Spurious, Inside, BarrierInv, BarrierTypeOK
  <2> QED BY <1>4, <2>1
          DEF Spurious, BarrierInv, BarrierTypeOK, CountExact, PCs, Inside
<1>5. ASSUME NEW c \in Group, Leave(c)
      PROVE  BarrierInv'
  <2>1. Inside' = Inside \ {c} /\ c \in Inside
    BY <1>5 DEF Leave, Inside, BarrierInv, BarrierTypeOK
  <2>2. Cardinality(Inside') = Cardinality(Inside) - 1
    BY <2>1, InsideFinite, FS_RemoveElement
  <2>3. Cardinality(Inside') \in Nat
    BY <2>1, <2>2, InsideFinite, FS_RemoveElement, FS_CardinalityType
  <2>4. spurious \/ startTime
    BY <1>5 DEF Leave, BarrierInv
  <2> QED BY <1>5, <2>1, <2>2, <2>3, <2>4, InsideFinite
          DEF Leave, BarrierInv, BarrierTypeOK, CountExact, PCs, Inside
<1>6. CASE UNCHANGED barrierVars
  BY <1>6 DEF barrierVars, BarrierInv, BarrierTypeOK, CountExact
<1> QED BY <1>1, <1>2, <1>3, <1>4, <1>5, <1>6 DEF BarrierNext

\* The barrier's count is exact, and until the start time is set nobody has
\* left it, for every size of the group.
THEOREM CountStaysExact == BarrierSpec => []BarrierInv
<1>1. BarrierInv /\ [BarrierNext]_barrierVars => BarrierInv'
  BY BarrierStep
<1> QED BY <1>1, BarrierStart, PTL DEF BarrierSpec, BarrierSafety

\* No client transfers before all clients of the group are connected and the
\* start time is set, for every size of the group.
THEOREM BarrierSynchronizes == BarrierSpec => []Synchronized
<1>1. BarrierInv => Synchronized
  BY DEF BarrierInv, Synchronized
<1> QED BY <1>1, CountStaysExact, PTL

-----------------------------------------------------------------------------
(* The invariant of the UDP sessions. *)

\* What Queued notes when datagram d gets into a queue.
Noted(a, d) ==
    [data |-> IF a.fin \/ d.id < 0 THEN a.data ELSE a.data + 1,
     fin  |-> a.fin \/ d.id < 0]

\* The queue q from place k on, all of one client, holds what the history a
\* of that client has beyond the first n data datagrams.
Ahead(q, k, a, n) ==
    \/ \E f \in k .. Len(q) :
          /\ q[f].id < 0
          /\ \A j \in k .. f - 1 : q[j].id >= 0
          /\ a.fin
          /\ a.data = n + (f - k)
    \/ /\ \A j \in k .. Len(q) : q[j].id >= 0
       /\ ~a.fin
       /\ a.data = n + (Len(q) - k + 1)

\* A data datagram that was not delayed.
Timely(d) == d.id >= 0 /\ ~d.late

\* The listening queue holds, after FINs of others, only datagrams of c.
LeftTo(c, k) ==
    /\ \A i \in 1 .. k - 1 : lq[i].from # c /\ lq[i].id < 0
    /\ \A i \in k .. Len(lq) : lq[i].from = c

\* Queues hold a FIN only of a client that has sent one, and a session that
\* was not mixed up holds only datagrams of its client, whose FIN closed it.
Senders ==
    /\ \A i \in DOMAIN lq : lq[i].id < 0 => arrived[lq[i].from].fin
    /\ \A s \in DOMAIN sessions : \A i \in DOMAIN sessions[s].q :
          sessions[s].q[i].id < 0 => arrived[sessions[s].q[i].from].fin
    /\ \A s \in DOMAIN sessions : ~sessions[s].mixed =>
          /\ \A i \in DOMAIN sessions[s].q :
                sessions[s].q[i].from = sessions[s].peer
          /\ sessions[s].pc # "recv" => arrived[sessions[s].peer].fin

\* What waits for the listener waits because its client is not connected; a
\* timely data datagram there is from a client that has no session, and not
\* behind that client's FIN.
Waiting ==
    /\ \A i \in DOMAIN lq : \A s \in DOMAIN sessions :
          sessions[s].peer = lq[i].from => sessions[s].pc = "gone"
    /\ \A i \in DOMAIN lq : Timely(lq[i]) =>
          \A s \in DOMAIN sessions :
             sessions[s].peer = lq[i].from => sessions[s].mixed
    /\ \A i, j \in DOMAIN lq :
          i < j /\ lq[i].id < 0 /\ lq[j].from = lq[i].from => ~Timely(lq[j])

\* A session is started when the ones before it of its client are closing.
InTurn ==
    \A r, s \in DOMAIN sessions :
        r < s /\ sessions[r].peer = sessions[s].peer =>
            sessions[r].pc \in {"close", "gone"}

\* What arrived of a client is in the listening queue, or was, and is, in
\* the queue of its session.
Accounted ==
    ~Mixed =>
        /\ \A c \in Clients :
              /\ \A s \in DOMAIN sessions : sessions[s].peer # c
              /\ \A i \in DOMAIN lq : lq[i].from = c => lq[i].id < 0
              => arrived[c].data = 0
        /\ \A c \in Clients : \A k \in DOMAIN lq :
              LeftTo(c, k) /\ Timely(lq[k]) => Ahead(lq, k, arrived[c], 0)
        /\ \A s \in DOMAIN sessions : ~sessions[s].late =>
              IF sessions[s].pc = "recv"
                THEN Ahead(sessions[s].q, 1, arrived[sessions[s].peer],
                           1 + Len(sessions[s].counted))
                ELSE Len(sessions[s].counted) = arrived[sessions[s].peer].data

QueueInv == Senders /\ Waiting /\ InTurn /\ OneSession /\ Accounted

\* The places of client and server in the FIN exchange, with the tries they
\* have left; a FIN is sent by a client that has closed its report.
Places ==
    /\ sent \in [Clients -> Nat] /\ finID \in [Clients -> Nat]
    /\ \A c \in Clients :
          /\ cpc[c] = "send" => tries[c] = 0
          /\ cpc[c] = "fin" => tries[c] < MaxTries
          /\ arrived[c].fin => cpc[c] # "send" /\ finID[c] > 0
    /\ \A s \in DOMAIN sessions :
          /\ sessions[s].pc = "recv" => sessions[s].tries = 0
          /\ sessions[s].pc = "ack" => sessions[s].tries < MaxTries
    /\ \A d \in late : d.late /\ d.id >= 0

\* A report x of the server to client c that nothing changes any more.
Final(c, x) ==
    \E s \in DOMAIN sessions :
        sessions[s].peer = c /\ sessions[s].pc # "recv" /\ sessions[s].counted = x

\* Answers are final, and one is read.
Answers ==
    \A c \in Clients :
        /\ \A i \in DOMAIN acks[c] : Final(c, acks[c][i])
        /\ \/ relayed[c] = <<>>
           \/ /\ cpc[c] = "done"
              /\ \E x : relayed[c] = <<x>> /\ Final(c, x)

UdpInv == TypeOK /\ Places /\ Answers /\ QueueInv

USE UdpAssumption

-----------------------------------------------------------------------------
(* Queues and their histories. *)

\* What only looks at the queues does not change with the clients.
LEMMA QueueSame ==
    ASSUME QueueInv, UNCHANGED <<lq, arrived, sessions>>
    PROVE  QueueInv'
<1>1. Mixed' <=> Mixed
  BY DEF Mixed
<1>2. \A c, k : LeftTo(c, k)' <=> LeftTo(c, k)
  BY DEF LeftTo
<1>3. Senders' /\ Waiting' /\ InTurn'
  BY DEF QueueInv, Senders, Waiting, InTurn
<1>4. OneSession' /\ Accounted'
  BY <1>1, <1>2 DEF QueueInv, OneSession, Accounted
<1> QED
  BY <1>3, <1>4 DEF QueueInv

\* A set of sessions has a last one.
LEMMA Greatest ==
    ASSUME NEW n \in Nat, NEW C, C \subseteq 1 .. n, C # {}
    PROVE  \E t \in C : \A r \in C : r <= t
<1> DEFINE T == {m \in Nat : \A r \in C : r <= m}
<1>1. n \in T /\ T \subseteq Nat
  OBVIOUS
<1>2. PICK m \in T : \A y \in T : m <= y
  <2> HIDE DEF T
  <2>1. PICK x \in T : \A y \in T : ~(<<y, x>> \in OpToRel(<, Nat))
    BY <1>1, NatLessThanWellFounded, WFMin
  <2>2. \A y \in T : ~(y < x)
    BY <1>1, <2>1 DEF OpToRel
  <2> QED
    BY <1>1, <2>2
<1>3. m \in Nat /\ \A r \in C : r <= m
  OBVIOUS
<1>4. m \in C
  <2> SUFFICES ASSUME m \notin C PROVE FALSE
    OBVIOUS
  <2>1. \A r \in C : r \in Nat /\ r >= 1 /\ r < m
    BY <1>3
  <2>2. m >= 1
    <3>1. PICK r \in C : TRUE
      OBVIOUS
    <3> QED
      BY <1>3, <2>1, <3>1
  <2>3. m - 1 \in Nat /\ \A r \in C : r <= m - 1
    BY <1>3, <2>1, <2>2
  <2>4. m - 1 \in T
    BY <2>3
  <2>5. ~(m <= m - 1)
    BY <1>3
  <2> HIDE DEF T
  <2> QED
    BY <1>2, <2>4, <2>5
<1> QED
  BY <1>3, <1>4

\* A datagram more in a queue.
LEMMA Appended ==
    ASSUME NEW q \in Seq(Datagram), NEW d \in Datagram
    PROVE  LET m == Append(q, d)
           IN  /\ m \in Seq(Datagram)
               /\ Len(q) \in Nat /\ Len(m) = Len(q) + 1
               /\ DOMAIN q = 1 .. Len(q) /\ DOMAIN m = 1 .. Len(q) + 1
               /\ m[Len(q) + 1] = d
               /\ \A i \in 1 .. Len(q) : m[i] = q[i]
  OBVIOUS

\* A datagram less in a queue.
LEMMA Taken ==
    ASSUME NEW q \in Seq(Datagram), q # <<>>
    PROVE  /\ Tail(q) \in Seq(Datagram)
           /\ Len(q) \in Nat /\ Len(q) > 0 /\ Len(Tail(q)) = Len(q) - 1
           /\ DOMAIN q = 1 .. Len(q) /\ DOMAIN Tail(q) = 1 .. Len(q) - 1
           /\ \A i \in 1 .. Len(q) - 1 : i + 1 \in DOMAIN q /\ Tail(q)[i] = q[i + 1]
           /\ Head(q) = q[1] /\ q[1] \in Datagram /\ 1 \in DOMAIN q
  OBVIOUS

\* Datagrams are numbered.
LEMMA Numbers ==
    ASSUME NEW q \in Seq(Datagram)
    PROVE  /\ Len(q) \in Nat /\ DOMAIN q = 1 .. Len(q)
           /\ \A i \in 1 .. Len(q) :
                 /\ q[i] \in Datagram /\ q[i].id \in Int
                 /\ q[i].from \in Clients /\ q[i].late \in BOOLEAN
<1>1. Len(q) \in Nat /\ DOMAIN q = 1 .. Len(q)
      /\ \A i \in 1 .. Len(q) : q[i] \in Datagram
  OBVIOUS
<1> QED
  BY <1>1 DEF Datagram

\* Histories are typed.
LEMMA NotedType ==
    ASSUME NEW a \in [data : Nat, fin : BOOLEAN], NEW d \in Datagram
    PROVE  Noted(a, d) \in [data : Nat, fin : BOOLEAN]
<1>1. d.id \in Int /\ a.data \in Nat /\ a.fin \in BOOLEAN
  BY DEF Datagram
<1>2. (IF a.fin \/ d.id < 0 THEN a.data ELSE a.data + 1) \in Nat
  BY <1>1
<1>3. (a.fin \/ d.id < 0) \in BOOLEAN
  BY <1>1
<1> QED
  BY <1>2, <1>3 DEF Noted

\* A FIN is remembered, and data behind it is not counted.
LEMMA NotedFin ==
    ASSUME NEW a, NEW d
    PROVE  /\ Noted(a, d).fin <=> (a.fin \/ d.id < 0)
           /\ a.fin => Noted(a, d).data = a.data
           /\ d.id < 0 => Noted(a, d).data = a.data
  BY DEF Noted

\* A queue and its history grow together.
LEMMA AheadAppend ==
    ASSUME NEW q \in Seq(Datagram), NEW d \in Datagram,
           NEW a \in [data : Nat, fin : BOOLEAN], NEW n \in Nat,
           NEW k \in 1 .. Len(q) + 1, Ahead(q, k, a, n)
    PROVE  Ahead(Append(q, d), k, Noted(a, d), n)
<1> DEFINE m == Append(q, d)
           b == Noted(a, d)
<1>1. /\ Len(q) \in Nat /\ Len(m) = Len(q) + 1
      /\ m[Len(q) + 1] = d
      /\ \A i \in 1 .. Len(q) : m[i] = q[i] /\ q[i].id \in Int
      /\ d.id \in Int /\ a.data \in Nat /\ k \in Nat /\ k >= 1
  <2>1. d.id \in Int
    BY DEF Datagram
  <2> QED
    BY <2>1, Appended, Numbers
<1>2. /\ b.data = IF a.fin \/ d.id < 0 THEN a.data ELSE a.data + 1
      /\ b.fin <=> (a.fin \/ d.id < 0)
  BY DEF Noted
<1> HIDE DEF m, b
<1>3. ASSUME NEW f \in k .. Len(q), q[f].id < 0,
             \A j \in k .. f - 1 : q[j].id >= 0, a.fin, a.data = n + (f - k)
      PROVE  Ahead(m, k, b, n)
  <2>0. f \in k .. Len(m) /\ f \in 1 .. Len(q)
    BY <1>1
  <2>1. f \in k .. Len(m) /\ m[f].id < 0
    BY <1>1, <1>3, <2>0
  <2>2. ASSUME NEW j \in k .. f - 1
        PROVE  m[j].id >= 0
    <3>1. j \in 1 .. Len(q)
      BY <1>1
    <3> QED
      BY <1>1, <1>3, <3>1
  <2>3. b.fin /\ b.data = n + (f - k)
    BY <1>2, <1>3
  <2> QED
    BY <2>1, <2>2, <2>3 DEF Ahead
<1>4. ASSUME \A j \in k .. Len(q) : q[j].id >= 0, ~a.fin,
             a.data = n + (Len(q) - k + 1)
      PROVE  Ahead(m, k, b, n)
  <2>1. CASE d.id < 0
    <3> DEFINE f == Len(q) + 1
    <3>1. f \in k .. Len(m) /\ m[f].id < 0 /\ f - 1 = Len(q)
          /\ n + (f - k) = n + (Len(q) - k + 1)
      BY <1>1, <2>1
    <3>2. \A j \in k .. f - 1 : m[j].id >= 0
      BY <1>1, <1>4
    <3>3. b.fin /\ b.data = n + (f - k)
      BY <1>2, <1>4, <2>1, <3>1
    <3> HIDE DEF f
    <3> QED
      BY <3>1, <3>2, <3>3 DEF Ahead
  <2>2. CASE ~(d.id < 0)
    <3>1. \A j \in k .. Len(m) : m[j].id >= 0
      BY <1>1, <1>4, <2>2
    <3>2. ~b.fin /\ b.data = n + (Len(m) - k + 1)
      BY <1>1, <1>2, <1>4, <2>2
    <3> QED
      BY <3>1, <3>2 DEF Ahead
  <2> QED
    BY <2>1, <2>2
<1>5. Ahead(m, k, b, n)
  BY <1>3, <1>4 DEF Ahead
<1> QED
  BY <1>5 DEF m, b

\* A data datagram at the front is accounted for.
LEMMA AheadData ==
    ASSUME NEW q \in Seq(Datagram), NEW a, NEW n \in Nat, q # <<>>,
           q[1].id >= 0, Ahead(q, 1, a, n)
    PROVE  Ahead(Tail(q), 1, a, n + 1)
<1> DEFINE t == Tail(q)
<1>1. /\ Len(q) \in Nat /\ Len(q) > 0 /\ Len(t) = Len(q) - 1
      /\ \A i \in 1 .. Len(q) - 1 : t[i] = q[i + 1]
      /\ \A i \in 1 .. Len(q) : q[i].id \in Int
  BY Taken, Numbers
<1> HIDE DEF t
<1>2. ASSUME NEW f \in 1 .. Len(q), q[f].id < 0,
             \A j \in 1 .. f - 1 : q[j].id >= 0, a.fin, a.data = n + (f - 1)
      PROVE  Ahead(t, 1, a, n + 1)
  <2>1. f # 1
    BY <1>1, <1>2
  <2>2. f - 1 \in 1 .. Len(t) /\ t[f - 1].id < 0
    BY <1>1, <1>2, <2>1
  <2>3. \A j \in 1 .. (f - 1) - 1 : t[j].id >= 0
    BY <1>1, <1>2
  <2>4. a.data = (n + 1) + ((f - 1) - 1)
    BY <1>1, <1>2
  <2> QED
    BY <1>2, <2>2, <2>3, <2>4 DEF Ahead
<1>3. ASSUME \A j \in 1 .. Len(q) : q[j].id >= 0, ~a.fin,
             a.data = n + (Len(q) - 1 + 1)
      PROVE  Ahead(t, 1, a, n + 1)
  <2>1. \A j \in 1 .. Len(t) : t[j].id >= 0
    BY <1>1, <1>3
  <2>2. a.data = (n + 1) + (Len(t) - 1 + 1)
    BY <1>1, <1>3
  <2> QED
    BY <1>3, <2>1, <2>2 DEF Ahead
<1>4. Ahead(t, 1, a, n + 1)
  BY <1>2, <1>3 DEF Ahead
<1> QED
  BY <1>4 DEF t

\* A FIN at the front ends the account.
LEMMA AheadFin ==
    ASSUME NEW q \in Seq(Datagram), NEW a, NEW n \in Nat, q # <<>>,
           q[1].id < 0, Ahead(q, 1, a, n)
    PROVE  a.data = n
<1>1. Len(q) \in Nat /\ Len(q) > 0 /\ \A i \in 1 .. Len(q) : q[i].id \in Int
  BY Taken, Numbers
<1>2. ~(q[1].id >= 0) /\ 1 \in 1 .. Len(q)
  BY <1>1
<1>3. PICK f \in 1 .. Len(q) : /\ \A j \in 1 .. f - 1 : q[j].id >= 0
                               /\ a.data = n + (f - 1)
  BY <1>2 DEF Ahead
<1>4. f = 1
  BY <1>1, <1>2, <1>3
<1> QED
  BY <1>3, <1>4

\* The account of a queue in which another client's datagram was in front.
LEMMA AheadShift ==
    ASSUME NEW q \in Seq(Datagram), NEW a, NEW n \in Nat, q # <<>>,
           NEW k \in DOMAIN Tail(q), Ahead(q, k + 1, a, n)
    PROVE  Ahead(Tail(q), k, a, n)
<1> DEFINE t == Tail(q)
<1>1. /\ Len(q) \in Nat /\ Len(q) > 0 /\ Len(t) = Len(q) - 1
      /\ \A i \in 1 .. Len(q) - 1 : t[i] = q[i + 1]
      /\ \A i \in 1 .. Len(q) : q[i].id \in Int
      /\ k \in 1 .. Len(q) - 1
  BY Taken, Numbers
<1> HIDE DEF t
<1>2. ASSUME NEW f \in k + 1 .. Len(q), q[f].id < 0,
             \A j \in k + 1 .. f - 1 : q[j].id >= 0, a.fin,
             a.data = n + (f - (k + 1))
      PROVE  Ahead(t, k, a, n)
  <2>1. f - 1 \in k .. Len(t) /\ f - 1 \in 1 .. Len(q) - 1 /\ (f - 1) + 1 = f
    BY <1>1
  <2>2. f - 1 \in k .. Len(t) /\ t[f - 1].id < 0
    BY <1>1, <1>2, <2>1
  <2>3. ASSUME NEW j \in k .. (f - 1) - 1
        PROVE  t[j].id >= 0
    <3>1. j + 1 \in k + 1 .. f - 1 /\ j \in 1 .. Len(q) - 1
      BY <1>1
    <3> QED
      BY <1>1, <1>2, <3>1
  <2>4. a.data = n + ((f - 1) - k)
    BY <1>1, <1>2
  <2> QED
    BY <1>2, <2>2, <2>3, <2>4 DEF Ahead
<1>3. ASSUME \A j \in k + 1 .. Len(q) : q[j].id >= 0, ~a.fin,
             a.data = n + (Len(q) - (k + 1) + 1)
      PROVE  Ahead(t, k, a, n)
  <2>1. ASSUME NEW j \in k .. Len(t)
        PROVE  t[j].id >= 0
    <3>1. j + 1 \in k + 1 .. Len(q) /\ j \in 1 .. Len(q) - 1
      BY <1>1
    <3> QED
      BY <1>1, <1>3, <3>1
  <2>2. a.data = n + (Len(t) - k + 1)
    BY <1>1, <1>3
  <2> QED
    BY <1>3, <2>1, <2>2 DEF Ahead
<1>4. Ahead(t, k, a, n)
  BY <1>2, <1>3 DEF Ahead
<1> QED
  BY <1>4 DEF t

\* One session changes.
LEMMA Updated ==
    ASSUME sessions \in Seq(Session), NEW s \in DOMAIN sessions,
           NEW x \in Session, sessions' = [sessions EXCEPT ![s] = x]
    PROVE  /\ sessions' \in Seq(Session)
           /\ DOMAIN sessions' = DOMAIN sessions
           /\ sessions'[s] = x
           /\ \A r \in DOMAIN sessions : r # s => sessions'[r] = sessions[r]
  OBVIOUS

\* The fields of a session.
LEMMA SessionType ==
    ASSUME NEW x \in Session
    PROVE  /\ x.peer \in Clients /\ x.late \in BOOLEAN /\ x.mixed \in BOOLEAN
           /\ x.q \in Seq(Datagram) /\ x.counted \in Seq(Datagram)
           /\ x.pc \in {"recv", "ack", "select", "delete", "close", "gone"}
           /\ x.tries \in 0 .. MaxTries
  BY DEF Session

\* A datagram that arrives at its client's session.
LEMMA ArriveSession ==
    ASSUME TypeOK, QueueInv, NEW d \in Datagram,
           NEW s \in DOMAIN sessions, sessions[s].peer = d.from,
           sessions[s].pc # "gone",
           \A r \in Connected(d.from) : r <= s,
           sessions' = [sessions EXCEPT ![s].q = Append(@, d)],
           Queued(d), UNCHANGED lq
    PROVE  QueueInv' /\ sessions' \in Seq(Session)
<1> DEFINE x == [sessions[s] EXCEPT !.q = Append(@, d)]
           c == d.from
<1>1. /\ sessions \in Seq(Session) /\ sessions[s] \in Session
      /\ lq \in Seq(Datagram)
      /\ arrived \in [Clients -> [data : Nat, fin : BOOLEAN]]
      /\ c \in Clients /\ d.id \in Int /\ d.late \in BOOLEAN
  BY DEF TypeOK, Datagram
<1>2. /\ x \in Session
      /\ x.peer = sessions[s].peer /\ x.late = sessions[s].late
      /\ x.mixed = sessions[s].mixed /\ x.q = Append(sessions[s].q, d)
      /\ x.counted = sessions[s].counted /\ x.pc = sessions[s].pc
      /\ x.tries = sessions[s].tries
  <2>1. Append(sessions[s].q, d) \in Seq(Datagram)
    BY <1>1, SessionType
  <2> QED
    BY <1>1, <2>1 DEF Session
<1>3. /\ sessions' \in Seq(Session)
      /\ DOMAIN sessions' = DOMAIN sessions
      /\ sessions'[s] = x
      /\ \A r \in DOMAIN sessions : r # s => sessions'[r] = sessions[r]
  BY <1>1, <1>2, Updated
<1>4. \A r \in DOMAIN sessions :
        /\ sessions'[r].peer = sessions[r].peer
        /\ sessions'[r].late = sessions[r].late
        /\ sessions'[r].mixed = sessions[r].mixed
        /\ sessions'[r].counted = sessions[r].counted
        /\ sessions'[r].pc = sessions[r].pc
        /\ r # s => sessions'[r].q = sessions[r].q
  BY <1>2, <1>3
<1>5. /\ arrived' \in [Clients -> [data : Nat, fin : BOOLEAN]]
      /\ arrived'[c] = Noted(arrived[c], d)
      /\ \A e \in Clients : e # c => arrived'[e] = arrived[e]
  <2>1. arrived' = [arrived EXCEPT ![c] = Noted(arrived[c], d)]
    BY DEF Queued, Noted
  <2>2. Noted(arrived[c], d) \in [data : Nat, fin : BOOLEAN]
    BY <1>1, NotedType
  <2> QED
    BY <1>1, <2>1, <2>2
<1>6. /\ arrived'[c].fin <=> (arrived[c].fin \/ d.id < 0)
      /\ arrived[c].fin => arrived'[c].data = arrived[c].data
      /\ \A e \in Clients : arrived[e].fin => arrived'[e].fin
  <2>1. \A e \in Clients : e = c \/ arrived'[e] = arrived[e]
    BY <1>5
  <2> QED
    BY <1>5, <2>1, NotedFin
<1>7. /\ sessions[s].q \in Seq(Datagram) /\ x.q \in Seq(Datagram)
      /\ Len(sessions[s].q) \in Nat
      /\ DOMAIN x.q = 1 .. Len(sessions[s].q) + 1
      /\ DOMAIN sessions[s].q = 1 .. Len(sessions[s].q)
      /\ \A i \in DOMAIN sessions[s].q : x.q[i] = sessions[s].q[i]
      /\ x.q[Len(sessions[s].q) + 1] = d
  BY <1>1, <1>2, SessionType, Appended
<1> HIDE DEF x, c
<1>8. Senders'
  <2>1. \A i \in DOMAIN lq : lq[i] \in Datagram /\ lq[i].from \in Clients
    BY <1>1, Numbers
  <2>2. \A i \in DOMAIN lq : lq[i].id < 0 => arrived'[lq[i].from].fin
    BY <1>6, <2>1 DEF QueueInv, Senders
  <2>3. ASSUME NEW r \in DOMAIN sessions, NEW i \in DOMAIN sessions'[r].q,
               sessions'[r].q[i].id < 0
        PROVE  arrived'[sessions'[r].q[i].from].fin
    <3>1. CASE i \in DOMAIN sessions[r].q /\ sessions'[r].q[i] = sessions[r].q[i]
      <4>1. sessions[r].q \in Seq(Datagram)
        BY <1>1, SessionType
      <4>2. sessions[r].q[i].from \in Clients
        BY <3>1, <4>1, Numbers
      <4>3. arrived[sessions[r].q[i].from].fin
        BY <2>3, <3>1 DEF QueueInv, Senders
      <4> QED
        BY <1>6, <3>1, <4>2, <4>3
    <3>2. CASE sessions'[r].q[i] = d
      BY <1>6, <2>3, <3>2 DEF c
    <3> QED
      BY <1>3, <1>4, <1>7, <3>1, <3>2
  <2>4. ASSUME NEW r \in DOMAIN sessions, ~sessions[r].mixed
        PROVE  /\ \A i \in DOMAIN sessions'[r].q :
                     sessions'[r].q[i].from = sessions[r].peer
               /\ sessions[r].pc # "recv" => arrived'[sessions[r].peer].fin
    <3>1. sessions[r].pc # "recv" => arrived'[sessions[r].peer].fin
      <4>1. sessions[r].peer \in Clients
        BY <1>1, SessionType
      <4> QED
        BY <1>6, <2>4, <4>1 DEF QueueInv, Senders
    <3>2. \A i \in DOMAIN sessions[r].q : sessions[r].q[i].from = sessions[r].peer
      BY <2>4 DEF QueueInv, Senders
    <3>3. CASE r = s
      <4>1. \A i \in DOMAIN x.q :
              i \in DOMAIN sessions[s].q \/ i = Len(sessions[s].q) + 1
        BY <1>7
      <4>2. ASSUME NEW i \in DOMAIN x.q PROVE x.q[i].from = sessions[s].peer
        <5>1. CASE i \in DOMAIN sessions[s].q
          BY <1>7, <3>2, <3>3, <5>1
        <5>2. CASE i = Len(sessions[s].q) + 1
          <6>1. x.q[i] = d
            BY <1>7, <5>2
          <6> QED
            BY <6>1
        <5> QED
          BY <4>1, <5>1, <5>2
      <4> QED
        BY <1>3, <3>1, <3>3, <4>2
    <3>4. CASE r # s
      BY <1>4, <3>1, <3>2, <3>4
    <3> QED
      BY <3>3, <3>4
  <2> QED
    BY <1>3, <1>4, <2>2, <2>3, <2>4 DEF Senders
<1>9. Waiting'
  <2>1. \A i \in DOMAIN lq : Timely(lq[i]) =>
          \A r \in DOMAIN sessions' :
             sessions'[r].peer = lq[i].from => sessions'[r].mixed
    BY <1>3, <1>4 DEF QueueInv, Waiting
  <2>2. \A i \in DOMAIN lq : \A r \in DOMAIN sessions' :
          sessions'[r].peer = lq[i].from => sessions'[r].pc = "gone"
    BY <1>3, <1>4 DEF QueueInv, Waiting
  <2> QED
    BY <2>1, <2>2 DEF QueueInv, Waiting, Timely
<1>11. InTurn'
  BY <1>3, <1>4 DEF QueueInv, InTurn
<1>12. Mixed' <=> Mixed
  BY <1>3, <1>4 DEF Mixed
<1>13. OneSession'
  BY <1>3, <1>4, <1>12 DEF QueueInv, OneSession
<1>14. ASSUME ~Mixed
       PROVE  /\ \A e \in Clients :
                    /\ \A r \in DOMAIN sessions : sessions[r].peer # e
                    /\ \A i \in DOMAIN lq : lq[i].from = e => lq[i].id < 0
                    => arrived'[e].data = 0
              /\ \A e \in Clients : \A k \in DOMAIN lq :
                    LeftTo(e, k) /\ Timely(lq[k]) => Ahead(lq, k, arrived'[e], 0)
  <2>1. \A e \in Clients :
          (\A r \in DOMAIN sessions : sessions[r].peer # e) => e # c
    BY DEF c
  <2>2. \A e \in Clients : \A k \in DOMAIN lq :
          LeftTo(e, k) /\ Timely(lq[k]) => e # c
    <3> SUFFICES ASSUME NEW k \in DOMAIN lq, LeftTo(c, k) PROVE FALSE
      OBVIOUS
    <3>1. lq[k].from = c
      <4>1. k \in k .. Len(lq)
        BY <1>1
      <4> QED
        BY <4>1 DEF LeftTo
    <3> QED
      BY <3>1 DEF QueueInv, Waiting, c
  <2> QED
    BY <1>5, <1>14, <2>1, <2>2 DEF QueueInv, Accounted
<1>15. ASSUME ~Mixed, NEW r \in DOMAIN sessions, ~sessions[r].late
       PROVE  IF sessions[r].pc = "recv"
                THEN Ahead(sessions'[r].q, 1, arrived'[sessions[r].peer],
                           1 + Len(sessions[r].counted))
                ELSE Len(sessions[r].counted) = arrived'[sessions[r].peer].data
  <2>1. IF sessions[r].pc = "recv"
          THEN Ahead(sessions[r].q, 1, arrived[sessions[r].peer],
                     1 + Len(sessions[r].counted))
          ELSE Len(sessions[r].counted) = arrived[sessions[r].peer].data
    BY <1>15 DEF QueueInv, Accounted
  <2>2. CASE sessions[r].peer # c
    <3>1. r # s /\ sessions[r].peer \in Clients
      BY <1>1, <2>2, SessionType DEF c
    <3> QED
      BY <1>4, <1>5, <2>1, <2>2, <3>1
  <2>3. CASE sessions[r].peer = c /\ sessions[r].pc # "recv"
    <3>1. arrived[c].fin
      BY <1>15, <2>3 DEF QueueInv, Senders, Mixed
    <3> QED
      BY <1>6, <2>1, <2>3, <3>1
  <2>4. CASE sessions[r].peer = c /\ sessions[r].pc = "recv"
    <3>1. r = s
      <4>1. r \in Connected(c)
        BY <2>4 DEF Connected
      <4>2. r <= s
        BY <4>1 DEF c
      <4>3. ~(r < s)
        BY <2>4 DEF QueueInv, InTurn, c
      <4>4. r \in Nat /\ s \in Nat
        BY <1>1
      <4> QED
        BY <4>2, <4>3, <4>4
    <3>2. sessions[s].counted \in Seq(Datagram) /\ sessions[s].q \in Seq(Datagram)
          /\ 1 + Len(sessions[s].counted) \in Nat
          /\ 1 \in 1 .. Len(sessions[s].q) + 1
      BY <1>1, SessionType
    <3>3. arrived[c] \in [data : Nat, fin : BOOLEAN]
      BY <1>1
    <3>4. Ahead(sessions[s].q, 1, arrived[c], 1 + Len(sessions[s].counted))
      BY <2>1, <2>4, <3>1
    <3>5. Ahead(x.q, 1, arrived'[c], 1 + Len(sessions[s].counted))
      BY <1>2, <1>5, <3>2, <3>3, <3>4, AheadAppend
    <3> QED
      BY <1>3, <2>4, <3>1, <3>5
  <2> QED
    BY <2>2, <2>3, <2>4
<1>16. Accounted'
  <2>1. \A e, k : LeftTo(e, k)' <=> LeftTo(e, k)
    BY DEF LeftTo
  <2> QED
    BY <1>3, <1>4, <1>12, <1>14, <1>15, <2>1 DEF Accounted, Timely
<1> QED
  BY <1>3, <1>8, <1>9, <1>11, <1>13, <1>16 DEF QueueInv

\* A datagram that arrives at the listener.
LEMMA ArriveListener ==
    ASSUME TypeOK, QueueInv, NEW d \in Datagram, Connected(d.from) = {},
           Timely(d) => ~arrived[d.from].fin,
           lq' = Append(lq, d), Queued(d), UNCHANGED sessions
    PROVE  QueueInv'
<1> DEFINE c == d.from
           n == Len(lq) + 1
<1>1. /\ sessions \in Seq(Session) /\ lq \in Seq(Datagram)
      /\ arrived \in [Clients -> [data : Nat, fin : BOOLEAN]]
      /\ c \in Clients /\ d.id \in Int /\ d.late \in BOOLEAN
  BY DEF TypeOK, Datagram
<1>2. /\ lq' \in Seq(Datagram) /\ n \in Nat /\ Len(lq') = n /\ Len(lq) = n - 1
      /\ DOMAIN lq = 1 .. n - 1 /\ DOMAIN lq' = 1 .. n
      /\ lq'[n] = d
      /\ \A i \in DOMAIN lq : lq'[i] = lq[i]
  BY <1>1, Appended
<1>3. /\ \A i \in DOMAIN lq' : i \in DOMAIN lq \/ i = n
      /\ \A i \in DOMAIN lq : i \in DOMAIN lq' /\ i < n
      /\ n \in DOMAIN lq'
  <2>1. n \in Nat /\ n >= 1
    BY <1>1
  <2> QED
    BY <1>2, <2>1
<1>4. \A i \in DOMAIN lq : /\ lq[i] \in Datagram /\ lq[i].id \in Int
                           /\ lq[i].from \in Clients
  BY <1>1, Numbers
<1>5. /\ arrived' \in [Clients -> [data : Nat, fin : BOOLEAN]]
      /\ arrived'[c] = Noted(arrived[c], d)
      /\ \A e \in Clients : e # c => arrived'[e] = arrived[e]
  <2>1. arrived' = [arrived EXCEPT ![c] = Noted(arrived[c], d)]
    BY DEF Queued, Noted
  <2>2. Noted(arrived[c], d) \in [data : Nat, fin : BOOLEAN]
    BY <1>1, NotedType
  <2> QED
    BY <1>1, <2>1, <2>2
<1>6. /\ arrived'[c].fin <=> (arrived[c].fin \/ d.id < 0)
      /\ arrived[c].fin => arrived'[c].data = arrived[c].data
      /\ \A e \in Clients : arrived[e].fin => arrived'[e].fin
  <2>1. \A e \in Clients : e = c \/ arrived'[e] = arrived[e]
    BY <1>5
  <2> QED
    BY <1>5, <2>1, NotedFin
<1>7. Timely(d) => ~arrived[c].fin
  BY DEF c
<1> HIDE DEF n, c
<1>8. \A s \in DOMAIN sessions : sessions[s].peer = c => sessions[s].pc = "gone"
  BY DEF Connected, c
<1>9. \A s \in DOMAIN sessions :
        sessions[s].peer = c /\ ~sessions[s].mixed => arrived[c].fin
  BY <1>8 DEF QueueInv, Senders
<1>10. Senders'
  <2>1. \A i \in DOMAIN lq' : lq'[i].id < 0 => arrived'[lq'[i].from].fin
    <3> SUFFICES ASSUME NEW i \in DOMAIN lq', lq'[i].id < 0
                 PROVE  arrived'[lq'[i].from].fin
      OBVIOUS
    <3>1. CASE i \in DOMAIN lq
      BY <1>2, <1>4, <1>6, <3>1 DEF QueueInv, Senders
    <3>2. CASE i = n
      BY <1>2, <1>6, <3>2 DEF c
    <3> QED
      BY <1>3, <3>1, <3>2
  <2>2. ASSUME NEW s \in DOMAIN sessions, NEW i \in DOMAIN sessions[s].q,
               sessions[s].q[i].id < 0
        PROVE  arrived'[sessions[s].q[i].from].fin
    <3>1. sessions[s].q \in Seq(Datagram)
      BY <1>1, SessionType
    <3>2. sessions[s].q[i].from \in Clients
      BY <3>1, Numbers
    <3> QED
      BY <1>6, <2>2, <3>2 DEF QueueInv, Senders
  <2>3. ASSUME NEW s \in DOMAIN sessions, ~sessions[s].mixed,
               sessions[s].pc # "recv"
        PROVE  arrived'[sessions[s].peer].fin
    <3>1. sessions[s].peer \in Clients
      BY <1>1, SessionType
    <3> QED
      BY <1>6, <2>3, <3>1 DEF QueueInv, Senders
  <2> QED
    BY <2>1, <2>2, <2>3 DEF QueueInv, Senders
<1>11. Waiting'
  <2>2. ASSUME NEW i \in DOMAIN lq', NEW s \in DOMAIN sessions,
               sessions[s].peer = lq'[i].from
        PROVE  sessions[s].pc = "gone"
    <3>1. CASE i \in DOMAIN lq
      BY <1>2, <2>2, <3>1 DEF QueueInv, Waiting
    <3>2. CASE i = n
      BY <1>2, <1>8, <2>2, <3>2 DEF c
    <3> QED
      BY <1>3, <3>1, <3>2
  <2>3. ASSUME NEW i \in DOMAIN lq', Timely(lq'[i]), NEW s \in DOMAIN sessions,
               sessions[s].peer = lq'[i].from
        PROVE  sessions[s].mixed
    <3>1. CASE i \in DOMAIN lq
      BY <1>2, <2>3, <3>1 DEF QueueInv, Waiting
    <3>2. CASE i = n
      BY <1>2, <1>7, <1>9, <2>3, <3>2 DEF c
    <3> QED
      BY <1>3, <3>1, <3>2
  <2>4. ASSUME NEW i \in DOMAIN lq', NEW j \in DOMAIN lq', i < j,
               lq'[i].id < 0, lq'[j].from = lq'[i].from
        PROVE  ~Timely(lq'[j])
    <3>1. CASE j \in DOMAIN lq
      <4>1. i \in DOMAIN lq
        BY <1>2, <2>4, <3>1
      <4> QED
        BY <1>2, <2>4, <3>1, <4>1 DEF QueueInv, Waiting
    <3>2. CASE j = n
      <4>1. i \in DOMAIN lq
        BY <1>2, <2>4, <3>2
      <4>2. arrived[c].fin
        BY <1>2, <2>4, <3>2, <4>1 DEF QueueInv, Senders, c
      <4> QED
        BY <1>2, <1>7, <3>2, <4>2
    <3> QED
      BY <1>3, <3>1, <3>2
  <2> QED
    BY <2>2, <2>3, <2>4 DEF Waiting
<1>12. InTurn' /\ (Mixed' <=> Mixed)
  BY DEF QueueInv, InTurn, Mixed
<1>13. OneSession'
  BY <1>12 DEF QueueInv, OneSession
<1>14. ASSUME ~Mixed, NEW e \in Clients,
              \A s \in DOMAIN sessions : sessions[s].peer # e,
              \A i \in DOMAIN lq' : lq'[i].from = e => lq'[i].id < 0
       PROVE  arrived'[e].data = 0
  <2>1. \A i \in DOMAIN lq : lq[i].from = e => lq[i].id < 0
    BY <1>2, <1>3, <1>14
  <2>2. arrived[e].data = 0
    BY <1>14, <2>1 DEF QueueInv, Accounted
  <2>3. e = c => d.id < 0
    BY <1>2, <1>3, <1>14 DEF c
  <2> QED
    BY <1>5, <2>2, <2>3, NotedFin
<1>15. ASSUME ~Mixed, NEW e \in Clients, NEW k \in DOMAIN lq',
              LeftTo(e, k)', Timely(lq'[k])
       PROVE  Ahead(lq', k, arrived'[e], 0)
  <2>1. /\ \A i \in 1 .. k - 1 : lq'[i].from # e /\ lq'[i].id < 0
        /\ \A i \in k .. n : lq'[i].from = e
    BY <1>2, <1>15 DEF LeftTo
  <2>2. e = c
    <3>1. n \in k .. n
      BY <1>2, <1>15
    <3> QED
      BY <1>2, <2>1, <3>1 DEF c
  <2>3. CASE k \in DOMAIN lq
    <3>1. LeftTo(e, k)
      <4>1. \A i \in 1 .. k - 1 : i \in DOMAIN lq
        BY <1>2, <2>3
      <4>2. \A i \in k .. Len(lq) : i \in DOMAIN lq /\ i \in k .. n
        BY <1>2, <2>3
      <4> QED
        BY <1>2, <2>1, <4>1, <4>2 DEF LeftTo
    <3>2. Ahead(lq, k, arrived[e], 0)
      BY <1>2, <1>15, <2>3, <3>1 DEF QueueInv, Accounted
    <3>3. k \in 1 .. Len(lq) + 1 /\ arrived[e] \in [data : Nat, fin : BOOLEAN]
      BY <1>1, <1>2, <2>3
    <3> QED
      BY <1>1, <1>5, <2>2, <3>2, <3>3, AheadAppend
  <2>4. CASE k = n
    <3>1. ~arrived[c].fin /\ d.id >= 0
      BY <1>2, <1>7, <1>15, <2>4 DEF Timely
    <3>2. \A s \in DOMAIN sessions : sessions[s].peer # c
      BY <1>9, <1>15, <3>1 DEF Mixed
    <3>3. \A i \in DOMAIN lq : lq[i].from # c
      BY <1>2, <2>1, <2>2, <2>4
    <3>4. arrived[c].data = 0
      BY <1>1, <1>15, <3>2, <3>3 DEF QueueInv, Accounted, c
    <3>5. arrived'[e].data = 1 /\ ~arrived'[e].fin
      <4>1. ~(d.id < 0)
        BY <1>1, <3>1
      <4> QED
        BY <1>5, <2>2, <3>1, <3>4, <4>1 DEF Noted
    <3>6. \A j \in k .. Len(lq') : lq'[j].id >= 0
      BY <1>2, <2>4, <3>1
    <3>7. arrived'[e].data = 0 + (Len(lq') - k + 1)
      BY <1>2, <2>4, <3>5
    <3> QED
      BY <3>5, <3>6, <3>7 DEF Ahead
  <2> QED
    BY <1>3, <2>3, <2>4
<1>16. ASSUME ~Mixed, NEW s \in DOMAIN sessions, ~sessions[s].late
       PROVE  IF sessions[s].pc = "recv"
                THEN Ahead(sessions[s].q, 1, arrived'[sessions[s].peer],
                           1 + Len(sessions[s].counted))
                ELSE Len(sessions[s].counted) = arrived'[sessions[s].peer].data
  <2>1. IF sessions[s].pc = "recv"
          THEN Ahead(sessions[s].q, 1, arrived[sessions[s].peer],
                     1 + Len(sessions[s].counted))
          ELSE Len(sessions[s].counted) = arrived[sessions[s].peer].data
    BY <1>16 DEF QueueInv, Accounted
  <2>2. sessions[s].peer \in Clients
    BY <1>1, SessionType
  <2>3. CASE sessions[s].peer # c
    BY <1>5, <2>1, <2>2, <2>3
  <2>4. CASE sessions[s].peer = c
    <3>1. arrived[c].fin
      BY <1>9, <1>16, <2>4 DEF Mixed
    <3> QED
      BY <1>6, <1>8, <2>1, <2>4, <3>1
  <2> QED
    BY <2>3, <2>4
<1>17. Accounted'
  BY <1>12, <1>14, <1>15, <1>16 DEF Accounted, Timely
<1> QED
  BY <1>10, <1>11, <1>12, <1>13, <1>17 DEF QueueInv

\* A data datagram starts a session on the listening socket.
LEMMA StartSession ==
    ASSUME TypeOK, QueueInv, lq # <<>>, Head(lq).id >= 0,
           NEW x \in Session, x.peer = Head(lq).from, x.late = Head(lq).late,
           x.mixed <=> \E i \in DOMAIN lq : lq[i].from # Head(lq).from,
           x.q = Tail(lq), x.counted = <<>>, x.pc = "recv",
           sessions' = Append(sessions, x), lq' = <<>>, UNCHANGED arrived
    PROVE  QueueInv'
<1> DEFINE n == Len(sessions) + 1
           c == lq[1].from
<1>1. /\ sessions \in Seq(Session) /\ lq \in Seq(Datagram)
      /\ arrived \in [Clients -> [data : Nat, fin : BOOLEAN]]
  BY DEF TypeOK
<1>2. /\ Len(lq) \in Nat /\ Len(lq) > 0 /\ Len(Tail(lq)) = Len(lq) - 1
      /\ DOMAIN Tail(lq) = 1 .. Len(lq) - 1
      /\ \A i \in 1 .. Len(lq) - 1 :
            i + 1 \in DOMAIN lq /\ Tail(lq)[i] = lq[i + 1]
      /\ Head(lq) = lq[1] /\ 1 \in DOMAIN lq /\ DOMAIN lq = 1 .. Len(lq)
  BY <1>1, Taken
<1>3. /\ n \in Nat /\ DOMAIN sessions = 1 .. n - 1
      /\ DOMAIN sessions' = 1 .. n /\ sessions'[n] = x
      /\ \A r \in DOMAIN sessions : sessions'[r] = sessions[r]
  BY <1>1
<1>4. /\ \A r \in DOMAIN sessions' : r \in DOMAIN sessions \/ r = n
      /\ \A r \in DOMAIN sessions : r \in DOMAIN sessions' /\ r < n
      /\ n \in DOMAIN sessions' /\ n \notin DOMAIN sessions
  <2>1. n >= 1
    BY <1>1
  <2> QED
    BY <1>3, <2>1
<1>5. /\ x.peer = c /\ x.late = lq[1].late /\ lq[1].id >= 0
      /\ x.mixed <=> \E i \in DOMAIN lq : lq[i].from # c
      /\ c \in Clients /\ lq[1].late \in BOOLEAN
  BY <1>1, <1>2, Numbers
<1> HIDE DEF n, c
<1>6. Senders'
  <2>1. ASSUME NEW r \in DOMAIN sessions', NEW i \in DOMAIN sessions'[r].q,
               sessions'[r].q[i].id < 0
        PROVE  arrived[sessions'[r].q[i].from].fin
    <3>1. CASE r \in DOMAIN sessions
      BY <1>3, <2>1, <3>1 DEF QueueInv, Senders
    <3>2. CASE r = n
      <4>1. sessions'[r].q = Tail(lq)
        BY <1>3, <3>2
      <4>2. i \in 1 .. Len(lq) - 1
        BY <1>2, <2>1, <4>1
      <4>3. i + 1 \in DOMAIN lq /\ sessions'[r].q[i] = lq[i + 1]
        BY <1>2, <4>1, <4>2
      <4> QED
        BY <2>1, <4>3 DEF QueueInv, Senders
    <3> QED
      BY <1>4, <3>1, <3>2
  <2>2. ASSUME NEW r \in DOMAIN sessions', ~sessions'[r].mixed
        PROVE  /\ \A i \in DOMAIN sessions'[r].q :
                     sessions'[r].q[i].from = sessions'[r].peer
               /\ sessions'[r].pc # "recv" => arrived[sessions'[r].peer].fin
    <3>1. CASE r \in DOMAIN sessions
      BY <1>3, <2>2, <3>1 DEF QueueInv, Senders
    <3>2. CASE r = n
      <4>1. \A i \in DOMAIN lq : lq[i].from = c
        BY <1>3, <1>5, <2>2, <3>2
      <4>2. \A i \in DOMAIN x.q : x.q[i].from = c
        BY <1>2, <4>1
      <4> QED
        BY <1>3, <1>5, <3>2, <4>2
    <3> QED
      BY <1>4, <3>1, <3>2
  <2>3. \A i \in DOMAIN lq' : FALSE
    OBVIOUS
  <2> QED
    BY <2>1, <2>2, <2>3 DEF Senders
<1>7. DOMAIN lq' = {}
  OBVIOUS
<1>8. Waiting'
  BY <1>7 DEF Waiting
<1>9. \A r \in DOMAIN sessions : sessions[r].peer = c =>
        /\ sessions[r].pc = "gone"
        /\ ~x.late => sessions[r].mixed
  <2>1. ~x.late => Timely(lq[1])
    BY <1>5 DEF Timely
  <2> QED
    BY <1>2, <2>1 DEF QueueInv, Waiting, c
<1>10. InTurn'
  <2> SUFFICES ASSUME NEW r \in DOMAIN sessions', NEW s \in DOMAIN sessions',
                      r < s, sessions'[r].peer = sessions'[s].peer
               PROVE  sessions'[r].pc \in {"close", "gone"}
    BY DEF InTurn
  <2>1. r \in DOMAIN sessions
    BY <1>3
  <2>2. CASE s \in DOMAIN sessions
    BY <1>3, <2>1, <2>2 DEF QueueInv, InTurn
  <2>3. CASE s = n
    BY <1>3, <1>5, <1>9, <2>1, <2>3
  <2> QED
    BY <1>4, <2>2, <2>3
<1>11. Mixed' <=> (Mixed \/ x.mixed)
  BY <1>3, <1>4 DEF Mixed
<1>12. OneSession'
  <2> SUFFICES ASSUME NEW r \in DOMAIN sessions', NEW s \in DOMAIN sessions',
                      r < s, sessions'[r].peer = sessions'[s].peer
               PROVE  sessions'[s].late \/ Mixed'
    BY DEF OneSession
  <2>1. r \in DOMAIN sessions
    BY <1>3
  <2>2. CASE s \in DOMAIN sessions
    BY <1>3, <1>11, <2>1, <2>2 DEF QueueInv, OneSession
  <2>3. CASE s = n
    <3>1. x.late \/ sessions[r].mixed
      BY <1>3, <1>5, <1>9, <2>1, <2>3
    <3> QED
      BY <1>3, <1>11, <2>1, <2>3, <3>1 DEF Mixed
  <2> QED
    BY <1>4, <2>2, <2>3
<1>13. ASSUME ~Mixed, ~x.mixed
       PROVE  /\ \A e \in Clients :
                    (\A r \in DOMAIN sessions' : sessions'[r].peer # e)
                      => arrived[e].data = 0
              /\ \A r \in DOMAIN sessions' : ~sessions'[r].late =>
                    IF sessions'[r].pc = "recv"
                      THEN Ahead(sessions'[r].q, 1, arrived[sessions'[r].peer],
                                 1 + Len(sessions'[r].counted))
                      ELSE Len(sessions'[r].counted)
                             = arrived[sessions'[r].peer].data
  <2>1. \A i \in DOMAIN lq : lq[i].from = c
    BY <1>5, <1>13
  <2>2. ASSUME NEW e \in Clients,
               \A r \in DOMAIN sessions' : sessions'[r].peer # e
        PROVE  arrived[e].data = 0
    <3>1. e # c /\ \A r \in DOMAIN sessions : sessions[r].peer # e
      BY <1>3, <1>4, <1>5, <2>2
    <3>2. \A i \in DOMAIN lq : lq[i].from = e => lq[i].id < 0
      BY <2>1, <3>1
    <3> QED
      BY <1>13, <3>1, <3>2 DEF QueueInv, Accounted
  <2>3. ASSUME NEW r \in DOMAIN sessions', ~sessions'[r].late
        PROVE  IF sessions'[r].pc = "recv"
                 THEN Ahead(sessions'[r].q, 1, arrived[sessions'[r].peer],
                            1 + Len(sessions'[r].counted))
                 ELSE Len(sessions'[r].counted)
                        = arrived[sessions'[r].peer].data
    <3>1. CASE r \in DOMAIN sessions
      BY <1>3, <1>13, <2>3, <3>1 DEF QueueInv, Accounted
    <3>2. CASE r = n
      <4>1. Timely(lq[1])
        BY <1>3, <1>5, <2>3, <3>2 DEF Timely
      <4>2. LeftTo(c, 1)
        BY <1>2, <2>1 DEF LeftTo
      <4>3. Ahead(lq, 1, arrived[c], 0)
        BY <1>2, <1>5, <1>13, <4>1, <4>2 DEF QueueInv, Accounted
      <4>4. Ahead(Tail(lq), 1, arrived[c], 0 + 1)
        BY <1>1, <1>5, <4>3, AheadData
      <4>5. 0 + 1 = 1 + Len(x.counted)
        OBVIOUS
      <4> QED
        BY <1>3, <1>5, <3>2, <4>4, <4>5
    <3> QED
      BY <1>4, <3>1, <3>2
  <2> QED
    BY <2>2, <2>3
<1>14. Accounted'
  BY <1>7, <1>11, <1>13 DEF Accounted
<1> QED
  BY <1>6, <1>8, <1>10, <1>12, <1>14 DEF QueueInv

\* The listener drops a FIN.
LEMMA DropFin ==
    ASSUME TypeOK, QueueInv, lq # <<>>, Head(lq).id < 0,
           lq' = Tail(lq), UNCHANGED <<sessions, arrived>>
    PROVE  QueueInv'
<1>1. /\ sessions \in Seq(Session) /\ lq \in Seq(Datagram)
      /\ arrived \in [Clients -> [data : Nat, fin : BOOLEAN]]
  BY DEF TypeOK
<1>2. /\ Len(lq) \in Nat /\ Len(lq) > 0 /\ Len(lq') = Len(lq) - 1
      /\ DOMAIN lq' = 1 .. Len(lq) - 1
      /\ \A i \in 1 .. Len(lq) - 1 : i + 1 \in DOMAIN lq /\ lq'[i] = lq[i + 1]
      /\ 1 \in DOMAIN lq /\ DOMAIN lq = 1 .. Len(lq) /\ lq[1].id < 0
      /\ \A i \in DOMAIN lq : lq[i].id \in Int
  BY <1>1, Taken, Numbers
<1>3. Senders'
  BY <1>2 DEF QueueInv, Senders
<1>4. Waiting'
  <2>1. ASSUME NEW i \in DOMAIN lq', NEW s \in DOMAIN sessions,
               sessions[s].peer = lq'[i].from
        PROVE  sessions[s].pc = "gone" /\ (Timely(lq'[i]) => sessions[s].mixed)
    BY <1>2, <2>1 DEF QueueInv, Waiting
  <2>2. ASSUME NEW i \in DOMAIN lq', NEW j \in DOMAIN lq', i < j,
               lq'[i].id < 0, lq'[j].from = lq'[i].from
        PROVE  ~Timely(lq'[j])
    <3>1. /\ i + 1 \in DOMAIN lq /\ j + 1 \in DOMAIN lq /\ i + 1 < j + 1
          /\ lq'[i] = lq[i + 1] /\ lq'[j] = lq[j + 1]
      BY <1>2, <2>2
    <3> QED
      BY <2>2, <3>1 DEF QueueInv, Waiting
  <2> QED
    BY <2>1, <2>2 DEF Waiting
<1>5. InTurn' /\ (Mixed' <=> Mixed)
  BY DEF QueueInv, InTurn, Mixed
<1>6. OneSession'
  BY <1>5 DEF QueueInv, OneSession
<1>7. ASSUME ~Mixed, NEW e \in Clients,
             \A s \in DOMAIN sessions : sessions[s].peer # e,
             \A i \in DOMAIN lq' : lq'[i].from = e => lq'[i].id < 0
      PROVE  arrived[e].data = 0
  <2>1. ASSUME NEW i \in DOMAIN lq, lq[i].from = e
        PROVE  lq[i].id < 0
    <3>1. CASE i = 1
      BY <1>2, <3>1
    <3>2. CASE i # 1
      <4>1. i - 1 \in DOMAIN lq' /\ (i - 1) + 1 = i
        BY <1>2, <3>2
      <4>2. lq'[i - 1] = lq[i]
        BY <1>2, <4>1
      <4> QED
        BY <1>7, <2>1, <4>1, <4>2
    <3> QED
      BY <3>1, <3>2
  <2> QED
    BY <1>7, <2>1 DEF QueueInv, Accounted
<1>8. ASSUME ~Mixed, NEW e \in Clients, NEW k \in DOMAIN lq',
             LeftTo(e, k)', Timely(lq'[k])
      PROVE  Ahead(lq', k, arrived[e], 0)
  <2>1. /\ \A i \in 1 .. k - 1 : lq'[i].from # e /\ lq'[i].id < 0
        /\ \A i \in k .. Len(lq') : lq'[i].from = e
    BY <1>8 DEF LeftTo
  <2>2. k + 1 \in DOMAIN lq /\ lq'[k] = lq[k + 1] /\ 1 < k + 1
        /\ k \in k .. Len(lq')
    BY <1>2
  <2>3. lq[1].from # e
    <3>1. lq[k + 1].from = e /\ Timely(lq[k + 1])
      BY <1>8, <2>1, <2>2
    <3> QED
      BY <1>2, <2>2, <3>1 DEF QueueInv, Waiting
  <2>4. LeftTo(e, k + 1)
    <3>1. ASSUME NEW i \in 1 .. (k + 1) - 1
          PROVE  lq[i].from # e /\ lq[i].id < 0
      <4>1. CASE i = 1
        BY <1>2, <2>3, <4>1
      <4>2. CASE i # 1
        <5>1. i - 1 \in 1 .. k - 1 /\ i - 1 \in 1 .. Len(lq) - 1 /\ (i - 1) + 1 = i
          BY <1>2, <4>2
        <5> QED
          BY <1>2, <2>1, <5>1
      <4> QED
        BY <4>1, <4>2
    <3>2. ASSUME NEW i \in k + 1 .. Len(lq)
          PROVE  lq[i].from = e
      <4>1. i - 1 \in k .. Len(lq') /\ i - 1 \in 1 .. Len(lq) - 1 /\ (i - 1) + 1 = i
        BY <1>2
      <4> QED
        BY <1>2, <2>1, <4>1
    <3> QED
      BY <3>1, <3>2 DEF LeftTo
  <2>5. Ahead(lq, k + 1, arrived[e], 0)
    BY <1>8, <2>2, <2>4 DEF QueueInv, Accounted
  <2> QED
    BY <1>1, <1>8, <2>5, AheadShift
<1>9. Accounted'
  BY <1>5, <1>7, <1>8 DEF QueueInv, Accounted
<1> QED
  BY <1>3, <1>4, <1>5, <1>6, <1>9 DEF QueueInv

\* A session changes, keeping what it is; what it still holds it held.
LEMMA SessionStep ==
    ASSUME TypeOK, QueueInv, NEW s \in DOMAIN sessions, NEW x \in Session,
           sessions' = [sessions EXCEPT ![s] = x],
           UNCHANGED <<lq, arrived>>,
           x.peer = sessions[s].peer, x.late = sessions[s].late,
           x.mixed = sessions[s].mixed, sessions[s].pc # "gone",
           \A i \in DOMAIN x.q : \E j \in DOMAIN sessions[s].q :
              x.q[i] = sessions[s].q[j],
           sessions[s].pc = "close" => x.pc \in {"close", "gone"},
           x.pc # "recv" /\ ~x.mixed => arrived[x.peer].fin,
           ~Mixed /\ ~x.late =>
              IF x.pc = "recv"
                THEN Ahead(x.q, 1, arrived[x.peer], 1 + Len(x.counted))
                ELSE Len(x.counted) = arrived[x.peer].data
    PROVE  QueueInv'
<1>1. /\ DOMAIN sessions' = DOMAIN sessions
      /\ sessions'[s] = x
      /\ \A r \in DOMAIN sessions : r # s => sessions'[r] = sessions[r]
  BY Updated DEF TypeOK
<1>2. \A r \in DOMAIN sessions :
        /\ sessions'[r].peer = sessions[r].peer
        /\ sessions'[r].late = sessions[r].late
        /\ sessions'[r].mixed = sessions[r].mixed
  BY <1>1
<1>3. Senders'
  <2>1. ASSUME NEW r \in DOMAIN sessions, NEW i \in DOMAIN sessions'[r].q
        PROVE  \E j \in DOMAIN sessions[r].q :
                  sessions'[r].q[i] = sessions[r].q[j]
    BY <1>1, <2>1
  <2>2. ASSUME NEW r \in DOMAIN sessions, NEW i \in DOMAIN sessions'[r].q
        PROVE  /\ sessions'[r].q[i].id < 0 =>
                    arrived[sessions'[r].q[i].from].fin
               /\ ~sessions[r].mixed =>
                    sessions'[r].q[i].from = sessions[r].peer
    BY <2>1, <2>2 DEF QueueInv, Senders
  <2>3. ASSUME NEW r \in DOMAIN sessions, ~sessions[r].mixed,
               sessions'[r].pc # "recv"
        PROVE  arrived[sessions[r].peer].fin
    BY <1>1, <2>3 DEF QueueInv, Senders
  <2> QED
    BY <1>1, <1>2, <2>2, <2>3 DEF QueueInv, Senders
<1>4. \A i \in DOMAIN lq : lq[i].from # sessions[s].peer
  BY DEF QueueInv, Waiting
<1>5. Waiting'
  <2>1. \A i \in DOMAIN lq : \A r \in DOMAIN sessions' :
          sessions'[r].peer = lq[i].from => sessions'[r].pc = "gone"
    BY <1>1, <1>4 DEF QueueInv, Waiting
  <2>2. \A i \in DOMAIN lq : Timely(lq[i]) =>
          \A r \in DOMAIN sessions' :
             sessions'[r].peer = lq[i].from => sessions'[r].mixed
    BY <1>1, <1>2 DEF QueueInv, Waiting
  <2> QED
    BY <2>1, <2>2 DEF QueueInv, Waiting
<1>6. InTurn'
  <2> SUFFICES ASSUME NEW r \in DOMAIN sessions, NEW t \in DOMAIN sessions,
                      r < t, sessions[r].peer = sessions[t].peer
               PROVE  sessions'[r].pc \in {"close", "gone"}
    BY <1>1, <1>2 DEF InTurn
  <2>1. sessions[r].pc \in {"close", "gone"}
    BY DEF QueueInv, InTurn
  <2> QED
    BY <1>1, <2>1
<1>7. Mixed' <=> Mixed
  BY <1>1, <1>2 DEF Mixed
<1>8. OneSession'
  BY <1>1, <1>2, <1>7 DEF QueueInv, OneSession
<1>9. ASSUME ~Mixed
      PROVE  /\ \A c \in Clients :
                   /\ \A r \in DOMAIN sessions' : sessions'[r].peer # c
                   /\ \A i \in DOMAIN lq : lq[i].from = c => lq[i].id < 0
                   => arrived[c].data = 0
             /\ \A c \in Clients : \A k \in DOMAIN lq :
                   LeftTo(c, k)' /\ Timely(lq[k]) => Ahead(lq, k, arrived[c], 0)
  <2>1. \A c, k : LeftTo(c, k)' <=> LeftTo(c, k)
    BY DEF LeftTo
  <2> QED
    BY <1>1, <1>2, <1>9, <2>1 DEF QueueInv, Accounted
<1>10. ASSUME ~Mixed, NEW r \in DOMAIN sessions', ~sessions'[r].late
       PROVE  IF sessions'[r].pc = "recv"
                THEN Ahead(sessions'[r].q, 1, arrived[sessions'[r].peer],
                           1 + Len(sessions'[r].counted))
                ELSE Len(sessions'[r].counted) = arrived[sessions'[r].peer].data
  <2>1. CASE r = s
    BY <1>1, <1>10, <2>1
  <2>2. CASE r # s
    BY <1>1, <1>10, <2>2 DEF QueueInv, Accounted
  <2> QED
    BY <2>1, <2>2
<1>11. Accounted'
  BY <1>7, <1>9, <1>10 DEF Accounted
<1> QED
  BY <1>3, <1>5, <1>6, <1>8, <1>11 DEF QueueInv

\* A session that a FIN has closed goes on; it counts nothing more.
LEMMA ClosedStep ==
    ASSUME TypeOK, QueueInv, NEW s \in DOMAIN sessions, NEW x \in Session,
           sessions' = [sessions EXCEPT ![s] = x],
           UNCHANGED <<lq, arrived>>,
           x.peer = sessions[s].peer, x.late = sessions[s].late,
           x.mixed = sessions[s].mixed, x.counted = sessions[s].counted,
           sessions[s].pc \notin {"recv", "gone"}, x.pc # "recv",
           \/ x.q = sessions[s].q \/ x.q = <<>>
           \/ sessions[s].q # <<>> /\ x.q = Tail(sessions[s].q),
           sessions[s].pc = "close" => x.pc = "gone"
    PROVE  QueueInv'
<1>1. sessions[s] \in Session
  BY DEF TypeOK
<1>2. sessions[s].q \in Seq(Datagram)
  BY <1>1, SessionType
<1>3. \A i \in DOMAIN x.q : \E j \in DOMAIN sessions[s].q :
        x.q[i] = sessions[s].q[j]
  <2>1. CASE sessions[s].q # <<>> /\ x.q = Tail(sessions[s].q)
    BY <1>2, <2>1, Taken
  <2>2. CASE x.q = sessions[s].q
    BY <2>2
  <2>3. CASE x.q = <<>>
    <3>1. DOMAIN <<>> = {}
      OBVIOUS
    <3> QED
      BY <2>3, <3>1
  <2> QED
    BY <2>1, <2>2, <2>3
<1>4. ~x.mixed => arrived[x.peer].fin
  BY DEF QueueInv, Senders
<1>5. ~Mixed /\ ~x.late => Len(x.counted) = arrived[x.peer].data
  BY DEF QueueInv, Accounted
<1> QED
  BY <1>3, <1>4, <1>5, SessionStep

\* The loop of Server::Run counts a datagram.
LEMMA RecvStep ==
    ASSUME TypeOK, QueueInv, NEW s \in DOMAIN sessions, NEW x \in Session,
           sessions' = [sessions EXCEPT ![s] = x],
           UNCHANGED <<lq, arrived>>,
           x.peer = sessions[s].peer, x.late = sessions[s].late,
           x.mixed = sessions[s].mixed,
           sessions[s].pc = "recv", sessions[s].q # <<>>,
           Len(x.counted) = Len(sessions[s].counted) + 1,
           x.q = Tail(sessions[s].q),
           x.pc = IF Head(sessions[s].q).id < 0 THEN "ack" ELSE "recv"
    PROVE  QueueInv'
<1> DEFINE q == sessions[s].q
           n == 1 + Len(sessions[s].counted)
           a == arrived[x.peer]
<1>1. sessions[s] \in Session
  BY DEF TypeOK
<1>2. q \in Seq(Datagram) /\ n \in Nat /\ q # <<>>
  BY <1>1, SessionType
<1>3. /\ Head(q) = q[1] /\ 1 \in DOMAIN q /\ q[1].id \in Int
      /\ \A i \in DOMAIN Tail(q) : \E j \in DOMAIN q : Tail(q)[i] = q[j]
  <2> HIDE DEF q
  <2>1. /\ Len(q) \in Nat /\ Len(q) > 0 /\ DOMAIN Tail(q) = 1 .. Len(q) - 1
        /\ \A i \in 1 .. Len(q) - 1 : i + 1 \in DOMAIN q /\ Tail(q)[i] = q[i + 1]
        /\ Head(q) = q[1] /\ 1 \in DOMAIN q
    BY <1>2, Taken
  <2>2. \A i \in 1 .. Len(q) : q[i].id \in Int
    BY <1>2, Numbers
  <2>3. q[1].id \in Int
    BY <2>1, <2>2
  <2> QED
    BY <2>1, <2>3
<1>4. x.pc # "recv" /\ ~x.mixed => arrived[x.peer].fin
  <2> SUFFICES ASSUME x.pc # "recv", ~x.mixed PROVE arrived[x.peer].fin
    OBVIOUS
  <2>1. q[1].id < 0
    BY <1>3
  <2>2. q[1].from = x.peer
    BY <1>3 DEF QueueInv, Senders
  <2> QED
    BY <1>3, <2>1, <2>2 DEF QueueInv, Senders
<1>5. ASSUME ~Mixed, ~x.late
      PROVE  IF x.pc = "recv" THEN Ahead(x.q, 1, a, 1 + Len(x.counted))
                              ELSE Len(x.counted) = a.data
  <2>1. Ahead(q, 1, a, n)
    BY <1>5 DEF QueueInv, Accounted
  <2>2. n + 1 = 1 + Len(x.counted) /\ n = Len(x.counted)
    BY <1>1, SessionType
  <2> HIDE DEF q, n, a
  <2>3. CASE q[1].id < 0
    <3>1. a.data = n
      BY <1>2, <2>1, <2>3, AheadFin
    <3>2. x.pc # "recv"
      BY <1>3, <2>3 DEF q
    <3> QED
      BY <2>2, <3>1, <3>2
  <2>4. CASE ~(q[1].id < 0)
    <3>1. q[1].id >= 0
      BY <1>3, <2>4
    <3>2. Ahead(Tail(q), 1, a, n + 1)
      BY <1>2, <2>1, <3>1, AheadData
    <3>3. x.pc = "recv"
      BY <1>3, <2>4 DEF q
    <3> QED
      BY <2>2, <3>2, <3>3 DEF q
  <2> QED
    BY <2>3, <2>4
<1>6. \A i \in DOMAIN x.q : \E j \in DOMAIN sessions[s].q :
        x.q[i] = sessions[s].q[j]
  BY <1>3
<1>7. ~Mixed /\ ~x.late =>
        IF x.pc = "recv"
          THEN Ahead(x.q, 1, arrived[x.peer], 1 + Len(x.counted))
          ELSE Len(x.counted) = arrived[x.peer].data
  BY <1>5
<1> HIDE DEF q, n, a
<1> QED
  BY <1>4, <1>6, <1>7, SessionStep

\* Whatever Arrive does with a datagram, the queues stay in order.
LEMMA ArriveStep ==
    ASSUME TypeOK, QueueInv, NEW d \in Datagram, Arrive(d),
           Timely(d) => ~arrived[d.from].fin
    PROVE  /\ QueueInv'
           /\ lq' \in Seq(Datagram) /\ sessions' \in Seq(Session)
           /\ refused' \subseteq Clients
           /\ arrived' \in [Clients -> [data : Nat, fin : BOOLEAN]]
           /\ DOMAIN sessions' = DOMAIN sessions
           /\ \A s \in DOMAIN sessions :
                 /\ sessions'[s].peer = sessions[s].peer
                 /\ sessions'[s].pc = sessions[s].pc
                 /\ sessions'[s].tries = sessions[s].tries
                 /\ sessions'[s].counted = sessions[s].counted
           /\ \A c \in Clients : arrived'[c].fin =>
                 arrived[c].fin \/ (c = d.from /\ d.id < 0)
<1>1. /\ sessions \in Seq(Session) /\ lq \in Seq(Datagram)
      /\ arrived \in [Clients -> [data : Nat, fin : BOOLEAN]]
      /\ refused \subseteq Clients /\ d.from \in Clients
  BY DEF TypeOK, Datagram
<1>2. ASSUME Queued(d)
      PROVE  /\ arrived' \in [Clients -> [data : Nat, fin : BOOLEAN]]
             /\ \A c \in Clients : arrived'[c].fin =>
                   arrived[c].fin \/ (c = d.from /\ d.id < 0)
  <2>1. arrived' = [arrived EXCEPT ![d.from] = Noted(arrived[d.from], d)]
    BY <1>2 DEF Queued, Noted
  <2>2. Noted(arrived[d.from], d) \in [data : Nat, fin : BOOLEAN]
    BY <1>1, NotedType
  <2>3. arrived' \in [Clients -> [data : Nat, fin : BOOLEAN]]
    BY <1>1, <2>1, <2>2
  <2>4. \A c \in Clients : arrived'[c] =
          IF c = d.from THEN Noted(arrived[c], d) ELSE arrived[c]
    BY <1>1, <2>1
  <2> QED
    BY <2>3, <2>4, NotedFin
<1>3. CASE /\ Connected(d.from) # {}
           /\ LET s == CHOOSE s \in Connected(d.from) :
                         \A r \in Connected(d.from) : r <= s
              IN  sessions' = [sessions EXCEPT ![s].q = Append(@, d)]
           /\ Queued(d)
           /\ UNCHANGED <<lq, refused>>
  <2> DEFINE s == CHOOSE s \in Connected(d.from) :
                    \A r \in Connected(d.from) : r <= s
  <2>1. \E t \in Connected(d.from) : \A r \in Connected(d.from) : r <= t
    <3> DEFINE C == Connected(d.from)
    <3>1. C \subseteq 1 .. Len(sessions) /\ Len(sessions) \in Nat /\ C # {}
      BY <1>1, <1>3 DEF Connected
    <3> HIDE DEF C
    <3>2. \E t \in C : \A r \in C : r <= t
      BY <3>1, Greatest
    <3> QED
      BY <3>2 DEF C
  <2>2. s \in Connected(d.from) /\ \A r \in Connected(d.from) : r <= s
    BY <2>1
  <2>3. sessions' = [sessions EXCEPT ![s].q = Append(@, d)]
    BY <1>3
  <2> HIDE DEF s
  <2>4. /\ s \in DOMAIN sessions /\ sessions[s].peer = d.from
        /\ sessions[s].pc # "gone"
    BY <2>2 DEF Connected
  <2>5. QueueInv' /\ sessions' \in Seq(Session)
    BY <1>3, <2>2, <2>3, <2>4, ArriveSession
  <2>6. /\ DOMAIN sessions' = DOMAIN sessions
        /\ \A r \in DOMAIN sessions :
                 /\ sessions'[r].peer = sessions[r].peer
                 /\ sessions'[r].pc = sessions[r].pc
                 /\ sessions'[r].tries = sessions[r].tries
                 /\ sessions'[r].counted = sessions[r].counted
    <3>1. sessions[s] \in Session
      BY <1>1, <2>4
    <3>2. \A r \in DOMAIN sessions : sessions'[r] =
            IF r = s THEN [sessions[s] EXCEPT !.q = Append(@, d)]
                     ELSE sessions[r]
      BY <1>1, <2>3, <2>4
    <3>3. /\ [sessions[s] EXCEPT !.q = Append(@, d)].peer = sessions[s].peer
          /\ [sessions[s] EXCEPT !.q = Append(@, d)].pc = sessions[s].pc
          /\ [sessions[s] EXCEPT !.q = Append(@, d)].tries = sessions[s].tries
          /\ [sessions[s] EXCEPT !.q = Append(@, d)].counted
               = sessions[s].counted
      BY <3>1 DEF Session
    <3> QED
      BY <1>1, <2>3, <3>2, <3>3
  <2> QED
    BY <1>1, <1>2, <1>3, <2>5, <2>6
<1>4. CASE /\ Connected(d.from) = {}
           /\ lq' = Append(lq, d)
           /\ Queued(d)
           /\ UNCHANGED <<sessions, refused>>
  <2>1. QueueInv'
    BY <1>4, ArriveListener
  <2>2. lq' \in Seq(Datagram)
    BY <1>1, <1>4
  <2> QED
    BY <1>1, <1>2, <1>4, <2>1, <2>2
<1>5. CASE /\ refused' = refused \cup (IF cpc[d.from] = "done" THEN {} ELSE {d.from})
           /\ UNCHANGED <<sessions, lq, arrived>>
  <2>1. QueueInv'
    BY <1>5, QueueSame
  <2> QED
    BY <1>1, <1>5, <2>1
<1> QED
  BY <1>3, <1>4, <1>5 DEF Arrive

\* What a datagram of c, numbered id, leaves in place on its way.
Carried(c, id) ==
    /\ QueueInv'
    /\ lq' \in Seq(Datagram) /\ sessions' \in Seq(Session)
    /\ refused' \subseteq Clients
    /\ arrived' \in [Clients -> [data : Nat, fin : BOOLEAN]]
    /\ DOMAIN sessions' = DOMAIN sessions
    /\ \A s \in DOMAIN sessions :
          /\ sessions'[s].peer = sessions[s].peer
          /\ sessions'[s].pc = sessions[s].pc
          /\ sessions'[s].tries = sessions[s].tries
          /\ sessions'[s].counted = sessions[s].counted
    /\ \A e \in Clients : arrived'[e].fin =>
          arrived[e].fin \/ (e = c /\ id < 0)

\* Sessions stay, and closed ones keep their report.
SessionsKept ==
    \A s \in DOMAIN sessions :
        /\ s \in DOMAIN sessions'
        /\ sessions'[s].peer = sessions[s].peer
        /\ sessions[s].pc # "recv" =>
              sessions'[s].pc # "recv" /\ sessions'[s].counted = sessions[s].counted

\* The bounds are natural numbers.
LEMMA Bounds == 0 .. MaxData \subseteq Nat /\ 0 .. MaxTries \subseteq Nat
  OBVIOUS

\* Final, of the next state.
FinalNext(c, x) ==
    \E s \in DOMAIN sessions' :
        sessions'[s].peer = c /\ sessions'[s].pc # "recv" /\ sessions'[s].counted = x

\* A final report stays final.
LEMMA FinalKept ==
    ASSUME SessionsKept, NEW c, NEW x, Final(c, x)
    PROVE  FinalNext(c, x)
  BY DEF SessionsKept, Final, FinalNext

\* Answers, of the next state.
LEMMA AnswersNext ==
    ASSUME \A c \in Clients :
              /\ \A i \in DOMAIN acks'[c] : FinalNext(c, acks'[c][i])
              /\ \/ relayed'[c] = <<>>
                 \/ /\ cpc'[c] = "done"
                    /\ \E x : relayed'[c] = <<x>> /\ FinalNext(c, x)
    PROVE  Answers'
  BY DEF Answers, Final, FinalNext

\* A client's answers stay final while it reads none.
LEMMA AnswersKept ==
    ASSUME Answers, SessionsKept, UNCHANGED <<acks, relayed>>,
           \A c \in Clients : cpc[c] = "done" => cpc'[c] = "done"
    PROVE  Answers'
<1>1. \A c, x : Final(c, x) => FinalNext(c, x)
  BY FinalKept
<1>2. \A c \in Clients :
         /\ \A i \in DOMAIN acks'[c] : FinalNext(c, acks'[c][i])
         /\ \/ relayed'[c] = <<>>
            \/ /\ cpc'[c] = "done"
               /\ \E x : relayed'[c] = <<x>> /\ FinalNext(c, x)
  BY <1>1 DEF Answers
<1> QED
  BY <1>2, AnswersNext

\* A client's write.
LEMMA WriteStep ==
    ASSUME TypeOK, Places, QueueInv, NEW c \in Clients, NEW id \in Int,
           Write(c, id), id >= 0 => ~arrived[c].fin
    PROVE  /\ Carried(c, id)
           /\ late' \subseteq Datagram /\ \A d \in late' : d.late /\ d.id >= 0
<1> DEFINE d == [from |-> c, id |-> id, late |-> FALSE]
<1>1. d \in Datagram /\ d.from = c /\ d.id = id /\ ~d.late
  BY DEF Datagram
<1>2. /\ late \subseteq Datagram /\ \A e \in late : e.late /\ e.id >= 0
      /\ refused \subseteq Clients
  BY DEF TypeOK, Places
<1>3. ASSUME UNCHANGED <<lq, arrived, sessions>>, refused' \subseteq Clients
      PROVE  Carried(c, id)
  <2>1. QueueInv'
    BY <1>3, QueueSame
  <2> QED
    BY <1>3, <2>1 DEF Carried, TypeOK
<1>4. CASE refused' = refused \ {c} /\ UNCHANGED <<lq, arrived, sessions, late>>
  BY <1>2, <1>3, <1>4
<1>5. CASE Arrive(d) /\ UNCHANGED late
  <2>1. Timely(d) => ~arrived[d.from].fin
    BY <1>1 DEF Timely
  <2> HIDE DEF d
  <2>2. Carried(d.from, d.id)
    BY <1>1, <1>5, <2>1, ArriveStep DEF Carried
  <2> QED
    BY <1>1, <1>2, <1>5, <2>2
<1>6. CASE UNCHANGED <<lq, arrived, sessions, late, refused>>
  BY <1>2, <1>3, <1>6
<1>7. CASE /\ id >= 0
           /\ late' = late \cup {[d EXCEPT !.late = TRUE]}
           /\ UNCHANGED <<lq, arrived, sessions, refused>>
  <2> DEFINE e == [d EXCEPT !.late = TRUE]
  <2> HIDE DEF d
  <2>1. e \in Datagram /\ e.late = TRUE /\ e.id = d.id
    BY <1>1 DEF Datagram
  <2> HIDE DEF e
  <2>2. late' = late \cup {e}
    BY <1>7 DEF e
  <2>3. late' \subseteq Datagram /\ \A f \in late' : f.late /\ f.id >= 0
    BY <1>1, <1>2, <1>7, <2>1, <2>2
  <2> QED
    BY <1>2, <1>3, <1>7, <2>3
<1> QED
  BY <1>4, <1>5, <1>6, <1>7 DEF Write

\* The types and places of what a datagram on its way leaves alone.
LEMMA CarriedKept ==
    ASSUME UdpInv, NEW c, NEW id, Carried(c, id), UNCHANGED <<acks, relayed, lpc>>,
           late' \subseteq Datagram, \A d \in late' : d.late /\ d.id >= 0,
           cpc' \in [Clients -> {"send", "fin", "select", "done"}],
           sent' \in [Clients -> 0 .. MaxData], finID' \in [Clients -> Nat],
           \A e \in Clients : finID'[e] \in 0 .. sent'[e] + 1,
           tries' \in [Clients -> 0 .. MaxTries],
           \A e \in Clients :
              /\ cpc'[e] = "send" => tries'[e] = 0
              /\ cpc'[e] = "fin" => tries'[e] < MaxTries
              /\ cpc[e] = "done" => cpc'[e] = "done"
              /\ arrived[e].fin \/ (e = c /\ id < 0)
                    => cpc'[e] # "send" /\ finID'[e] > 0
    PROVE  UdpInv'
<1>1. TypeOK'
  BY DEF UdpInv, TypeOK, Carried
<1>2. Places'
  <2>1. sent' \in [Clients -> Nat]
    BY Bounds
  <2>2. \A s \in DOMAIN sessions' :
          /\ sessions'[s].pc = "recv" => sessions'[s].tries = 0
          /\ sessions'[s].pc = "ack" => sessions'[s].tries < MaxTries
    BY DEF UdpInv, Places, Carried
  <2>3. \A e \in Clients :
          arrived'[e].fin => cpc'[e] # "send" /\ finID'[e] > 0
    BY DEF Carried
  <2> QED
    BY <2>1, <2>2, <2>3 DEF Places
<1>3. SessionsKept
  BY DEF SessionsKept, Carried
<1>4. Answers'
  BY <1>3, AnswersKept DEF UdpInv
<1> QED
  BY <1>1, <1>2, <1>4 DEF UdpInv, Carried

\* What UdpInv says of the clients, as functions.
LEMMA ClientType ==
    ASSUME UdpInv
    PROVE  /\ cpc \in [Clients -> {"send", "fin", "select", "done"}]
           /\ sent \in [Clients -> 0 .. MaxData] /\ finID \in [Clients -> Nat]
           /\ \A c \in Clients : finID[c] \in 0 .. sent[c] + 1
           /\ tries \in [Clients -> 0 .. MaxTries]
           /\ \A c \in Clients :
                 /\ cpc[c] = "send" => tries[c] = 0
                 /\ cpc[c] = "fin" => tries[c] < MaxTries
                 /\ arrived[c].fin => cpc[c] # "send" /\ finID[c] > 0
           /\ late \subseteq Datagram /\ \A d \in late : d.late /\ d.id >= 0
<1>1. sent \in [Clients -> Nat] /\ \A c \in Clients : sent[c] \in 0 .. MaxData
  BY DEF UdpInv, TypeOK, Places
<1>2. sent \in [Clients -> 0 .. MaxData]
  BY <1>1
<1> QED
  BY <1>2 DEF UdpInv, TypeOK, Places

\* A turn of the loop of Client::Run (Send).
LEMMA SendStep ==
    ASSUME UdpInv, NEW c \in Clients, Send(c)
    PROVE  UdpInv'
<1>1. /\ cpc[c] = "send" /\ sent[c] < MaxData /\ Write(c, sent[c])
      /\ sent' = [sent EXCEPT ![c] = @ + 1]
      /\ UNCHANGED <<cpc, finID, tries, relayed, acks, lpc>>
  BY DEF Send
<1>2. sent[c] \in 0 .. MaxData /\ sent[c] \in Int /\ ~arrived[c].fin
      /\ ~(sent[c] < 0)
  BY <1>1, ClientType
<1>3. /\ Carried(c, sent[c])
      /\ late' \subseteq Datagram /\ \A d \in late' : d.late /\ d.id >= 0
  BY <1>1, <1>2, WriteStep DEF UdpInv
<1>4. /\ sent' \in [Clients -> 0 .. MaxData]
      /\ \A e \in Clients : finID'[e] \in 0 .. sent'[e] + 1
  <2>1. sent[c] + 1 \in 0 .. MaxData
    BY <1>1, <1>2
  <2>2. /\ sent' \in [Clients -> 0 .. MaxData]
        /\ \A e \in Clients : sent'[e] = IF e = c THEN sent[e] + 1 ELSE sent[e]
    BY <1>1, <2>1, ClientType
  <2>3. ASSUME NEW e \in Clients PROVE finID'[e] \in 0 .. sent'[e] + 1
    <3>1. sent[e] \in Nat /\ finID[e] \in 0 .. sent[e] + 1
      BY ClientType
    <3> QED
      BY <1>1, <2>2, <3>1
  <2> QED
    BY <2>2, <2>3
<1>5. /\ cpc' \in [Clients -> {"send", "fin", "select", "done"}]
      /\ finID' \in [Clients -> Nat] /\ tries' \in [Clients -> 0 .. MaxTries]
      /\ \A e \in Clients :
              /\ cpc'[e] = "send" => tries'[e] = 0
              /\ cpc'[e] = "fin" => tries'[e] < MaxTries
              /\ cpc[e] = "done" => cpc'[e] = "done"
              /\ arrived[e].fin \/ (e = c /\ sent[c] < 0)
                    => cpc'[e] # "send" /\ finID'[e] > 0
  BY <1>1, <1>2, ClientType
<1> QED
  BY <1>1, <1>3, <1>4, <1>5, CarriedKept

\* A client step that touches no queue.
LEMMA QuietStep ==
    ASSUME UdpInv, UNCHANGED <<acks, relayed, late, lpc, lq, arrived, sessions>>,
           refused' \subseteq refused,
           cpc' \in [Clients -> {"send", "fin", "select", "done"}],
           UNCHANGED <<sent, tries>>, finID' \in [Clients -> Nat],
           \A e \in Clients : finID'[e] \in 0 .. sent[e] + 1,
           \A e \in Clients :
              /\ cpc'[e] = "send" => tries[e] = 0
              /\ cpc'[e] = "fin" => tries[e] < MaxTries
              /\ cpc[e] = "done" => cpc'[e] = "done"
              /\ arrived[e].fin => cpc'[e] # "send" /\ finID'[e] > 0
    PROVE  UdpInv'
<1>1. QueueInv'
  BY QueueSame DEF UdpInv
<1>2. TypeOK'
  BY DEF UdpInv, TypeOK
<1>3. Places'
  BY ClientType DEF UdpInv, Places
<1>4. SessionsKept
  BY DEF SessionsKept
<1>5. Answers'
  BY <1>4, AnswersKept DEF UdpInv
<1> QED
  BY <1>1, <1>2, <1>3, <1>5 DEF UdpInv

\* Close, and the turns of write_UDP_FIN that read no answer.
LEMMA CloseStep ==
    ASSUME UdpInv, NEW c \in Clients, Close(c) \/ FinTimeout(c) \/ FinRefused(c)
    PROVE  UdpInv'
<1>1. CASE Close(c)
  <2>1. /\ cpc[c] = "send" /\ cpc' = [cpc EXCEPT ![c] = "fin"]
        /\ UNCHANGED <<sent, tries, relayed, acks, late, refused, lpc, lq,
                       arrived, sessions>>
    BY <1>1 DEF Close
  <2>2. PICK n \in 0 .. sent[c] + 1 : finID' = [finID EXCEPT ![c] = n]
    BY <1>1 DEF Close
  <2>3. sent[c] \in Nat /\ n \in Nat /\ MaxTries \in Nat /\ MaxTries > 0
    BY <2>2, ClientType
  <2>4. /\ finID' \in [Clients -> Nat]
        /\ \A e \in Clients : finID'[e] = IF e = c THEN n ELSE finID[e]
    BY <2>2, <2>3, ClientType
  <2>5. /\ cpc' \in [Clients -> {"send", "fin", "select", "done"}]
        /\ \A e \in Clients : cpc'[e] = IF e = c THEN "fin" ELSE cpc[e]
    BY <2>1, ClientType
  <2>6. \A e \in Clients : finID'[e] \in 0 .. sent[e] + 1
    BY <2>2, <2>4, ClientType
  <2>7. \A e \in Clients :
              /\ cpc'[e] = "send" => tries[e] = 0
              /\ cpc'[e] = "fin" => tries[e] < MaxTries
              /\ cpc[e] = "done" => cpc'[e] = "done"
              /\ arrived[e].fin => cpc'[e] # "send" /\ finID'[e] > 0
    BY <2>1, <2>3, <2>4, <2>5, ClientType
  <2> QED
    BY <2>1, <2>4, <2>5, <2>6, <2>7, QuietStep
<1>2. CASE FinTimeout(c) \/ FinRefused(c)
  <2>1. /\ cpc[c] = "select" /\ refused' \subseteq refused
        /\ UNCHANGED <<sent, finID, tries, relayed, acks, late, lpc, lq, arrived,
                       sessions>>
        /\ \E p \in {"fin", "done"} :
              /\ cpc' = [cpc EXCEPT ![c] = p]
              /\ p = "fin" => tries[c] < MaxTries
    BY <1>2 DEF FinTimeout, FinRefused
  <2>2. PICK p \in {"fin", "done"} :
              /\ cpc' = [cpc EXCEPT ![c] = p]
              /\ p = "fin" => tries[c] < MaxTries
    BY <2>1
  <2>3. /\ cpc' \in [Clients -> {"send", "fin", "select", "done"}]
        /\ \A e \in Clients : cpc'[e] = IF e = c THEN p ELSE cpc[e]
    BY <2>2, ClientType
  <2>4. \A e \in Clients :
              /\ cpc'[e] = "send" => tries[e] = 0
              /\ cpc'[e] = "fin" => tries[e] < MaxTries
              /\ cpc[e] = "done" => cpc'[e] = "done"
              /\ arrived[e].fin => cpc'[e] # "send" /\ finID'[e] > 0
    BY <2>1, <2>2, <2>3, ClientType
  <2> QED
    BY <2>1, <2>3, <2>4, ClientType, QuietStep
<1> QED
  BY <1>1, <1>2

\* A FIN of write_UDP_FIN goes out, the first or a retry (Fin).
LEMMA FinStep ==
    ASSUME UdpInv, NEW c \in Clients, Fin(c)
    PROVE  UdpInv'
<1> DEFINE id == -finID[c]
<1>1. /\ cpc[c] = "fin" /\ Write(c, id)
      /\ tries' = [tries EXCEPT ![c] = @ + 1]
      /\ cpc' = [cpc EXCEPT ![c] = "select"]
      /\ UNCHANGED <<sent, finID, relayed, acks, lpc>>
  BY DEF Fin
<1>2. /\ finID[c] \in Nat /\ id \in Int /\ (id >= 0 => finID[c] = 0)
      /\ (id < 0 => finID[c] > 0)
      /\ tries[c] + 1 \in 0 .. MaxTries
  <2>1. finID[c] \in Nat /\ tries[c] \in 0 .. MaxTries /\ tries[c] < MaxTries
    BY <1>1, ClientType
  <2> QED
    BY <2>1
<1> HIDE DEF id
<1>3. id >= 0 => ~arrived[c].fin
  BY <1>2, ClientType
<1>4. /\ Carried(c, id)
      /\ late' \subseteq Datagram /\ \A d \in late' : d.late /\ d.id >= 0
  BY <1>1, <1>2, <1>3, WriteStep DEF UdpInv
<1>5. /\ tries' \in [Clients -> 0 .. MaxTries]
      /\ \A e \in Clients : e # c => tries'[e] = tries[e]
      /\ cpc' \in [Clients -> {"send", "fin", "select", "done"}]
      /\ \A e \in Clients : cpc'[e] = IF e = c THEN "select" ELSE cpc[e]
  BY <1>1, <1>2, ClientType
<1>6. /\ finID' \in [Clients -> Nat] /\ sent' \in [Clients -> 0 .. MaxData]
      /\ \A e \in Clients : finID'[e] \in 0 .. sent'[e] + 1
  BY <1>1, ClientType
<1>7. \A e \in Clients :
              /\ cpc'[e] = "send" => tries'[e] = 0
              /\ cpc'[e] = "fin" => tries'[e] < MaxTries
              /\ cpc[e] = "done" => cpc'[e] = "done"
              /\ arrived[e].fin \/ (e = c /\ id < 0)
                    => cpc'[e] # "send" /\ finID'[e] > 0
  BY <1>1, <1>2, <1>5, ClientType
<1> QED
  BY <1>1, <1>4, <1>5, <1>6, <1>7, CarriedKept

\* write_UDP_FIN reads an answer: it was final when it was written, and it is
\* the only one the client prints (FinAcked).
LEMMA AckedStep ==
    ASSUME UdpInv, NEW c \in Clients, FinAcked(c)
    PROVE  UdpInv'
<1> DEFINE x == Head(acks[c])
<1>1. /\ cpc[c] = "select" /\ acks[c] # <<>>
      /\ relayed' = [relayed EXCEPT ![c] = Append(@, x)]
      /\ acks' = [acks EXCEPT ![c] = <<>>]
      /\ cpc' = [cpc EXCEPT ![c] = "done"]
      /\ UNCHANGED <<sent, finID, tries, late, refused, lpc, lq, arrived,
                     sessions>>
  BY DEF FinAcked
<1>2. /\ acks \in [Clients -> Seq(Seq(Datagram))]
      /\ relayed \in [Clients -> Seq(Seq(Datagram))]
  BY DEF UdpInv, TypeOK
<1>3. x \in Seq(Datagram) /\ x = acks[c][1] /\ 1 \in DOMAIN acks[c]
  <2> DEFINE D == Seq(Datagram)
  <2>1. acks[c] \in Seq(D)
    BY <1>2
  <2> HIDE DEF D
  <2>2. x \in D /\ x = acks[c][1] /\ 1 \in DOMAIN acks[c]
    BY <1>1, <2>1
  <2> QED
    BY <2>2 DEF D
<1> HIDE DEF x
<1>4. relayed[c] = <<>> /\ Final(c, x)
  BY <1>1, <1>3 DEF UdpInv, Answers
<1>5. /\ cpc' \in [Clients -> {"send", "fin", "select", "done"}]
      /\ \A e \in Clients : cpc'[e] = IF e = c THEN "done" ELSE cpc[e]
  BY <1>1, ClientType
<1>6. /\ \A e \in Clients : acks'[e] = IF e = c THEN <<>> ELSE acks[e]
      /\ \A e \in Clients : relayed'[e] = IF e = c THEN <<x>> ELSE relayed[e]
      /\ acks' \in [Clients -> Seq(Seq(Datagram))]
      /\ relayed' \in [Clients -> Seq(Seq(Datagram))]
  <2> DEFINE D == Seq(Datagram)
  <2>1. x \in D /\ acks \in [Clients -> Seq(D)] /\ relayed \in [Clients -> Seq(D)]
    BY <1>2, <1>3
  <2> HIDE DEF D
  <2>2. <<>> \in Seq(D) /\ <<x>> \in Seq(D) /\ Append(relayed[c], x) = <<x>>
    BY <1>4, <2>1
  <2>3. relayed' = [relayed EXCEPT ![c] = <<x>>]
    BY <1>1, <2>1, <2>2
  <2>4. /\ acks' \in [Clients -> Seq(D)]
        /\ \A e \in Clients : acks'[e] = IF e = c THEN <<>> ELSE acks[e]
    BY <1>1, <2>1, <2>2
  <2>5. /\ relayed' \in [Clients -> Seq(D)]
        /\ \A e \in Clients : relayed'[e] = IF e = c THEN <<x>> ELSE relayed[e]
    BY <2>1, <2>2, <2>3
  <2> QED
    BY <2>4, <2>5 DEF D
<1>7. QueueInv'
  BY <1>1, QueueSame DEF UdpInv
<1>8. TypeOK'
  BY <1>1, <1>5, <1>6 DEF UdpInv, TypeOK
<1>9. Places'
  BY <1>1, <1>5, ClientType DEF UdpInv, Places
<1>10. Answers'
  <2>1. \A e, y : Final(e, y) => FinalNext(e, y)
    BY <1>1 DEF Final, FinalNext
  <2>2. ASSUME NEW e \in Clients
        PROVE  /\ \A i \in DOMAIN acks'[e] : FinalNext(e, acks'[e][i])
               /\ \/ relayed'[e] = <<>>
                  \/ /\ cpc'[e] = "done"
                     /\ \E y : relayed'[e] = <<y>> /\ FinalNext(e, y)
    <3>1. CASE e = c
      <4>1. acks'[e] = <<>> /\ relayed'[e] = <<x>> /\ cpc'[e] = "done"
        BY <1>5, <1>6, <3>1
      <4>2. FinalNext(e, x)
        BY <1>4, <2>1, <3>1
      <4>3. DOMAIN <<>> = {}
        OBVIOUS
      <4> QED
        BY <4>1, <4>2, <4>3
    <3>2. CASE e # c
      BY <1>5, <1>6, <2>1, <3>2 DEF UdpInv, Answers
    <3> QED
      BY <3>1, <3>2
  <2> QED
    BY <2>2, AnswersNext
<1> QED
  BY <1>7, <1>8, <1>9, <1>10 DEF UdpInv

\* A delayed datagram arrives, perhaps after its client's FIN (LateArrival).
LEMMA LateStep ==
    ASSUME UdpInv, NEW d \in late, LateArrival(d)
    PROVE  UdpInv'
<1>1. /\ late' = late \ {d} /\ Arrive(d)
      /\ UNCHANGED <<cpc, sent, finID, tries, relayed, acks, lpc>>
  BY DEF LateArrival, client
<1>2. d \in Datagram /\ d.late /\ d.id >= 0 /\ d.id \in Int
  BY ClientType DEF Datagram
<1>3. Carried(d.from, d.id)
  <2>1. ~Timely(d)
    BY <1>2 DEF Timely
  <2> QED
    BY <1>1, <1>2, <2>1, ArriveStep DEF UdpInv, Carried
<1>4. late' \subseteq Datagram /\ \A e \in late' : e.late /\ e.id >= 0
  BY <1>1, ClientType
<1>5. \A e \in Clients :
              /\ cpc'[e] = "send" => tries'[e] = 0
              /\ cpc'[e] = "fin" => tries'[e] < MaxTries
              /\ cpc[e] = "done" => cpc'[e] = "done"
              /\ arrived[e].fin \/ (e = d.from /\ d.id < 0)
                    => cpc'[e] # "send" /\ finID'[e] > 0
  <2>1. ~(d.id < 0)
    BY <1>2
  <2> QED
    BY <1>1, <2>1, ClientType
<1>6. /\ cpc' \in [Clients -> {"send", "fin", "select", "done"}]
      /\ finID' \in [Clients -> Nat] /\ tries' \in [Clients -> 0 .. MaxTries]
      /\ sent' \in [Clients -> 0 .. MaxData]
      /\ \A e \in Clients : finID'[e] \in 0 .. sent'[e] + 1
  BY <1>1, ClientType
<1> QED
  BY <1>1, <1>3, <1>4, <1>5, <1>6, CarriedKept

\* Accept takes a datagram: data starts a session, a FIN is dropped, and the
\* client is never still in the list (ListenerRecv).
LEMMA ListenerStep ==
    ASSUME UdpInv, ListenerRecv
    PROVE  UdpInv'
<1> DEFINE d == Head(lq)
           x == [peer |-> d.from, late |-> d.late,
                 mixed |-> \E i \in DOMAIN lq : lq[i].from # d.from,
                 q |-> Tail(lq), counted |-> <<>>, pc |-> "recv", tries |-> 0]
<1>1. /\ lq # <<>>
      /\ UNCHANGED <<cpc, sent, finID, tries, relayed, acks, late, refused,
                     arrived>>
      /\ IF ~Present(d.from) /\ d.id >= 0
           THEN /\ lq' = <<>>
                /\ sessions' = Append(sessions, x)
                /\ lpc' = "listen"
           ELSE lq' = Tail(lq) /\ UNCHANGED <<lpc, sessions>>
  BY DEF ListenerRecv, TakeDatagram, client
<1>2. lq \in Seq(Datagram) /\ sessions \in Seq(Session)
  BY DEF UdpInv, TypeOK
<1>3. /\ d = lq[1] /\ 1 \in DOMAIN lq /\ Tail(lq) \in Seq(Datagram)
      /\ d.from \in Clients /\ d.late \in BOOLEAN /\ d.id \in Int
  BY <1>1, <1>2, Taken, Numbers
<1>4. ~Present(d.from)
  BY <1>3 DEF Present, UdpInv, QueueInv, Waiting
<1>5. CASE d.id >= 0
  <2>1. lq' = <<>> /\ sessions' = Append(sessions, x) /\ lpc' = "listen"
    BY <1>1, <1>4, <1>5
  <2>2. x \in Session
    <3>1. 0 \in 0 .. MaxTries
      OBVIOUS
    <3>2. <<>> \in Seq(Datagram)
      OBVIOUS
    <3>3. (\E i \in DOMAIN lq : lq[i].from # d.from) \in BOOLEAN
      OBVIOUS
    <3> QED
      BY <1>3, <3>1, <3>2, <3>3 DEF Session
  <2>3. /\ x.peer = d.from /\ x.late = d.late
        /\ x.mixed <=> \E i \in DOMAIN lq : lq[i].from # d.from
        /\ x.q = Tail(lq) /\ x.counted = <<>> /\ x.pc = "recv" /\ x.tries = 0
    OBVIOUS
  <2> HIDE DEF x
  <2>4. QueueInv'
    BY <1>1, <1>5, <2>1, <2>2, <2>3, StartSession DEF UdpInv
  <2>5. /\ sessions' \in Seq(Session)
        /\ \A s \in DOMAIN sessions :
              s \in DOMAIN sessions' /\ sessions'[s] = sessions[s]
        /\ \A s \in DOMAIN sessions' :
              sessions'[s] = x \/ (s \in DOMAIN sessions /\ sessions'[s] = sessions[s])
    BY <1>2, <2>1, <2>2
  <2>6. TypeOK'
    <3>1. <<>> \in Seq(Datagram)
      OBVIOUS
    <3> QED
      BY <1>1, <2>1, <2>5, <3>1 DEF UdpInv, TypeOK
  <2>7. Places'
    BY <1>1, <2>3, <2>5 DEF UdpInv, Places
  <2>8. SessionsKept
    BY <2>5 DEF SessionsKept
  <2>9. Answers'
    BY <1>1, <2>8, AnswersKept DEF UdpInv
  <2> QED
    BY <2>4, <2>6, <2>7, <2>9 DEF UdpInv
<1>6. CASE ~(d.id >= 0)
  <2>1. lq' = Tail(lq) /\ UNCHANGED <<lpc, sessions>> /\ d.id < 0
    BY <1>1, <1>3, <1>6
  <2>2. QueueInv'
    BY <1>1, <2>1, DropFin DEF UdpInv
  <2>3. TypeOK'
    BY <1>1, <1>3, <2>1 DEF UdpInv, TypeOK
  <2>4. Places'
    BY <1>1, <2>1 DEF UdpInv, Places
  <2>5. SessionsKept
    BY <2>1 DEF SessionsKept
  <2>6. Answers'
    BY <1>1, <2>5, AnswersKept DEF UdpInv
  <2> QED
    BY <2>2, <2>3, <2>4, <2>6 DEF UdpInv
<1> QED
  BY <1>5, <1>6

\* The listener opens its next socket (Listen).
LEMMA ListenStep ==
    ASSUME UdpInv, Listen
    PROVE  UdpInv'
<1>1. /\ lpc' = "recv"
      /\ UNCHANGED <<cpc, sent, finID, tries, relayed, acks, late, refused, lq,
                     arrived, sessions>>
  BY DEF Listen, client
<1>2. QueueInv'
  BY <1>1, QueueSame DEF UdpInv
<1>3. TypeOK' /\ Places'
  BY <1>1 DEF UdpInv, TypeOK, Places
<1>4. SessionsKept
  BY <1>1 DEF SessionsKept
<1>5. Answers'
  BY <1>1, <1>4, AnswersKept DEF UdpInv
<1> QED
  BY <1>2, <1>3, <1>5 DEF UdpInv

\* What a step of one server thread keeps, its answer apart.
LEMMA ServerKept ==
    ASSUME UdpInv, NEW s \in DOMAIN sessions, NEW x \in Session,
           sessions' = [sessions EXCEPT ![s] = x],
           UNCHANGED <<client, late, refused, lpc, lq, arrived>>,
           acks' \in [Clients -> Seq(Seq(Datagram))],
           x.peer = sessions[s].peer,
           sessions[s].pc # "recv" =>
              x.pc # "recv" /\ x.counted = sessions[s].counted,
           x.pc = "recv" => x.tries = 0,
           x.pc = "ack" => x.tries < MaxTries
    PROVE  TypeOK' /\ Places' /\ SessionsKept
<1>1. /\ sessions' \in Seq(Session)
      /\ DOMAIN sessions' = DOMAIN sessions
      /\ sessions'[s] = x
      /\ \A r \in DOMAIN sessions : r # s => sessions'[r] = sessions[r]
  BY Updated DEF UdpInv, TypeOK
<1>2. TypeOK'
  BY <1>1 DEF UdpInv, TypeOK, client
<1>3. Places'
  <2>1. \A r \in DOMAIN sessions' :
          /\ sessions'[r].pc = "recv" => sessions'[r].tries = 0
          /\ sessions'[r].pc = "ack" => sessions'[r].tries < MaxTries
    BY <1>1 DEF UdpInv, Places
  <2> QED
    BY <2>1 DEF UdpInv, Places, client
<1>4. SessionsKept
  BY <1>1 DEF SessionsKept
<1> QED
  BY <1>2, <1>3, <1>4

\* Server::Run counts a datagram or meets the FIN (ServerRecv).
LEMMA ServerRecvStep ==
    ASSUME UdpInv, NEW s \in DOMAIN sessions, ServerRecv(s)
    PROVE  UdpInv'
<1> DEFINE y == sessions[s]
           d == Head(y.q)
           e == [d EXCEPT !.id = IF @ < 0 THEN -@ ELSE @]
           p == IF d.id < 0 THEN "ack" ELSE "recv"
           x == [y EXCEPT !.q = Tail(y.q), !.counted = Append(y.counted, e),
                          !.pc = p]
<1>1. /\ sessions \in Seq(Session) /\ y \in Session /\ y.pc = "recv"
      /\ y.q # <<>> /\ UNCHANGED <<client, acks, late, refused, lpc, lq, arrived>>
      /\ acks \in [Clients -> Seq(Seq(Datagram))] /\ y.tries = 0
  BY DEF UdpInv, TypeOK, Places, ServerRecv
<1>2. sessions' = [sessions EXCEPT ![s] = x]
  BY <1>1 DEF ServerRecv, Session
<1>3. /\ y.q \in Seq(Datagram) /\ y.counted \in Seq(Datagram)
      /\ d \in Datagram /\ d.id \in Int /\ Tail(y.q) \in Seq(Datagram)
  <2>1. y.q \in Seq(Datagram) /\ y.counted \in Seq(Datagram)
    BY <1>1, SessionType
  <2> QED
    BY <1>1, <2>1, Taken, Numbers
<1>4. e \in Datagram
  BY <1>3 DEF Datagram
<1>5. /\ Append(y.counted, e) \in Seq(Datagram)
      /\ Len(Append(y.counted, e)) = Len(y.counted) + 1
  <2> HIDE DEF y, e
  <2> QED
    BY <1>3, <1>4
<1>6. p \in {"ack", "recv"}
  OBVIOUS
<1>7. /\ x \in Session
      /\ x.peer = y.peer /\ x.late = y.late /\ x.mixed = y.mixed
      /\ x.q = Tail(y.q) /\ x.counted = Append(y.counted, e) /\ x.pc = p
      /\ x.tries = y.tries
  <2> HIDE DEF y, d, e, p
  <2> QED
    BY <1>1, <1>3, <1>5, <1>6 DEF Session
<1> HIDE DEF x
<1>8. QueueInv'
  BY <1>1, <1>2, <1>5, <1>7, RecvStep DEF UdpInv
<1>9. TypeOK' /\ Places' /\ SessionsKept
  <2>1. 0 < MaxTries
    OBVIOUS
  <2> QED
    BY <1>1, <1>2, <1>7, <2>1, ServerKept
<1>10. Answers'
  BY <1>1, <1>9, AnswersKept DEF UdpInv, client
<1> QED
  BY <1>8, <1>9, <1>10 DEF UdpInv

\* A server that has seen a FIN goes on, and answers nothing in this step.
LEMMA AfterFin ==
    ASSUME UdpInv, NEW s \in DOMAIN sessions,
           NEW q, NEW p \in {"ack", "select", "delete", "close", "gone"},
           sessions' = [sessions EXCEPT ![s].q = q, ![s].pc = p],
           UNCHANGED <<client, acks, late, refused, lpc, lq, arrived>>,
           sessions[s].pc \notin {"recv", "gone"},
           \/ q = sessions[s].q \/ q = <<>>
           \/ sessions[s].q # <<>> /\ q = Tail(sessions[s].q),
           sessions[s].pc = "close" => p = "gone",
           p = "ack" => sessions[s].tries < MaxTries
    PROVE  UdpInv'
<1> DEFINE y == sessions[s]
           x == [y EXCEPT !.q = q, !.pc = p]
<1>1. sessions \in Seq(Session) /\ y \in Session
      /\ acks \in [Clients -> Seq(Seq(Datagram))]
  BY DEF UdpInv, TypeOK
<1>2. sessions' = [sessions EXCEPT ![s] = x]
  BY <1>1 DEF Session
<1>3. q \in Seq(Datagram)
  <2>1. y.q \in Seq(Datagram)
    BY <1>1, SessionType
  <2>2. <<>> \in Seq(Datagram)
    OBVIOUS
  <2>3. y.q # <<>> => Tail(y.q) \in Seq(Datagram)
    BY <2>1, Taken
  <2> QED
    BY <2>1, <2>2, <2>3
<1>4. /\ x \in Session
      /\ x.peer = y.peer /\ x.late = y.late /\ x.mixed = y.mixed
      /\ x.q = q /\ x.counted = y.counted /\ x.pc = p /\ x.tries = y.tries
  <2> HIDE DEF y
  <2> QED
    BY <1>1, <1>3 DEF Session
<1> HIDE DEF x
<1>5. QueueInv'
  BY <1>2, <1>4, ClosedStep DEF UdpInv
<1>6. TypeOK' /\ Places' /\ SessionsKept
  <2>1. x.pc # "recv" /\ (x.pc = "ack" => x.tries < MaxTries)
    BY <1>4
  <2>2. acks' \in [Clients -> Seq(Seq(Datagram))]
    BY <1>1
  <2> QED
    BY <1>2, <1>4, <2>1, <2>2, ServerKept
<1>7. Answers'
  BY <1>6, AnswersKept DEF UdpInv, client
<1> QED
  BY <1>5, <1>6, <1>7 DEF UdpInv

\* write_UDP_AckFIN sends the report, which is final by then (AckFin).
LEMMA AckFinStep ==
    ASSUME UdpInv, NEW s \in DOMAIN sessions, AckFin(s)
    PROVE  UdpInv'
<1> DEFINE y == sessions[s]
           x == [y EXCEPT !.pc = "select", !.tries = y.tries + 1]
           c == y.peer
<1>1. /\ sessions \in Seq(Session) /\ y \in Session /\ y.pc = "ack"
      /\ UNCHANGED <<client, late, refused, lpc, lq, arrived>>
      /\ acks \in [Clients -> Seq(Seq(Datagram))] /\ y.tries < MaxTries
      /\ acks' = acks \/ acks' = [acks EXCEPT ![c] = Append(@, y.counted)]
  <2>1. /\ y.pc = "ack" /\ UNCHANGED <<client, late, refused, lpc, lq, arrived>>
        /\ acks' = acks \/ acks' = [acks EXCEPT ![c] = Append(@, y.counted)]
    BY DEF AckFin
  <2>2. /\ sessions \in Seq(Session) /\ y \in Session
        /\ acks \in [Clients -> Seq(Seq(Datagram))]
    BY DEF UdpInv, TypeOK
  <2>3. y.tries < MaxTries
    BY <2>1 DEF UdpInv, Places
  <2> QED
    BY <2>1, <2>2, <2>3
<1>2. sessions' = [sessions EXCEPT ![s] = x]
  BY <1>1 DEF AckFin, Session
<1>3. y.tries + 1 \in 0 .. MaxTries /\ c \in Clients /\ y.counted \in Seq(Datagram)
  <2>1. y.tries \in 0 .. MaxTries
    BY <1>1, SessionType
  <2>2. c \in Clients /\ y.counted \in Seq(Datagram)
    BY <1>1, SessionType
  <2> HIDE DEF y, c
  <2> QED
    BY <1>1, <2>1, <2>2
<1>4. /\ x \in Session
      /\ x.peer = y.peer /\ x.late = y.late /\ x.mixed = y.mixed
      /\ x.q = y.q /\ x.counted = y.counted /\ x.pc = "select"
  <2> HIDE DEF y, c
  <2> QED
    BY <1>1, <1>3 DEF Session
<1> HIDE DEF x
<1>5. QueueInv'
  <2>1. /\ x.pc # "recv" /\ sessions[s].pc \notin {"recv", "gone"}
        /\ \/ x.q = sessions[s].q \/ x.q = <<>>
           \/ sessions[s].q # <<>> /\ x.q = Tail(sessions[s].q)
        /\ sessions[s].pc = "close" => x.pc = "gone"
        /\ x.peer = sessions[s].peer /\ x.late = sessions[s].late
        /\ x.mixed = sessions[s].mixed /\ x.counted = sessions[s].counted
        /\ UNCHANGED <<lq, arrived>>
    BY <1>1, <1>4
  <2>2. TypeOK /\ QueueInv
    BY DEF UdpInv
  <2> HIDE DEF y, c
  <2> QED
    BY <1>2, <1>4, <2>1, <2>2, ClosedStep
<1>6. /\ acks' \in [Clients -> Seq(Seq(Datagram))]
      /\ \A e \in Clients : \A i \in DOMAIN acks'[e] :
            \/ i \in DOMAIN acks[e] /\ acks'[e][i] = acks[e][i]
            \/ e = c /\ acks'[e][i] = y.counted
  <2> DEFINE D == Seq(Datagram)
             z == y.counted
             k == c
  <2>1. /\ acks \in [Clients -> Seq(D)] /\ z \in D /\ k \in Clients
        /\ acks' = acks \/ acks' = [acks EXCEPT ![k] = Append(@, z)]
    BY <1>1, <1>3
  <2> HIDE DEF D, z, k
  <2>2. CASE acks' = acks
    BY <2>1, <2>2 DEF D, z, k
  <2>3. CASE acks' = [acks EXCEPT ![k] = Append(@, z)]
    <3>1. Append(acks[k], z) \in Seq(D)
      BY <2>1
    <3>2. /\ acks' \in [Clients -> Seq(D)] /\ acks'[k] = Append(acks[k], z)
          /\ \A e \in Clients : e # k => acks'[e] = acks[e]
      BY <2>1, <2>3, <3>1
    <3>3. \A i \in DOMAIN Append(acks[k], z) :
            \/ i \in DOMAIN acks[k] /\ Append(acks[k], z)[i] = acks[k][i]
            \/ Append(acks[k], z)[i] = z
      BY <2>1
    <3> QED
      BY <3>2, <3>3 DEF D, z, k
  <2> QED
    BY <2>1, <2>2, <2>3
<1>7. TypeOK' /\ Places' /\ SessionsKept
  <2>1. x.pc # "recv" /\ x.pc # "ack"
    BY <1>4
  <2> QED
    BY <1>1, <1>2, <1>4, <1>6, <2>1, ServerKept
<1>8. Answers'
  <2>1. \A e, z : Final(e, z) => FinalNext(e, z)
    BY <1>7, FinalKept
  <2>2. FinalNext(c, y.counted)
    <3>1. s \in DOMAIN sessions' /\ sessions'[s] = x
      BY <1>1, <1>2
    <3> QED
      BY <1>4, <3>1 DEF FinalNext
  <2>3. UNCHANGED <<cpc, relayed>>
    BY <1>1 DEF client
  <2> HIDE DEF y, c
  <2>4. ASSUME NEW e \in Clients, NEW i \in DOMAIN acks'[e]
        PROVE  FinalNext(e, acks'[e][i])
    BY <1>6, <2>1, <2>2, <2>4 DEF UdpInv, Answers
  <2>5. ASSUME NEW e \in Clients
        PROVE  \/ relayed'[e] = <<>>
               \/ /\ cpc'[e] = "done"
                  /\ \E z : relayed'[e] = <<z>> /\ FinalNext(e, z)
    BY <2>1, <2>3 DEF UdpInv, Answers
  <2> QED
    BY <2>4, <2>5, AnswersNext
<1> QED
  BY <1>5, <1>7, <1>8 DEF UdpInv

\* The other steps of a server that has seen a FIN.
LEMMA ServerEndStep ==
    ASSUME UdpInv, NEW s \in DOMAIN sessions,
           AckFinReread(s) \/ AckFinTimeout(s) \/ Delete(s) \/ CloseSocket(s)
    PROVE  UdpInv'
<1>1. /\ sessions \in Seq(Session) /\ sessions[s] \in Session
      /\ UNCHANGED <<client, acks, late, refused, lpc, lq, arrived>>
  BY DEF UdpInv, TypeOK, AckFinReread, AckFinTimeout, Delete, CloseSocket
<1>2. CASE AckFinReread(s)
  <2> DEFINE p == IF sessions[s].tries < MaxTries THEN "ack" ELSE "delete"
             q == Tail(sessions[s].q)
  <2>1. /\ sessions[s].pc = "select" /\ sessions[s].q # <<>>
        /\ sessions' = [sessions EXCEPT ![s].q = q, ![s].pc = p]
    BY <1>2 DEF AckFinReread
  <2>2. /\ p \in {"ack", "select", "delete", "close", "gone"}
        /\ p = "ack" => sessions[s].tries < MaxTries
    OBVIOUS
  <2> HIDE DEF p
  <2> QED
    BY <1>1, <2>1, <2>2, AfterFin
<1>3. ASSUME NEW p \in {"delete", "close"},
             sessions' = [sessions EXCEPT ![s].pc = p],
             sessions[s].pc \in {"select", "delete"}
      PROVE  UdpInv'
  <2> DEFINE q == sessions[s].q
  <2>1. sessions' = [sessions EXCEPT ![s].q = q, ![s].pc = p]
    BY <1>1, <1>3 DEF Session
  <2>2. /\ p \in {"ack", "select", "delete", "close", "gone"} /\ p # "ack"
        /\ sessions[s].pc \notin {"recv", "gone", "close"}
        /\ \/ q = sessions[s].q \/ q = <<>>
           \/ sessions[s].q # <<>> /\ q = Tail(sessions[s].q)
    BY <1>3
  <2> HIDE DEF q
  <2> QED
    BY <1>1, <2>1, <2>2, AfterFin
<1>4. CASE CloseSocket(s)
  <2> DEFINE q == <<>>
  <2>1. /\ sessions[s].pc = "close"
        /\ sessions' = [sessions EXCEPT ![s].q = q, ![s].pc = "gone"]
    BY <1>1, <1>4 DEF CloseSocket, Session
  <2>2. /\ sessions[s].pc \notin {"recv", "gone"}
        /\ \/ q = sessions[s].q \/ q = <<>>
           \/ sessions[s].q # <<>> /\ q = Tail(sessions[s].q)
    BY <2>1
  <2> HIDE DEF q
  <2> QED
    BY <1>1, <2>1, <2>2, AfterFin
<1>5. CASE AckFinTimeout(s)
  BY <1>3, <1>5 DEF AckFinTimeout
<1>6. CASE Delete(s)
  BY <1>3, <1>6 DEF Delete
<1> QED
  BY <1>2, <1>4, <1>5, <1>6

\* The invariant holds when the server listens and nobody has sent.
LEMMA UdpInit ==
    ASSUME Init
    PROVE  UdpInv
<1>1. DOMAIN lq = {} /\ DOMAIN sessions = {}
      /\ \A c \in Clients : /\ DOMAIN acks[c] = {} /\ relayed[c] = <<>>
                            /\ arrived[c].data = 0 /\ ~arrived[c].fin
  BY DEF Init
<1>2. TypeOK
  <2>1. /\ <<>> \in Seq(Datagram) /\ <<>> \in Seq(Session)
        /\ <<>> \in Seq(Seq(Datagram))
    OBVIOUS
  <2>2. [data |-> 0, fin |-> FALSE] \in [data : Nat, fin : BOOLEAN]
    OBVIOUS
  <2>3. 0 \in 0 .. MaxData /\ 0 \in 0 .. MaxTries /\ 0 \in 0 .. 0 + 1
    OBVIOUS
  <2> QED
    BY <2>1, <2>2, <2>3 DEF Init, TypeOK
<1>3. Places
  BY <1>1 DEF Init, Places
<1>4. Answers
  BY <1>1 DEF Answers
<1>5. QueueInv
  BY <1>1 DEF QueueInv, Senders, Waiting, InTurn, OneSession, Accounted
<1> QED
  BY <1>2, <1>3, <1>4, <1>5 DEF UdpInv

\* Every step keeps the invariant.
LEMMA UdpStep ==
    ASSUME UdpInv, [Next]_vars
    PROVE  UdpInv'
<1>1. ASSUME NEW c \in Clients, Client(c) PROVE UdpInv'
  BY <1>1, SendStep, CloseStep, FinStep, AckedStep DEF Client
<1>2. ASSUME NEW d \in late, LateArrival(d) PROVE UdpInv'
  BY <1>2, LateStep
<1>3. ASSUME NEW s \in DOMAIN sessions, Server(s) PROVE UdpInv'
  BY <1>3, ServerRecvStep, AckFinStep, ServerEndStep DEF Server
<1>4. ASSUME UNCHANGED vars PROVE UdpInv'
  <2>1. UNCHANGED <<cpc, sent, finID, tries, relayed, acks, late, refused, lpc, lq,
                    arrived, sessions>>
    BY <1>4 DEF vars, client
  <2> QED
    BY <2>1, ClientType, QuietStep
<1> QED
  BY <1>1, <1>2, <1>3, <1>4, ListenerStep, ListenStep DEF Next

\* What ReportServerUDP prints at a client is the final report of a session of
\* its own that a FIN closed, for any number of clients, datagrams and tries.
THEOREM ReportsAreFinal == Spec => []RelayedIsFinal
<1>1. UdpInv => RelayedIsFinal
  BY DEF UdpInv, Answers, Final, RelayedIsFinal
<1> QED
  BY <1>1, UdpInit, UdpStep, PTL DEF Spec

\* A retried FIN, or a datagram still in a queue when the listener connects its
\* socket, starts no second session, for any number of clients.
THEOREM SessionsAreOne == Spec => []OneSession
<1>1. UdpInv => OneSession
  BY DEF UdpInv, QueueInv
<1> QED
  BY <1>1, UdpInit, UdpStep, PTL DEF Spec

\* A session that a FIN closed has counted as many datagrams as arrived before
\* the FIN: the FIN makes up for the first datagram, which Accept took.
THEOREM CountsAreEven == Spec => []Even
<1>1. UdpInv => Even
  BY DEF UdpInv, QueueInv, Accounted, Even
<1> QED
  BY <1>1, UdpInit, UdpStep, PTL DEF Spec

\* The loops of write_UDP_FIN and write_UDP_AckFIN never exceed their tries.
THEOREM TriesAreBounded == Spec => []TypeOK
<1>1. UdpInv => TypeOK
  BY DEF UdpInv
<1> QED
  BY <1>1, UdpInit, UdpStep, PTL DEF Spec

=============================================================================
