------------------------- MODULE PacketStatsProofs -------------------------
(***************************************************************************)
(* The counters of reporter_handle_packet and the reports made from them   *)
(* are exact for transfers of any length, with any numbers in any order.   *)
(*                                                                         *)
(* What one packet does to the counters depends on PacketID alone, while   *)
(* LossIdentity speaks of the set of all numbers seen.  The link is that   *)
(* PacketID bounds that set, and that cntError + packets and               *)
(* cntOutofOrder + PacketID grow together; the set only enters when        *)
(* missing and duplicates are counted, where its size cancels out.         *)
(*                                                                         *)
(* For the reports the counters are tied to the log: they are exact for all*)
(* of it, and their copy for what the interval reports cover.  A report is *)
(* the difference of the two, and no later packet changes what it says,    *)
(* because the packet in hand came after the report's end.  The bytes are  *)
(* sums over finite sets, which come first: the library defines a sum by a *)
(* recursive function and states no theorem about it.                      *)
(***************************************************************************)
EXTENDS PacketStats, FiniteSetTheorems, WellFoundedInduction, TLAPS

-----------------------------------------------------------------------------
(* Sums over finite sets *)

\* Every set of natural numbers has a least one.
LEMMA LeastNat ==
    ASSUME NEW T, T \subseteq Nat, T # {}
    PROVE  \E x \in T : \A y \in T : x <= y
<1>1. PICK x \in T : \A y \in T : ~(<<y, x>> \in OpToRel(<, Nat))
  BY NatLessThanWellFounded, WFMin
<1>2. \A y \in T : ~(y < x)
  BY <1>1 DEF OpToRel
<1> QED
  BY <1>2

\* A smallest set among some subsets of a finite set.
LEMMA Smallest ==
    ASSUME NEW S, IsFiniteSet(S), NEW B, B \subseteq SUBSET S, B # {}
    PROVE  \E s \in B : \A t \in B : Cardinality(s) <= Cardinality(t)
<1> DEFINE T == {Cardinality(s) : s \in B}
<1>1. \A s \in B : Cardinality(s) \in Nat
  BY FS_Subset, FS_CardinalityType
<1>2. T \subseteq Nat /\ T # {}
  BY <1>1
<1>3. PICK n \in T : \A m \in T : n <= m
  <2> HIDE DEF T
  <2> QED
    BY <1>2, LeastNat
<1>4. PICK s \in B : n = Cardinality(s)
  BY <1>3
<1> QED
  BY <1>3, <1>4

\* An element less.
LEMMA OneLess ==
    ASSUME NEW S, IsFiniteSet(S), NEW s \in SUBSET S, NEW x \in s
    PROVE  /\ s \ {x} \in SUBSET S
           /\ Cardinality(s) \in Nat /\ Cardinality(s \ {x}) \in Nat
           /\ Cardinality(s \ {x}) = Cardinality(s) - 1
<1>1. IsFiniteSet(s)
  BY FS_Subset
<1> QED
  BY <1>1, FS_RemoveElement, FS_CardinalityType

\* The equation of the sums of g over the subsets of S.
Some(s) == CHOOSE x \in s : TRUE
Added(g, F, s) == IF s = {} THEN 0 ELSE g[Some(s)] + F[s \ {Some(s)}]
Adds(g, S, F) == [s \in SUBSET S |-> Added(g, F, s)]

\* A set that has an element has the one that is chosen.
LEMMA SomeIn == \A s : s # {} => Some(s) \in s
  BY DEF Some

\* The equation has a solution: sums of small sets extend to larger ones.
LEMMA SumsExist ==
    ASSUME NEW S, IsFiniteSet(S), NEW g
    PROVE  \E F : F = Adds(g, S, F)
<1> DEFINE Sub(n) == {s \in SUBSET S : Cardinality(s) <= n}
           Up(n, F) == F = [s \in Sub(n) |-> Added(g, F, s)]
           Bad == {n \in Nat : ~\E F : Up(n, F)}
<1>0. \A s \in SUBSET S : IsFiniteSet(s) /\ Cardinality(s) \in Nat
  BY FS_Subset, FS_CardinalityType
<1>1. Bad = {}
  <2> SUFFICES ASSUME Bad # {} PROVE FALSE
    OBVIOUS
  <2>1. PICK n \in Bad : \A m \in Bad : n <= m
    <3>1. Bad \subseteq Nat
      OBVIOUS
    <3> HIDE DEF Bad
    <3> QED
      BY <3>1, LeastNat
  <2>2. n \in Nat /\ ~\E F : Up(n, F)
    OBVIOUS
  <2>3. CASE n = 0
    <3>1. \A s \in Sub(0) : s = {}
      BY <1>0, FS_EmptySet
    <3> DEFINE F == [s \in Sub(0) |-> 0]
    <3>2. F = [s \in Sub(0) |-> Added(g, F, s)]
      <4>1. \A s \in Sub(0) : Added(g, F, s) = 0
        BY <3>1 DEF Added
      <4> QED
        BY <4>1
    <3> QED
      BY <2>2, <2>3, <3>2
  <2>4. CASE n # 0
    <3>0. n - 1 \in Nat /\ ~(n <= n - 1)
      BY <2>2, <2>4
    <3>1. n - 1 \in Nat /\ n - 1 \notin Bad
      <4> HIDE DEF Bad
      <4> QED
        BY <2>1, <3>0
    <3>2. PICK F : Up(n - 1, F)
      BY <3>1
    <3> DEFINE G == [s \in Sub(n) |-> Added(g, F, s)]
    <3>3. \A s \in Sub(n) : s # {} => s \ {Some(s)} \in Sub(n - 1)
      <4> SUFFICES ASSUME NEW s \in Sub(n), s # {}
                   PROVE  s \ {Some(s)} \in Sub(n - 1)
        OBVIOUS
      <4>1. Some(s) \in s /\ s \in SUBSET S /\ Cardinality(s) <= n
        BY SomeIn
      <4>2. /\ s \ {Some(s)} \in SUBSET S
            /\ Cardinality(s) \in Nat
            /\ Cardinality(s \ {Some(s)}) = Cardinality(s) - 1
        BY <4>1, OneLess
      <4> QED
        BY <2>2, <4>1, <4>2
    <3>4. \A t \in Sub(n - 1) : t \in Sub(n) /\ G[t] = F[t]
      <4> SUFFICES ASSUME NEW t \in Sub(n - 1)
                   PROVE  t \in Sub(n) /\ G[t] = F[t]
        OBVIOUS
      <4>1. t \in Sub(n)
        BY <1>0, <2>2
      <4>2. F[t] = Added(g, F, t)
        <5>1. [s \in Sub(n - 1) |-> Added(g, F, s)][t] = Added(g, F, t)
          OBVIOUS
        <5> QED
          BY <3>2, <5>1
      <4> QED
        BY <4>1, <4>2
    <3>5. \A s \in Sub(n) : Added(g, G, s) = Added(g, F, s)
      <4> HIDE DEF G, Sub
      <4> QED
        BY <3>3, <3>4 DEF Added
    <3>6. Up(n, G)
      BY <3>5
    <3> QED
      BY <2>2, <3>6
  <2> QED
    BY <2>3, <2>4
<1>2. Cardinality(S) \in Nat /\ Sub(Cardinality(S)) = SUBSET S
  BY <1>0, FS_Subset, FS_CardinalityType
<1>3. PICK F : Up(Cardinality(S), F)
  BY <1>1, <1>2
<1>4. F = [s \in SUBSET S |-> Added(g, F, s)]
  BY <1>2, <1>3
<1> QED
  BY <1>4 DEF Adds

\* What the equation says of one set.
LEMMA SumOf ==
    ASSUME NEW S, NEW g, NEW F, F = Adds(g, S, F), NEW s \in SUBSET S
    PROVE  F[s] = Added(g, F, s)
<1>1. Adds(g, S, F)[s] = Added(g, F, s)
  BY DEF Adds
<1> QED
  BY <1>1

\* Sums of integers are integers.
LEMMA SumType ==
    ASSUME NEW S, IsFiniteSet(S), NEW g, \A x \in S : g[x] \in Int,
           NEW F, F = Adds(g, S, F)
    PROVE  \A s \in SUBSET S : F[s] \in Int
<1> DEFINE B == {s \in SUBSET S : F[s] \notin Int}
<1> SUFFICES ASSUME B # {} PROVE FALSE
  OBVIOUS
<1>1. PICK s \in B : \A t \in B : Cardinality(s) <= Cardinality(t)
  <2>1. B \subseteq SUBSET S
    OBVIOUS
  <2> HIDE DEF B
  <2> QED
    BY <2>1, Smallest
<1>2. F[s] = Added(g, F, s)
  BY SumOf
<1>3. s # {}
  BY <1>2 DEF Added
<1>4. Some(s) \in s
  BY <1>3, SomeIn
<1>5. s \ {Some(s)} \in SUBSET S /\ Cardinality(s) \in Nat
      /\ Cardinality(s \ {Some(s)}) = Cardinality(s) - 1
  BY <1>4, OneLess
<1>6. s \ {Some(s)} \notin B
  BY <1>1, <1>5
<1> QED
  BY <1>2, <1>3, <1>4, <1>5, <1>6 DEF Added

\* The sum does not depend on the order in which the elements are taken.
LEMMA SumSplit ==
    ASSUME NEW S, IsFiniteSet(S), NEW g, \A x \in S : g[x] \in Int,
           NEW F, F = Adds(g, S, F)
    PROVE  \A s \in SUBSET S : \A y \in s : F[s] = g[y] + F[s \ {y}]
<1> DEFINE B == {s \in SUBSET S : ~\A y \in s : F[s] = g[y] + F[s \ {y}]}
<1> SUFFICES ASSUME B # {} PROVE FALSE
  OBVIOUS
<1>1. PICK s \in B : \A t \in B : Cardinality(s) <= Cardinality(t)
  <2>1. B \subseteq SUBSET S
    OBVIOUS
  <2> HIDE DEF B
  <2> QED
    BY <2>1, Smallest
<1>2. PICK y \in s : F[s] # g[y] + F[s \ {y}]
  OBVIOUS
<1> DEFINE x == Some(s)
<1>3. s \in SUBSET S /\ x \in s /\ F[s] = g[x] + F[s \ {x}]
  BY SumOf, SomeIn DEF Added
<1> HIDE DEF x
<1>4. x # y
  BY <1>2, <1>3
<1>5. ASSUME NEW z \in s
      PROVE  /\ s \ {z} \in SUBSET S
             /\ \A w \in s \ {z} : F[s \ {z}] = g[w] + F[(s \ {z}) \ {w}]
  <2>1. /\ s \ {z} \in SUBSET S /\ Cardinality(s) \in Nat
        /\ Cardinality(s \ {z}) = Cardinality(s) - 1
    BY <1>3, OneLess
  <2>2. s \ {z} \notin B
    BY <1>1, <2>1
  <2> QED
    BY <2>1, <2>2
<1>6. F[s \ {x}] = g[y] + F[(s \ {x}) \ {y}]
  BY <1>2, <1>3, <1>4, <1>5
<1>7. F[s \ {y}] = g[x] + F[(s \ {y}) \ {x}]
  BY <1>2, <1>3, <1>4, <1>5
<1>8. (s \ {x}) \ {y} = (s \ {y}) \ {x} /\ (s \ {x}) \ {y} \in SUBSET S
  BY <1>3
<1>9. F[(s \ {x}) \ {y}] \in Int /\ g[x] \in Int /\ g[y] \in Int
  BY <1>2, <1>3, <1>8, SumType
<1> DEFINE a == g[x]
           b == g[y]
           rest == F[(s \ {x}) \ {y}]
<1>10. /\ a \in Int /\ b \in Int /\ rest \in Int
       /\ F[s] = a + (b + rest) /\ F[s \ {y}] = a + rest
  BY <1>3, <1>6, <1>7, <1>8, <1>9
<1>11. F[s] # b + F[s \ {y}]
  BY <1>2
<1> HIDE DEF a, b, rest
<1> QED
  BY <1>10, <1>11

\* It only depends on the numbers that are added.
LEMMA SumSame ==
    ASSUME NEW S, IsFiniteSet(S), NEW T, T \subseteq S,
           NEW g, NEW h, \A x \in T : g[x] = h[x],
           NEW F, F = Adds(g, S, F), NEW H, H = Adds(h, T, H)
    PROVE  \A s \in SUBSET T : F[s] = H[s]
<1> DEFINE B == {s \in SUBSET T : F[s] # H[s]}
<1> SUFFICES ASSUME B # {} PROVE FALSE
  OBVIOUS
<1>1. PICK s \in B : \A t \in B : Cardinality(s) <= Cardinality(t)
  <2>1. B \subseteq SUBSET S
    OBVIOUS
  <2> HIDE DEF B
  <2> QED
    BY <2>1, Smallest
<1>2. F[s] = Added(g, F, s) /\ H[s] = Added(h, H, s) /\ s \in SUBSET S
  BY SumOf
<1>3. s # {}
  BY <1>2 DEF Added
<1>4. Some(s) \in s
  BY <1>3, SomeIn
<1>5. s \ {Some(s)} \in SUBSET T /\ Cardinality(s) \in Nat
      /\ Cardinality(s \ {Some(s)}) = Cardinality(s) - 1
  BY <1>2, <1>4, OneLess
<1>6. s \ {Some(s)} \notin B
  BY <1>1, <1>5
<1>7. F[s \ {Some(s)}] = H[s \ {Some(s)}] /\ g[Some(s)] = h[Some(s)]
  BY <1>4, <1>5, <1>6
<1> QED
  BY <1>2, <1>3, <1>7 DEF Added

\* A set and the rest of it.
LEMMA SumRest ==
    ASSUME NEW S, IsFiniteSet(S), NEW g, \A x \in S : g[x] \in Int,
           NEW F, F = Adds(g, S, F), NEW R \in SUBSET S
    PROVE  \A s \in SUBSET (S \ R) : F[R \cup s] = F[R] + F[s]
<1> DEFINE B == {s \in SUBSET (S \ R) : F[R \cup s] # F[R] + F[s]}
<1> SUFFICES ASSUME B # {} PROVE FALSE
  OBVIOUS
<1>1. PICK s \in B : \A t \in B : Cardinality(s) <= Cardinality(t)
  <2>1. B \subseteq SUBSET S
    OBVIOUS
  <2> HIDE DEF B
  <2> QED
    BY <2>1, Smallest
<1>2. s \in SUBSET S /\ s \in SUBSET (S \ R) /\ F[R] \in Int
  BY SumType
<1>3. s # {}
  <2> SUFFICES ASSUME s = {} PROVE FALSE
    OBVIOUS
  <2>1. F[{}] = 0
    BY SumOf DEF Added
  <2>2. R \cup s = R
    OBVIOUS
  <2> QED
    BY <1>1, <1>2, <2>1, <2>2
<1>4. PICK x \in s : TRUE
  BY <1>3
<1>5. /\ s \ {x} \in SUBSET S /\ Cardinality(s) \in Nat
      /\ Cardinality(s \ {x}) = Cardinality(s) - 1
  BY <1>2, OneLess
<1>6. F[R \cup (s \ {x})] = F[R] + F[s \ {x}]
  <2>1. s \ {x} \notin B
    BY <1>1, <1>5
  <2> QED
    BY <1>2, <2>1
<1>7. F[s] = g[x] + F[s \ {x}]
  BY <1>2, SumSplit
<1>8. F[R \cup s] = g[x] + F[R \cup (s \ {x})]
  <2>1. /\ (R \cup s) \ {x} = R \cup (s \ {x})
        /\ R \cup s \in SUBSET S /\ x \in R \cup s
    BY <1>2
  <2>2. F[R \cup s] = g[x] + F[(R \cup s) \ {x}]
    BY <2>1, SumSplit
  <2> QED
    BY <2>1, <2>2
<1>9. g[x] \in Int /\ F[s \ {x}] \in Int
  BY <1>2, <1>5, SumType
<1>10. F[R \cup s] = F[R] + F[s]
  BY <1>2, <1>6, <1>7, <1>8, <1>9
<1> QED
  BY <1>1, <1>10

\* The sum of g over S.
Total(g, S) == (CHOOSE F : F = Adds(g, S, F))[S]

\* The sums a set determines, named by a solution of the equation of any
\* larger set.
LEMMA TotalIs ==
    ASSUME NEW S, IsFiniteSet(S), NEW g, NEW F, F = Adds(g, S, F),
           NEW T \in SUBSET S
    PROVE  Total(g, T) = F[T]
<1> DEFINE H == CHOOSE H : H = Adds(g, T, H)
<1>1. IsFiniteSet(T)
  BY FS_Subset
<1>2. H = Adds(g, T, H)
  BY <1>1, SumsExist
<1> HIDE DEF H
<1>3. F[T] = H[T]
  BY <1>2, SumSame
<1> QED
  BY <1>3 DEF Total, H

\* Totals are integers, and add up over a part of a set and the rest.
LEMMA TotalSplit ==
    ASSUME NEW S, IsFiniteSet(S), NEW g, \A x \in S : g[x] \in Int,
           NEW R \in SUBSET S
    PROVE  /\ Total(g, S) \in Int
           /\ Total(g, R) \in Int
           /\ Total(g, S \ R) = Total(g, S) - Total(g, R)
<1>1. PICK F : F = Adds(g, S, F)
  BY SumsExist
<1>2. S \ R \in SUBSET S /\ S \in SUBSET S /\ S \ R \in SUBSET (S \ R)
      /\ R \cup (S \ R) = S
  OBVIOUS
<1>3. Total(g, S) = F[S] /\ Total(g, R) = F[R] /\ Total(g, S \ R) = F[S \ R]
  BY <1>1, <1>2, TotalIs
<1>4. F[S] \in Int /\ F[R] \in Int /\ F[S \ R] \in Int
  BY <1>1, <1>2, SumType
<1>5. F[S] = F[R] + F[S \ R]
  <2>1. F[R \cup (S \ R)] = F[R] + F[S \ R]
    BY <1>1, <1>2, SumRest
  <2> QED
    BY <1>2, <2>1, Zenon
<1> DEFINE a == F[S]
           b == F[R]
           c == F[S \ R]
<1>6. a \in Int /\ b \in Int /\ c \in Int /\ a = b + c
  BY <1>4, <1>5
<1>7. Total(g, S) = a /\ Total(g, R) = b /\ Total(g, S \ R) = c
  BY <1>3
<1> HIDE DEF a, b, c
<1>8. c = a - b
  BY <1>6
<1> QED
  BY <1>6, <1>7, <1>8

\* One element adds its number.
LEMMA TotalTake ==
    ASSUME NEW S, IsFiniteSet(S), NEW g, \A y \in S : g[y] \in Int,
           NEW x \in S
    PROVE  Total(g, S) = Total(g, S \ {x}) + g[x]
<1>1. PICK F : F = Adds(g, S, F)
  BY SumsExist
<1>2. S \in SUBSET S /\ S \ {x} \in SUBSET S
  OBVIOUS
<1>3. F[S] = g[x] + F[S \ {x}]
  BY <1>1, <1>2, SumSplit
<1>4. Total(g, S) = F[S] /\ Total(g, S \ {x}) = F[S \ {x}]
  BY <1>1, <1>2, TotalIs
<1>5. F[S \ {x}] \in Int /\ g[x] \in Int
  BY <1>1, <1>2, SumType
<1>6. F[S] = F[S \ {x}] + g[x]
  BY <1>3, <1>5
<1> QED
  BY <1>4, <1>6

\* Equal numbers have equal totals.
LEMMA TotalSame ==
    ASSUME NEW S, IsFiniteSet(S), NEW g, NEW h, \A x \in S : g[x] = h[x]
    PROVE  Total(g, S) = Total(h, S)
<1>1. PICK F : F = Adds(g, S, F)
  BY SumsExist
<1>2. PICK H : H = Adds(h, S, H)
  BY SumsExist
<1>3. S \in SUBSET S
  OBVIOUS
<1>4. F[S] = H[S]
  BY <1>1, <1>2, <1>3, SumSame
<1> QED
  BY <1>1, <1>2, <1>3, <1>4, TotalIs

\* Nothing adds up to zero.
LEMMA TotalEmpty == \A g : Total(g, {}) = 0
<1> SUFFICES ASSUME NEW g PROVE Total(g, {}) = 0
  OBVIOUS
<1>1. IsFiniteSet({}) /\ {} \in SUBSET {}
  BY FS_EmptySet
<1>2. PICK F : F = Adds(g, {}, F)
  BY <1>1, SumsExist
<1>3. F[{}] = 0
  BY <1>1, <1>2, SumOf DEF Added
<1> QED
  BY <1>1, <1>2, <1>3, TotalIs

-----------------------------------------------------------------------------
(* The loss counters *)

\* The packet in hand can be counted; PacketID bounds what was seen; and the
\* counters balance.
CountInv ==
    /\ pc = "before" => packet.id \in Nat
    /\ Seen \subseteq 1 .. data.PacketID
    /\ data.cntError - data.cntOutofOrder
         = data.PacketID - Cardinality(Numbered)

Inv == TypeOK /\ CountInv

USE StatsAssumption

\* The packets of a transfer that carry a number are finitely many.
LEMMA NumberedFinite ==
    ASSUME log \in Seq(Packet)
    PROVE  /\ IsFiniteSet(Numbered)
           /\ Cardinality(Numbered) \in Nat
<1>1. IsFiniteSet(1 .. Len(log))
  BY FS_Interval
<1>2. Numbered \subseteq 1 .. Len(log)
  BY DEF Numbered
<1> QED
  BY <1>1, <1>2, FS_Subset, FS_CardinalityType

\* Count keeps the counters natural numbers, bounds the number it is given,
\* and keeps the balance.
LEMMA CountBalance ==
    ASSUME NEW d \in Counters, NEW p \in Packet, p.id \in Nat
    PROVE  LET c == Count(d, p)
           IN  /\ c \in Counters
               /\ c.PacketID >= d.PacketID
               /\ p.id # 0 => p.id \in 1 .. c.PacketID
               /\ c.cntError - c.cntOutofOrder - c.PacketID =
                    d.cntError - d.cntOutofOrder - d.PacketID
                      - (IF p.id = 0 THEN 0 ELSE 1)
<1> DEFINE c == Count(d, p)
<1>1. /\ d.cntDatagrams \in Nat /\ d.TotalLen \in Nat
      /\ d.cntError \in Nat /\ d.cntOutofOrder \in Nat /\ d.PacketID \in Nat
      /\ p.len \in Nat /\ p.id \in Nat
  BY DEF Counters, Packet
<1>2. /\ c = [d EXCEPT !.TotalLen = c.TotalLen,
                       !.cntOutofOrder = c.cntOutofOrder,
                       !.cntError = c.cntError,
                       !.PacketID = c.PacketID]
      /\ c.TotalLen = d.TotalLen + p.len
      /\ c.cntOutofOrder = IF p.id # 0 /\ p.id < d.PacketID + 1
                             THEN d.cntOutofOrder + 1 ELSE d.cntOutofOrder
      /\ c.cntError = IF p.id > d.PacketID + 1
                        THEN d.cntError + (p.id - d.PacketID - 1)
                        ELSE d.cntError
      /\ c.PacketID = IF p.id > d.PacketID THEN p.id ELSE d.PacketID
  BY Zenon DEF Count, Counters
<1> HIDE DEF c
<1>3. /\ c.TotalLen \in Nat /\ c.cntError \in Nat
      /\ c.cntOutofOrder \in Nat /\ c.PacketID \in Nat
  BY <1>1, <1>2
<1>4. c \in Counters
  BY <1>2, <1>3 DEF Counters
<1>5. c.cntError - c.cntOutofOrder - c.PacketID =
        d.cntError - d.cntOutofOrder - d.PacketID
          - (IF p.id = 0 THEN 0 ELSE 1)
  BY <1>1, <1>2
<1>6. c.PacketID >= d.PacketID /\ (p.id # 0 => p.id \in 1 .. c.PacketID)
  BY <1>1, <1>2
<1> QED
  BY <1>4, <1>5, <1>6 DEF c

\* The invariant holds when InitReport has cleared the counters.
LEMMA InitInv == Init => Inv
<1> SUFFICES ASSUME Init PROVE Inv
  OBVIOUS
<1>1. TypeOK
  BY DEF Init, TypeOK, Zero, Counters, Packet
<1>2. Seen = {} /\ Numbered = {}
  BY DEF Init, Seen, Numbered
<1> QED
  BY <1>1, <1>2, FS_EmptySet DEF Init, Inv, CountInv, Zero

\* One more packet counted is still a set of counters.
LEMMA CountersType ==
    ASSUME NEW d \in Counters
    PROVE  [d EXCEPT !.cntDatagrams = @ + 1] \in Counters
  BY DEF Counters

\* The reports have their type, because the counters have theirs.
LEMMA ReportTypes ==
    ASSUME TypeOK
    PROVE  /\ IntervalReport \in Transfer_Info
           /\ \A d \in Counters, t \in Nat :
                 FinalReport(d, t) \in Transfer_Info
<1>1. \A e, o \in Int : Lost(e, o) \in Int
  BY DEF Lost
<1>2. \A d \in Counters : Datagrams(d) \in Int
  BY DEF Datagrams, Counters
<1>3. /\ data.cntError - last.cntError \in Int
      /\ data.cntOutofOrder - last.cntOutofOrder \in Int
      /\ data.TotalLen - last.TotalLen \in Int
      /\ data \in Counters /\ last \in Counters
      /\ endTime \in Nat /\ nextTime \in Nat
  BY DEF TypeOK, Counters
<1>4. IntervalReport \in Transfer_Info
  <2>1. Datagrams(data) - Datagrams(last) \in Int
    BY <1>2, <1>3
  <2> QED
    BY <1>1, <1>3, <2>1 DEF IntervalReport, Transfer_Info
<1>5. ASSUME NEW d \in Counters, NEW t \in Nat
      PROVE  FinalReport(d, t) \in Transfer_Info
  <2>1. d.cntError \in Int /\ d.cntOutofOrder \in Int /\ d.TotalLen \in Int
    BY DEF Counters
  <2> QED
    BY <1>1, <1>2, <2>1 DEF FinalReport, Transfer_Info
<1> QED
  BY <1>4, <1>5

\* No step of reporter_handle_packet breaks the invariant.
LEMMA StepInv == Inv /\ [Next]_vars => Inv'
<1> SUFFICES ASSUME Inv, [Next]_vars PROVE Inv'
  OBVIOUS
<1> USE DEF Inv
<1>1. ASSUME NEW i \in IDs \cup {0}, NEW l \in Lens, NEW t \in 0 .. MaxTime,
             Receive([id |-> i, time |-> t, len |-> l])
      PROVE  Inv'
  <2>0. data' \in Counters /\ [id |-> i, time |-> t, len |-> l] \in Packet
    BY <1>1, CountersType DEF Receive, TypeOK, Packet
  <2>1. TypeOK'
    BY <1>1, <2>0 DEF Receive, TypeOK
  <2>2. Seen' = Seen /\ Numbered' = Numbered
    BY <1>1 DEF Receive, Seen, Numbered
  <2>3. packet'.id \in Nat
    BY <1>1 DEF Receive
  <2>4. /\ data'.PacketID = data.PacketID
        /\ data'.cntError = data.cntError
        /\ data'.cntOutofOrder = data.cntOutofOrder
    BY <1>1 DEF Receive, TypeOK, Counters
  <2> QED
    BY <2>1, <2>2, <2>3, <2>4 DEF CountInv
<1>2. ASSUME NEW t \in 0 .. MaxTime, Close(t)
      PROVE  Inv'
  <2>1. [data EXCEPT !.cntDatagrams = @ + 1] \in Counters
    BY CountersType DEF TypeOK
  <2>2. TypeOK'
    BY <1>2, <2>1, ReportTypes DEF Close, TypeOK, Packet
  <2>3. Seen' = Seen /\ Numbered' = Numbered
    BY <1>2 DEF Close, Seen, Numbered
  <2>4. /\ data'.PacketID = data.PacketID
        /\ data'.cntError = data.cntError
        /\ data'.cntOutofOrder = data.cntOutofOrder
    BY <1>2 DEF Close, TypeOK, Counters
  <2> QED
    BY <1>2, <2>2, <2>3, <2>4 DEF CountInv, Close
<1>3. CASE PrintInterval
  <2>1. TypeOK'
    BY <1>3, ReportTypes DEF PrintInterval, TypeOK
  <2> QED
    BY <1>3, <2>1 DEF PrintInterval, CountInv, Seen, Numbered
<1>4. CASE CountPacket
  <2>1. packet \in Packet /\ packet.id \in Nat /\ data \in Counters
    BY <1>4 DEF CountPacket, CountInv, TypeOK
  <2>2. data' = Count(data, packet)
    BY <1>4 DEF CountPacket
  <2>3. TypeOK'
    BY <1>4, <2>1, <2>2, CountBalance DEF CountPacket, TypeOK
  <2>4. /\ log \in Seq(Packet)
        /\ log' = Append(log, packet)
        /\ DOMAIN log' = (DOMAIN log) \cup {Len(log) + 1}
        /\ Len(log) + 1 \notin DOMAIN log
        /\ log'[Len(log) + 1] = packet
        /\ \A i \in DOMAIN log : log'[i] = log[i]
    BY <1>4 DEF CountPacket, TypeOK
  <2>5. Seen' \subseteq 1 .. data'.PacketID
    <3>1. Seen' \subseteq Seen \cup ({packet.id} \ {0})
      BY <2>4 DEF Seen
    <3>2. Seen \subseteq 1 .. data'.PacketID
      BY <2>1, <2>2, CountBalance DEF CountInv, Counters
    <3>3. packet.id # 0 => packet.id \in 1 .. data'.PacketID
      BY <2>1, <2>2, CountBalance
    <3> QED
      BY <3>1, <3>2, <3>3
  <2>6. Cardinality(Numbered)' =
          Cardinality(Numbered) + (IF packet.id = 0 THEN 0 ELSE 1)
    <3>1. CASE packet.id = 0
      <4>1. Numbered' = Numbered
        BY <2>4, <3>1 DEF Numbered
      <4> QED
        BY <3>1, <4>1, <2>4, NumberedFinite
    <3>2. CASE packet.id # 0
      <4>1. Numbered' = Numbered \cup {Len(log) + 1}
        BY <2>4, <3>2 DEF Numbered
      <4>2. Len(log) + 1 \notin Numbered
        BY <2>4 DEF Numbered
      <4> QED
        BY <3>2, <4>1, <4>2, <2>4, NumberedFinite, FS_AddElement
    <3> QED
      BY <3>1, <3>2
  <2>7. data'.cntError - data'.cntOutofOrder
          = data'.PacketID - Cardinality(Numbered)'
    <3>1. Cardinality(Numbered) \in Nat
      BY <2>4, NumberedFinite
    <3>2. data' \in Counters
      BY <2>3 DEF TypeOK
    <3>3. data'.cntError - data'.cntOutofOrder - data'.PacketID =
            data.cntError - data.cntOutofOrder - data.PacketID
              - (IF packet.id = 0 THEN 0 ELSE 1)
      BY <2>1, <2>2, CountBalance
    <3> QED
      BY <2>1, <2>6, <3>1, <3>2, <3>3 DEF CountInv, Counters
  <2>8. pc' # "before"
    BY <1>4 DEF CountPacket
  <2> QED
    BY <2>3, <2>5, <2>7, <2>8 DEF CountInv
<1>5. CASE Return
  <2>1. TypeOK'
    BY <1>5 DEF Return, TypeOK
  <2> QED
    BY <1>5, <2>1 DEF Return, CountInv, Seen, Numbered
<1>6. CASE UNCHANGED vars
  <2>1. TypeOK'
    BY <1>6 DEF vars, TypeOK
  <2> QED
    BY <1>6, <2>1 DEF vars, CountInv, Seen, Numbered
<1> QED
  BY <1>1, <1>2, <1>3, <1>4, <1>5, <1>6 DEF Next

\* The numbers seen are a finite set below PacketID, so what is missing and
\* what is duplicated can be counted.
LEMMA InvImpliesIdentity == Inv => LossIdentity
<1> SUFFICES ASSUME Inv PROVE LossIdentity
  OBVIOUS
<1> DEFINE P == data.PacketID
<1>1. P \in Nat /\ data.cntError \in Int /\ data.cntOutofOrder \in Int
  BY DEF Inv, TypeOK, Counters
<1> HIDE DEF P
<1>2. IsFiniteSet(1 .. P) /\ Cardinality(1 .. P) = P
  BY <1>1, FS_Interval
<1>3. Seen \subseteq 1 .. P
  BY DEF Inv, CountInv, P
<1>4. IsFiniteSet(Seen) /\ Cardinality(Seen) \in Nat
  BY <1>2, <1>3, FS_Subset, FS_CardinalityType
<1>5. (1 .. P) \cap Seen = Seen
  BY <1>3
<1>6. Cardinality((1 .. P) \ Seen) = P - Cardinality(Seen)
  <2>1. Cardinality((1 .. P) \ Seen)
          = Cardinality(1 .. P) - Cardinality((1 .. P) \cap Seen)
    BY <1>2, FS_Difference, Zenon
  <2> QED
    BY <1>2, <1>5, <2>1, Zenon
<1>7. Cardinality(Numbered) \in Nat
  BY NumberedFinite DEF Inv, TypeOK
<1>8. data.cntError - data.cntOutofOrder = P - Cardinality(Numbered)
  BY DEF Inv, CountInv, P
<1> QED
  BY <1>1, <1>4, <1>6, <1>7, <1>8 DEF LossIdentity, Missing, Duplicates, P

\* The counters stay natural numbers: neither gaps nor late packets ever
\* take cntError below zero.
THEOREM TypeCorrect == Spec => []TypeOK
<1>1. Inv => TypeOK
  BY DEF Inv
<1> QED
  BY <1>1, InitInv, StepInv, PTL DEF Spec

\* Whatever is lost, duplicated or reordered, the loss counters of
\* reporter_handle_packet differ from the truth by nothing.
THEOREM LossExact == Spec => []LossIdentity
  BY InitInv, StepInv, InvImpliesIdentity, PTL DEF Spec


-----------------------------------------------------------------------------
(* What the reports say, of any log *)

\* The definitions of PacketStats, of a log l.
ByIn(l, t) == IF t = 0 THEN {} ELSE {i \in DOMAIN l : l[i].time <= t}
LateIn(l, i) == l[i].id # 0 /\ \E j \in 1 .. i - 1 : l[j].id >= l[i].id
LateOf(l, S) == {i \in S : LateIn(l, i)}
FreshOf(l, S) == {i \in S : l[i].id # 0 /\ ~LateIn(l, i)}
IdsOf(l, S) == {0} \cup {l[i].id : i \in S}
LenOf(l) == [i \in DOMAIN l |-> l[i].len]

\* SumLen is a total of the lengths.
LEMMA SumLenIs ==
    ASSUME NEW l, NEW S, S \subseteq DOMAIN l
    PROVE  MapThenSumSet(LAMBDA i : l[i].len, S) = Total(LenOf(l), S)
<1> DEFINE B(F) == [s \in SUBSET S |->
                      IF s = {} THEN 0
                      ELSE l[CHOOSE x \in s : TRUE].len
                             + F[s \ {CHOOSE x \in s : TRUE}]]
<1>1. MapThenSumSet(LAMBDA i : l[i].len, S) = (CHOOSE F : F = B(F))[S]
  BY DEF MapThenSumSet, MapThenFoldSet
<1>2. ASSUME NEW F
      PROVE  B(F) = Adds(LenOf(l), S, F)
  <2>1. \A s \in SUBSET S : s # {} =>
          LenOf(l)[CHOOSE x \in s : TRUE] = l[CHOOSE x \in s : TRUE].len
    BY DEF LenOf
  <2>2. \A s \in SUBSET S :
          Added(LenOf(l), F, s) =
            IF s = {} THEN 0
            ELSE l[CHOOSE x \in s : TRUE].len
                   + F[s \ {CHOOSE x \in s : TRUE}]
    BY <2>1 DEF Added, Some
  <2> QED
    BY <2>2 DEF Adds
<1> HIDE DEF B
<1>3. (CHOOSE F : F = B(F)) = (CHOOSE F : F = Adds(LenOf(l), S, F))
  BY <1>2
<1> QED
  BY <1>1, <1>3 DEF Total

\* The bytes of the interval reports p, and their sum in FinalExact.
BytesOf(p) == [k \in DOMAIN p |-> p[k].TotalLen]

\* It is a total of the bytes.
LEMMA SumBytesIs ==
    ASSUME NEW p
    PROVE  MapThenSumSet(LAMBDA k : p[k].TotalLen, DOMAIN p)
             = Total(BytesOf(p), DOMAIN p)
<1> DEFINE S == DOMAIN p
           B(F) == [s \in SUBSET S |->
                      IF s = {} THEN 0
                      ELSE p[CHOOSE x \in s : TRUE].TotalLen
                             + F[s \ {CHOOSE x \in s : TRUE}]]
<1>1. MapThenSumSet(LAMBDA k : p[k].TotalLen, S) = (CHOOSE F : F = B(F))[S]
  BY DEF MapThenSumSet, MapThenFoldSet
<1>2. ASSUME NEW F
      PROVE  B(F) = Adds(BytesOf(p), S, F)
  <2>1. \A s \in SUBSET S : s # {} =>
          BytesOf(p)[CHOOSE x \in s : TRUE] = p[CHOOSE x \in s : TRUE].TotalLen
    BY DEF BytesOf
  <2>2. \A s \in SUBSET S :
          Added(BytesOf(p), F, s) =
            IF s = {} THEN 0
            ELSE p[CHOOSE x \in s : TRUE].TotalLen
                   + F[s \ {CHOOSE x \in s : TRUE}]
    BY <2>1 DEF Added, Some
  <2> QED
    BY <2>2 DEF Adds
<1> HIDE DEF B
<1>3. (CHOOSE F : F = B(F)) = (CHOOSE F : F = Adds(BytesOf(p), S, F))
  BY <1>2
<1> QED
  BY <1>1, <1>3 DEF Total

\* The counters c are exact for the packets A of a log.
Tallies(c, l, A) ==
    /\ c.TotalLen = Total(LenOf(l), A)
    /\ c.PacketID \in IdsOf(l, A)
    /\ \A n \in IdsOf(l, A) : n <= c.PacketID
    /\ c.cntOutofOrder = Cardinality(LateOf(l, A))
    /\ c.cntError = c.PacketID - Cardinality(FreshOf(l, A))

\* IntervalsExact, of one report and any log.
ExactOf(l, u, k, r) ==
    LET A == ByIn(l, r.startTime)
        Z == ByIn(l, r.endTime)
        late == Cardinality(LateOf(l, Z \ A))
        risen == Max(IdsOf(l, Z)) - Max(IdsOf(l, A))
    IN  /\ r.startTime = (k - 1) * Interval
        /\ r.endTime = k * Interval
        /\ r.TotalLen = Total(LenOf(l), Z \ A)
        /\ u =>
             /\ r.cntDatagrams = risen
             /\ r.cntOutofOrder = late
             /\ r.cntError = Lost(risen - Cardinality(FreshOf(l, Z \ A)), late)

\* The counters are exact for the whole log.  The reports printed are exact
\* and end before the packet in hand, so no packet counted later can fall
\* into them; their bytes add up to the copy of the counters.
ReportedInv ==
    /\ \A i \in DOMAIN log : log[i].id \in Nat
    /\ Interval # 0 => \A i \in DOMAIN log : log[i].time <= nextTime
    /\ nextTime = Len(printed) * Interval + Interval
    /\ Tallies(data, log, DOMAIN log)
    /\ \A k \in DOMAIN printed :
          /\ ExactOf(log, isUDP, k, printed[k])
          /\ printed[k].startTime <= printed[k].endTime
          /\ printed[k].endTime < packet.time
    /\ last.TotalLen <= data.TotalLen
    /\ Total(BytesOf(printed), DOMAIN printed) = last.TotalLen

\* Until the transfer ends, the copy of the counters is exact for what the
\* interval reports cover; then the final report has the counters.
StatsInv ==
    /\ ReportedInv
    /\ pc # "done" => /\ endTime + Interval = nextTime
                      /\ endTime = 0 \/ endTime < packet.time
                      /\ Tallies(last, log, ByIn(log, endTime))
                      /\ final = <<>>
    /\ pc = "done" => /\ final # <<>>
                      /\ final[1].TotalLen = data.TotalLen
                      /\ isUDP => final[1].cntDatagrams = data.PacketID
                      /\ final[1].cntOutofOrder = data.cntOutofOrder
                      /\ final[1].cntError = Lost(data.cntError, data.cntOutofOrder)

\* What a packet appended to a log leaves alone.
LEMMA Grown ==
    ASSUME NEW l \in Seq(Packet), NEW p \in Packet
    PROVE  LET m == Append(l, p)
               n == Len(l) + 1
           IN  /\ m \in Seq(Packet)
               /\ DOMAIN m = DOMAIN l \cup {n}
               /\ DOMAIN l = 1 .. Len(l) /\ n \in Nat
               /\ n \notin DOMAIN l
               /\ m[n] = p
               /\ \A i \in DOMAIN l : m[i] = l[i]
               /\ IsFiniteSet(DOMAIN l) /\ IsFiniteSet(DOMAIN m)
<1>1. Len(l) \in Nat /\ DOMAIN l = 1 .. Len(l)
      /\ DOMAIN Append(l, p) = 1 .. Len(l) + 1
  OBVIOUS
<1>2. IsFiniteSet(1 .. Len(l)) /\ IsFiniteSet(1 .. Len(l) + 1)
  BY <1>1, FS_Interval
<1> QED
  BY <1>1, <1>2

\* Lengths can be added.
LEMMA LenType ==
    ASSUME NEW l \in Seq(Packet)
    PROVE  \A i \in DOMAIN l : LenOf(l)[i] \in Int
<1> SUFFICES ASSUME NEW i \in DOMAIN l PROVE LenOf(l)[i] \in Int
  OBVIOUS
<1>1. l[i] \in Packet
  OBVIOUS
<1>2. l[i].len \in Int
  BY <1>1 DEF Packet
<1> QED
  BY <1>2 DEF LenOf

\* Whether a packet was late is known when it is counted.
LEMMA KeepsPast ==
    ASSUME NEW l \in Seq(Packet), NEW p \in Packet,
           NEW S \in SUBSET DOMAIN l
    PROVE  LET m == Append(l, p)
           IN  /\ LateOf(m, S) = LateOf(l, S)
               /\ FreshOf(m, S) = FreshOf(l, S)
               /\ IdsOf(m, S) = IdsOf(l, S)
               /\ Total(LenOf(m), S) = Total(LenOf(l), S)
<1> DEFINE m == Append(l, p)
<1>1. /\ DOMAIN l \subseteq DOMAIN m /\ DOMAIN l = 1 .. Len(l)
      /\ Len(l) \in Nat
      /\ \A i \in DOMAIN l : m[i] = l[i]
      /\ IsFiniteSet(DOMAIN l)
  BY Grown
<1> HIDE DEF m
<1>2. \A i \in S : LateIn(m, i) <=> LateIn(l, i)
  <2> SUFFICES ASSUME NEW i \in S PROVE LateIn(m, i) <=> LateIn(l, i)
    OBVIOUS
  <2>1. i \in DOMAIN l /\ \A j \in 1 .. i - 1 : j \in DOMAIN l
    BY <1>1
  <2> QED
    BY <1>1, <2>1 DEF LateIn
<1>3. LateOf(m, S) = LateOf(l, S) /\ FreshOf(m, S) = FreshOf(l, S)
  BY <1>1, <1>2 DEF LateOf, FreshOf
<1>4. IdsOf(m, S) = IdsOf(l, S)
  BY <1>1 DEF IdsOf
<1>5. Total(LenOf(m), S) = Total(LenOf(l), S)
  <2>1. IsFiniteSet(S)
    BY <1>1, FS_Subset
  <2>2. \A i \in S : LenOf(m)[i] = LenOf(l)[i]
    BY <1>1 DEF LenOf
  <2> QED
    BY <2>1, <2>2, TotalSame
<1> QED
  BY <1>3, <1>4, <1>5 DEF m

\* A packet that comes after t is not in what was counted by t.
LEMMA KeepsBy ==
    ASSUME NEW l \in Seq(Packet), NEW p \in Packet, NEW t \in Nat,
           t = 0 \/ t < p.time
    PROVE  /\ ByIn(Append(l, p), t) = ByIn(l, t)
           /\ ByIn(l, t) \in SUBSET DOMAIN l
<1> DEFINE m == Append(l, p)
           n == Len(l) + 1
<1>1. /\ DOMAIN m = DOMAIN l \cup {n}
      /\ n \notin DOMAIN l
      /\ m[n] = p /\ p.time \in Nat
      /\ \A i \in DOMAIN l : m[i] = l[i]
  BY Grown DEF Packet
<1> HIDE DEF m, n
<1>2. ByIn(m, t) = ByIn(l, t)
  <2>1. CASE t = 0
    BY <2>1 DEF ByIn
  <2>2. CASE t # 0
    <3>1. ~(p.time <= t)
      BY <1>1, <2>2
    <3>2. {i \in DOMAIN m : m[i].time <= t} = {i \in DOMAIN l : l[i].time <= t}
      BY <1>1, <3>1
    <3> QED
      BY <2>2, <3>2 DEF ByIn
  <2> QED
    BY <2>1, <2>2
<1> QED
  BY <1>2 DEF ByIn, m

\* Count keeps the counters exact.
LEMMA CountTallies ==
    ASSUME NEW l \in Seq(Packet), NEW p \in Packet, p.id \in Nat,
           \A i \in DOMAIN l : l[i].id \in Nat,
           NEW d \in Counters, Tallies(d, l, DOMAIN l)
    PROVE  LET m == Append(l, p)
           IN  Tallies(Count(d, p), m, DOMAIN m)
<1> DEFINE m == Append(l, p)
           n == Len(l) + 1
           D == DOMAIN l
           c == Count(d, p)
<1>1. /\ DOMAIN m = D \cup {n} /\ n \notin D
      /\ D \in SUBSET DOMAIN l /\ (DOMAIN m) \ {n} = D
      /\ m[n] = p /\ \A i \in D : m[i] = l[i]
      /\ IsFiniteSet(D) /\ IsFiniteSet(DOMAIN m) /\ m \in Seq(Packet)
      /\ 1 .. n - 1 = D
  <2>1. /\ DOMAIN m = D \cup {n} /\ n \notin D /\ D = 1 .. Len(l)
        /\ m[n] = p /\ \A i \in D : m[i] = l[i]
        /\ IsFiniteSet(D) /\ IsFiniteSet(DOMAIN m) /\ m \in Seq(Packet)
    BY Grown
  <2>2. n - 1 = Len(l)
    OBVIOUS
  <2>3. (DOMAIN m) \ {n} = D /\ D \in SUBSET DOMAIN l
    <3> HIDE DEF m, n
    <3> QED
      BY <2>1
  <2> QED
    BY <2>1, <2>2, <2>3
<1>2. /\ c.TotalLen = d.TotalLen + p.len
      /\ c.cntOutofOrder = IF p.id # 0 /\ p.id < d.PacketID + 1
                             THEN d.cntOutofOrder + 1 ELSE d.cntOutofOrder
      /\ c.cntError = IF p.id > d.PacketID + 1
                        THEN d.cntError + (p.id - d.PacketID - 1)
                        ELSE d.cntError
      /\ c.PacketID = IF p.id > d.PacketID THEN p.id ELSE d.PacketID
  BY Zenon DEF Count, Counters
<1>3. /\ LateOf(m, D) = LateOf(l, D)
      /\ FreshOf(m, D) = FreshOf(l, D)
      /\ IdsOf(m, D) = IdsOf(l, D)
      /\ Total(LenOf(m), D) = Total(LenOf(l), D)
  BY <1>1, KeepsPast
<1> HIDE DEF m, n, D, c
<1>4. /\ d.TotalLen \in Nat /\ d.cntError \in Nat /\ d.cntOutofOrder \in Nat
      /\ d.PacketID \in Nat /\ p.len \in Nat /\ p.id \in Nat
  BY DEF Counters, Packet
<1>5. /\ d.TotalLen = Total(LenOf(m), D)
      /\ d.PacketID \in IdsOf(m, D)
      /\ \A x \in IdsOf(m, D) : x <= d.PacketID
      /\ d.cntOutofOrder = Cardinality(LateOf(m, D))
      /\ d.cntError = d.PacketID - Cardinality(FreshOf(m, D))
  BY <1>3 DEF Tallies, D
<1>6. c.TotalLen = Total(LenOf(m), DOMAIN m)
  <2>1. \A i \in DOMAIN m : LenOf(m)[i] \in Int
    BY <1>1, LenType
  <2>2. n \in DOMAIN m
    BY <1>1
  <2>3. Total(LenOf(m), DOMAIN m)
          = Total(LenOf(m), (DOMAIN m) \ {n}) + LenOf(m)[n]
    BY <1>1, <2>1, <2>2, TotalTake
  <2>4. LenOf(m)[n] = p.len
    BY <1>1, <2>2 DEF LenOf
  <2> QED
    BY <1>1, <1>2, <1>5, <2>3, <2>4
<1>7. IdsOf(m, DOMAIN m) = IdsOf(m, D) \cup {p.id}
  BY <1>1 DEF IdsOf
<1>8. /\ c.PacketID \in IdsOf(m, DOMAIN m)
      /\ \A x \in IdsOf(m, DOMAIN m) : x <= c.PacketID
  <2>1. \A x \in IdsOf(m, D) : x \in Nat
    BY <1>1, D = DOMAIN l DEF IdsOf, D
  <2> QED
    BY <1>2, <1>4, <1>5, <1>7, <2>1
<1>9. LateIn(m, n) <=> p.id # 0 /\ p.id <= d.PacketID
  <2>1. LateIn(m, n) <=> p.id # 0 /\ \E j \in D : m[j].id >= p.id
    BY <1>1 DEF LateIn
  <2>2. \A j \in D : m[j].id \in Nat
    BY <1>1 DEF D
  <2>3. ASSUME NEW j \in D, m[j].id >= p.id
        PROVE  p.id <= d.PacketID
    <3>1. m[j].id <= d.PacketID
      BY <1>5 DEF IdsOf
    <3> QED
      BY <1>4, <2>2, <2>3, <3>1
  <2>4. ASSUME p.id # 0, p.id <= d.PacketID
        PROVE  \E j \in D : m[j].id >= p.id
    <3>1. d.PacketID # 0
      BY <1>4, <2>4
    <3>2. PICK j \in D : m[j].id = d.PacketID
      BY <1>5, <3>1 DEF IdsOf
    <3> QED
      BY <1>4, <2>4, <3>2
  <2> QED
    BY <2>1, <2>3, <2>4
<1>10. IsFiniteSet(LateOf(m, D)) /\ IsFiniteSet(FreshOf(m, D))
       /\ Cardinality(LateOf(m, D)) \in Nat
       /\ Cardinality(FreshOf(m, D)) \in Nat
  <2>1. LateOf(m, D) \subseteq D /\ FreshOf(m, D) \subseteq D
    BY DEF LateOf, FreshOf
  <2> QED
    BY <1>1, <2>1, FS_Subset, FS_CardinalityType
<1>11. n \notin LateOf(m, D) /\ n \notin FreshOf(m, D)
  BY <1>1 DEF LateOf, FreshOf
<1>12. CASE p.id = 0
  <2>1. /\ LateOf(m, DOMAIN m) = LateOf(m, D)
        /\ FreshOf(m, DOMAIN m) = FreshOf(m, D)
    BY <1>1, <1>9, <1>12 DEF LateOf, FreshOf
  <2>2. c.cntOutofOrder = d.cntOutofOrder /\ c.cntError = d.cntError
        /\ c.PacketID = d.PacketID
    BY <1>2, <1>4, <1>12
  <2> QED
    BY <1>5, <1>6, <1>8, <2>1, <2>2 DEF Tallies, m, c
<1>13. CASE p.id # 0 /\ p.id <= d.PacketID
  <2>1. LateOf(m, DOMAIN m) = LateOf(m, D) \cup {n}
        /\ FreshOf(m, DOMAIN m) = FreshOf(m, D)
    BY <1>1, <1>9, <1>13 DEF LateOf, FreshOf
  <2>2. Cardinality(LateOf(m, DOMAIN m)) = Cardinality(LateOf(m, D)) + 1
    BY <1>10, <1>11, <2>1, FS_AddElement
  <2>3. c.cntOutofOrder = d.cntOutofOrder + 1 /\ c.cntError = d.cntError
        /\ c.PacketID = d.PacketID
    BY <1>2, <1>4, <1>13
  <2> QED
    BY <1>5, <1>6, <1>8, <2>1, <2>2, <2>3 DEF Tallies, m, c
<1>14. CASE p.id > d.PacketID
  <2>1. LateOf(m, DOMAIN m) = LateOf(m, D)
        /\ FreshOf(m, DOMAIN m) = FreshOf(m, D) \cup {n}
    <3>1. p.id # 0 /\ ~LateIn(m, n) /\ m[n].id # 0
      BY <1>1, <1>4, <1>9, <1>14
    <3> QED
      BY <1>1, <3>1 DEF LateOf, FreshOf
  <2>2. Cardinality(FreshOf(m, DOMAIN m)) = Cardinality(FreshOf(m, D)) + 1
    BY <1>10, <1>11, <2>1, FS_AddElement
  <2>3. c.cntOutofOrder = d.cntOutofOrder /\ c.PacketID = p.id
        /\ c.cntError = d.cntError + (p.id - d.PacketID - 1)
    BY <1>2, <1>4, <1>14
  <2>4. c.cntError = c.PacketID - Cardinality(FreshOf(m, DOMAIN m))
    <3> DEFINE e == d.cntError
               f == Cardinality(FreshOf(m, D))
               old == d.PacketID
               new == p.id
    <3>1. /\ e \in Nat /\ f \in Nat /\ old \in Nat /\ new \in Nat
          /\ e = old - f
      BY <1>4, <1>5, <1>10
    <3>2. /\ c.cntError = e + (new - old - 1) /\ c.PacketID = new
          /\ Cardinality(FreshOf(m, DOMAIN m)) = f + 1
      BY <2>2, <2>3
    <3> HIDE DEF e, f, old, new
    <3>3. e + (new - old - 1) = new - (f + 1)
      BY <3>1
    <3> QED
      BY <3>2, <3>3, Zenon
  <2> QED
    BY <1>5, <1>6, <1>8, <2>1, <2>3, <2>4 DEF Tallies, m, c
<1> QED
  BY <1>4, <1>12, <1>13, <1>14

\* The number the counters hold is the highest.
LEMMA TallyMax ==
    ASSUME NEW c \in Counters, NEW l, NEW A, Tallies(c, l, A),
           \A x \in IdsOf(l, A) : x \in Nat
    PROVE  Max(IdsOf(l, A)) = c.PacketID
<1>1. c.PacketID \in IdsOf(l, A) /\ \A x \in IdsOf(l, A) : x <= c.PacketID
  BY DEF Tallies
<1> DEFINE M == CHOOSE x \in IdsOf(l, A) : \A y \in IdsOf(l, A) : x >= y
<1>2. \E x \in IdsOf(l, A) : \A y \in IdsOf(l, A) : x >= y
  BY <1>1
<1>3. M \in IdsOf(l, A) /\ \A y \in IdsOf(l, A) : M >= y
  BY <1>2
<1> HIDE DEF M
<1>4. M = c.PacketID
  BY <1>1, <1>3
<1> QED
  BY <1>4 DEF Max, M

\* What two sets of counters differ by is exact for what lies between.
Differ(d, c, l, Z, A) ==
    /\ d.TotalLen - c.TotalLen = Total(LenOf(l), Z \ A)
    /\ d.PacketID - c.PacketID = Max(IdsOf(l, Z)) - Max(IdsOf(l, A))
    /\ d.cntOutofOrder - c.cntOutofOrder = Cardinality(LateOf(l, Z \ A))
    /\ d.cntError - c.cntError =
         Max(IdsOf(l, Z)) - Max(IdsOf(l, A)) - Cardinality(FreshOf(l, Z \ A))

\* Counters that are exact for a set and for a part of it differ by the rest.
LEMMA Between ==
    ASSUME NEW l \in Seq(Packet), \A i \in DOMAIN l : l[i].id \in Nat,
           NEW Z, Z \subseteq DOMAIN l, NEW A, A \subseteq Z,
           NEW d \in Counters, Tallies(d, l, Z),
           NEW c \in Counters, Tallies(c, l, A)
    PROVE  Differ(d, c, l, Z, A)
<1>1. IsFiniteSet(DOMAIN l)
  <2>1. DOMAIN l = 1 .. Len(l) /\ Len(l) \in Nat
    OBVIOUS
  <2> QED
    BY <2>1, FS_Interval
<1>2. IsFiniteSet(Z)
  BY <1>1, FS_Subset
<1>3. d.TotalLen - c.TotalLen = Total(LenOf(l), Z \ A)
  <2>1. \A i \in Z : LenOf(l)[i] \in Int
    BY LenType
  <2>2. Total(LenOf(l), Z \ A) = Total(LenOf(l), Z) - Total(LenOf(l), A)
    BY <1>2, <2>1, TotalSplit
  <2> QED
    BY <2>2 DEF Tallies
<1>4. \A x \in IdsOf(l, Z) : x \in Nat
  BY DEF IdsOf
<1>5. \A x \in IdsOf(l, A) : x \in Nat
  BY DEF IdsOf
<1>6. Max(IdsOf(l, Z)) = d.PacketID /\ Max(IdsOf(l, A)) = c.PacketID
  BY <1>4, <1>5, TallyMax
<1>7. ASSUME NEW X \in SUBSET Z, NEW Y \in SUBSET X
      PROVE  /\ Cardinality(X) \in Nat /\ Cardinality(Y) \in Nat
             /\ Cardinality(X \ Y) = Cardinality(X) - Cardinality(Y)
  <2>1. IsFiniteSet(X) /\ IsFiniteSet(Y) /\ X \cap Y = Y
    BY <1>2, FS_Subset
  <2>2. Cardinality(X \ Y) = Cardinality(X) - Cardinality(X \cap Y)
    BY <2>1, FS_Difference, Zenon
  <2> QED
    BY <2>1, <2>2, FS_CardinalityType
<1>8. /\ LateOf(l, Z) \in SUBSET Z /\ LateOf(l, A) \in SUBSET LateOf(l, Z)
      /\ LateOf(l, Z \ A) = LateOf(l, Z) \ LateOf(l, A)
      /\ FreshOf(l, Z) \in SUBSET Z /\ FreshOf(l, A) \in SUBSET FreshOf(l, Z)
      /\ FreshOf(l, Z \ A) = FreshOf(l, Z) \ FreshOf(l, A)
  BY DEF LateOf, FreshOf
<1> DEFINE lz == Cardinality(LateOf(l, Z))
           la == Cardinality(LateOf(l, A))
           fz == Cardinality(FreshOf(l, Z))
           fa == Cardinality(FreshOf(l, A))
<1>9. Cardinality(LateOf(l, Z \ A)) = lz - la
  BY <1>7, <1>8
<1>10. /\ fz \in Nat /\ fa \in Nat
       /\ Cardinality(FreshOf(l, Z \ A)) = fz - fa
  BY <1>7, <1>8
<1>11. /\ d.cntOutofOrder = lz /\ c.cntOutofOrder = la
       /\ d.cntError = d.PacketID - fz /\ c.cntError = c.PacketID - fa
  BY DEF Tallies
<1>12. d.PacketID \in Nat /\ c.PacketID \in Nat
  BY DEF Counters
<1> HIDE DEF lz, la, fz, fa
<1> QED
  BY <1>3, <1>6, <1>9, <1>10, <1>11, <1>12 DEF Differ

\* The invariant holds when InitReport has cleared the counters.
LEMMA StatsInit == Init => StatsInv
<1> SUFFICES ASSUME Init PROVE StatsInv
  OBVIOUS
<1>1. log = <<>> /\ printed = <<>> /\ data = Zero /\ last = Zero /\ pc = "idle"
      /\ endTime = 0 /\ nextTime = Interval /\ final = <<>>
  BY DEF Init
<1>2. DOMAIN log = {} /\ DOMAIN printed = {} /\ Len(printed) = 0
  BY <1>1
<1>3. ASSUME NEW l PROVE Tallies(Zero, l, {})
  <2>1. LateOf(l, {}) = {} /\ FreshOf(l, {}) = {} /\ IdsOf(l, {}) = {0}
    BY DEF LateOf, FreshOf, IdsOf
  <2> QED
    BY <2>1, TotalEmpty, FS_EmptySet DEF Tallies, Zero
<1>4. ByIn(log, 0) = {}
  BY DEF ByIn
<1>5. Total(BytesOf(printed), DOMAIN printed) = last.TotalLen
  BY <1>1, <1>2, TotalEmpty DEF Zero
<1>6. nextTime = Len(printed) * Interval + Interval
  BY <1>1, <1>2
<1>7. last.TotalLen <= data.TotalLen
  BY <1>1 DEF Zero
<1>8. ReportedInv
  BY <1>1, <1>2, <1>3, <1>5, <1>6, <1>7 DEF ReportedInv
<1>9. Tallies(last, log, ByIn(log, endTime))
  BY <1>1, <1>3, <1>4
<1>10. endTime + Interval = nextTime
  BY <1>1
<1> QED
  BY <1>1, <1>8, <1>9, <1>10 DEF StatsInv

\* Counters that differ in the packets they counted tally alike.
LEMMA TallyFields ==
    ASSUME NEW c, NEW d, NEW l, NEW A, Tallies(c, l, A),
           c.TotalLen = d.TotalLen, c.PacketID = d.PacketID,
           c.cntOutofOrder = d.cntOutofOrder, c.cntError = d.cntError
    PROVE  Tallies(d, l, A)
  BY DEF Tallies

\* A step that neither counts nor reports keeps what was reported.
LEMMA ReportedKept ==
    ASSUME Inv, Inv', ReportedInv,
           UNCHANGED <<isUDP, last, nextTime, log, printed>>,
           data'.TotalLen = data.TotalLen, data'.PacketID = data.PacketID,
           data'.cntOutofOrder = data.cntOutofOrder,
           data'.cntError = data.cntError,
           packet'.time >= packet.time
    PROVE  ReportedInv'
<1>1. Tallies(data', log', DOMAIN log')
  BY TallyFields DEF ReportedInv
<1>2. ASSUME NEW k \in DOMAIN printed PROVE printed[k].endTime < packet'.time
  <2>1. /\ printed[k] \in Transfer_Info
        /\ packet \in Packet /\ packet' \in Packet
    BY DEF Inv, TypeOK
  <2>2. /\ printed[k].endTime \in Nat
        /\ packet.time \in Nat /\ packet'.time \in Nat
    BY <2>1 DEF Transfer_Info, Packet
  <2> QED
    BY <2>2 DEF ReportedInv
<1> QED
  BY <1>1, <1>2 DEF ReportedInv

\* The reports stay exact when a packet is counted: it came after they ended.
LEMMA ExactKept ==
    ASSUME NEW l \in Seq(Packet), NEW p \in Packet, NEW u, NEW k, NEW r,
           r.startTime \in Nat, r.endTime \in Nat,
           r.startTime <= r.endTime, r.endTime < p.time,
           ExactOf(l, u, k, r)
    PROVE  ExactOf(Append(l, p), u, k, r)
<1> DEFINE m == Append(l, p)
           A == ByIn(l, r.startTime)
           Z == ByIn(l, r.endTime)
<1>1. p.time \in Nat
  BY DEF Packet
<1>2. r.startTime < p.time
  BY <1>1
<1>3. /\ ByIn(m, r.startTime) = A /\ A \in SUBSET DOMAIN l
      /\ ByIn(m, r.endTime) = Z /\ Z \in SUBSET DOMAIN l
  BY <1>2, KeepsBy
<1> HIDE DEF m, A, Z
<1>4. Z \ A \in SUBSET DOMAIN l
  BY <1>3
<1>5. /\ IdsOf(m, A) = IdsOf(l, A) /\ IdsOf(m, Z) = IdsOf(l, Z)
      /\ LateOf(m, Z \ A) = LateOf(l, Z \ A)
      /\ FreshOf(m, Z \ A) = FreshOf(l, Z \ A)
      /\ Total(LenOf(m), Z \ A) = Total(LenOf(l), Z \ A)
  BY <1>3, <1>4, KeepsPast DEF m
<1>6. ExactOf(m, u, k, r)
  BY <1>3, <1>5 DEF ExactOf, A, Z
<1> QED
  BY <1>6 DEF m

\* An interval report is exact when it is printed.
LEMMA ReportExact ==
    ASSUME Inv, StatsInv, pc # "done", IntervalDue
    PROVE  /\ ExactOf(log, isUDP, Len(printed) + 1, IntervalReport)
           /\ ByIn(log, nextTime) = DOMAIN log
<1> DEFINE A == ByIn(log, endTime)
           Z == ByIn(log, nextTime)
           n == Len(printed)
           r == IntervalReport
<1>1. /\ log \in Seq(Packet) /\ data \in Counters /\ last \in Counters
      /\ nextTime \in Nat /\ endTime \in Nat /\ n \in Nat
  BY DEF Inv, TypeOK
<1>2. /\ Interval # 0 /\ endTime + Interval = nextTime
      /\ nextTime = n * Interval + Interval
      /\ \A i \in DOMAIN log : log[i].time <= nextTime /\ log[i].id \in Nat
      /\ Tallies(data, log, DOMAIN log) /\ Tallies(last, log, A)
  BY DEF StatsInv, ReportedInv, IntervalDue
<1>3. nextTime # 0
  BY <1>1, <1>2
<1>4. Z = DOMAIN log /\ A \in SUBSET DOMAIN log
  BY <1>2, <1>3 DEF ByIn
<1>5. n * Interval \in Nat /\ (n + 1) - 1 = n
      /\ (n + 1) * Interval = n * Interval + Interval
  BY <1>1
<1>6. endTime = ((n + 1) - 1) * Interval /\ nextTime = (n + 1) * Interval
  BY <1>1, <1>2, <1>5
<1>7. /\ r.startTime = endTime /\ r.endTime = nextTime
      /\ r.TotalLen = data.TotalLen - last.TotalLen
      /\ r.cntOutofOrder = data.cntOutofOrder - last.cntOutofOrder
      /\ r.cntError = Lost(data.cntError - last.cntError,
                           data.cntOutofOrder - last.cntOutofOrder)
      /\ isUDP => r.cntDatagrams = data.PacketID - last.PacketID
  BY DEF IntervalReport, Datagrams
<1> HIDE DEF A, Z, n, r
<1>8. Differ(data, last, log, Z, A)
  <2>1. /\ Tallies(data, log, Z) /\ A \subseteq Z /\ Z \subseteq DOMAIN log
        /\ \A i \in DOMAIN log : log[i].id \in Nat
    BY <1>2, <1>4
  <2>2. log \in Seq(Packet) /\ data \in Counters /\ last \in Counters
    BY <1>1
  <2>3. Tallies(last, log, A)
    BY <1>2
  <2> QED
    BY <2>1, <2>2, <2>3, Between
<1>9. ExactOf(log, isUDP, n + 1, r)
  <2>1. A = ByIn(log, r.startTime) /\ Z = ByIn(log, r.endTime)
    BY <1>7 DEF A, Z
  <2> QED
    BY <1>6, <1>7, <1>8, <2>1 DEF Differ, ExactOf
<1> QED
  BY <1>4, <1>9 DEF r, n, Z

\* No step of reporter_handle_packet breaks the invariant.
LEMMA StatsStep == Inv /\ Inv' /\ StatsInv /\ [Next]_vars => StatsInv'
<1> SUFFICES ASSUME Inv, Inv', StatsInv, [Next]_vars PROVE StatsInv'
  OBVIOUS
<1>0. /\ packet \in Packet /\ packet' \in Packet
      /\ data \in Counters /\ data' \in Counters /\ last \in Counters
      /\ log \in Seq(Packet) /\ printed \in Seq(Transfer_Info)
      /\ endTime \in Nat /\ nextTime \in Nat /\ packet.time \in Nat
      /\ packet'.time \in Nat /\ ReportedInv
  BY DEF Inv, TypeOK, Packet, StatsInv
<1>1. ASSUME NEW i \in IDs \cup {0}, NEW l \in Lens, NEW t \in 0 .. MaxTime,
             Receive([id |-> i, time |-> t, len |-> l])
      PROVE  StatsInv'
  <2>1. /\ UNCHANGED <<isUDP, last, endTime, nextTime, log, printed, final>>
        /\ packet'.time >= packet.time
        /\ pc # "done" /\ pc' # "done"
    BY <1>1 DEF Receive
  <2>2. /\ data'.TotalLen = data.TotalLen /\ data'.PacketID = data.PacketID
        /\ data'.cntOutofOrder = data.cntOutofOrder
        /\ data'.cntError = data.cntError
    BY <1>0, <1>1 DEF Receive, Counters
  <2>3. ReportedInv'
    BY <1>0, <2>1, <2>2, ReportedKept
  <2>4. endTime = 0 \/ endTime < packet'.time
    BY <1>0, <2>1 DEF StatsInv
  <2> QED
    BY <2>1, <2>3, <2>4 DEF StatsInv
<1>2. ASSUME NEW t \in 0 .. MaxTime, Close(t)
      PROVE  StatsInv'
  <2>1. /\ UNCHANGED <<isUDP, last, nextTime, log, printed>>
        /\ packet'.time >= packet.time
        /\ pc # "done" /\ pc' = "done"
        /\ final' = Append(final, FinalReport(data', t))
    BY <1>2 DEF Close
  <2>2. /\ data'.TotalLen = data.TotalLen /\ data'.PacketID = data.PacketID
        /\ data'.cntOutofOrder = data.cntOutofOrder
        /\ data'.cntError = data.cntError
    BY <1>0, <1>2 DEF Close, Counters
  <2>3. ReportedInv'
    BY <1>0, <2>1, <2>2, ReportedKept
  <2>4. final' = <<FinalReport(data', t)>>
    BY <2>1 DEF StatsInv
  <2>5. /\ FinalReport(data', t).TotalLen = data'.TotalLen
        /\ isUDP => FinalReport(data', t).cntDatagrams = data'.PacketID
        /\ FinalReport(data', t).cntOutofOrder = data'.cntOutofOrder
        /\ FinalReport(data', t).cntError = Lost(data'.cntError, data'.cntOutofOrder)
    BY DEF FinalReport, Datagrams
  <2>6. /\ final' # <<>> /\ final'[1].TotalLen = data'.TotalLen
        /\ isUDP => final'[1].cntDatagrams = data'.PacketID
        /\ final'[1].cntOutofOrder = data'.cntOutofOrder
        /\ final'[1].cntError = Lost(data'.cntError, data'.cntOutofOrder)
    BY <2>4, <2>5
  <2> QED
    BY <2>1, <2>3, <2>6 DEF StatsInv
<1>3. CASE PrintInterval
  <2> DEFINE r == IntervalReport
             n == Len(printed)
             D == DOMAIN printed
  <2>1. /\ UNCHANGED <<isUDP, pc, packet, data, log, final>>
        /\ pc # "done" /\ IntervalDue
        /\ printed' = Append(printed, r) /\ last' = data
        /\ endTime' = nextTime /\ nextTime' = nextTime + Interval
        /\ nextTime < packet.time
    BY <1>3 DEF PrintInterval, IntervalDue
  <2>2. /\ ExactOf(log, isUDP, n + 1, r)
        /\ ByIn(log, nextTime) = DOMAIN log
    BY <2>1, ReportExact
  <2>3. r \in Transfer_Info /\ r.startTime = endTime /\ r.endTime = nextTime
        /\ r.TotalLen = data.TotalLen - last.TotalLen
    <3>1. r \in Transfer_Info
      BY ReportTypes DEF Inv
    <3> QED
      BY <3>1 DEF IntervalReport
  <2> HIDE DEF r
  <2>4. /\ n \in Nat /\ Len(printed') = n + 1 /\ D = 1 .. n
        /\ DOMAIN printed' = 1 .. n + 1
        /\ DOMAIN printed' = D \cup {n + 1} /\ n + 1 \notin D
        /\ printed'[n + 1] = r
        /\ \A k \in D : printed'[k] = printed[k]
    BY <1>0, <2>1, <2>3
  <2>5. \A i \in DOMAIN log : log[i].id \in Nat
    BY <1>0 DEF ReportedInv
  <2>6. \A i \in DOMAIN log : log[i].time <= nextTime'
    <3>1. \A i \in DOMAIN log : log[i].time \in Nat /\ log[i].time <= nextTime
      <4>1. \A i \in DOMAIN log : log[i] \in Packet
        BY <1>0
      <4> QED
        BY <1>0, <2>1, <4>1 DEF ReportedInv, IntervalDue, Packet
    <3> QED
      BY <1>0, <2>1, <3>1
  <2>7. nextTime' = Len(printed') * Interval + Interval
    <3>1. nextTime = n * Interval + Interval
      BY <1>0 DEF ReportedInv
    <3>2. (n + 1) * Interval = n * Interval + Interval
      BY <2>4
    <3> QED
      BY <2>1, <2>4, <3>1, <3>2
  <2>8. ASSUME NEW k \in DOMAIN printed'
        PROVE  /\ ExactOf(log, isUDP, k, printed'[k])
               /\ printed'[k].startTime <= printed'[k].endTime
               /\ printed'[k].endTime < packet.time
    <3>1. CASE k \in D
      BY <1>0, <2>4, <3>1 DEF ReportedInv
    <3>2. CASE k = n + 1
      <4>1. endTime <= nextTime
        BY <1>0, <2>1 DEF StatsInv
      <4> QED
        BY <2>1, <2>2, <2>3, <2>4, <3>2, <4>1
    <3> QED
      BY <2>4, <3>1, <3>2
  <2>9. Total(BytesOf(printed'), DOMAIN printed') = data.TotalLen
    <3> DEFINE g == BytesOf(printed')
               T == DOMAIN printed'
    <3>1. /\ \A k \in T : g[k] = printed'[k].TotalLen
          /\ n + 1 \in T /\ T \ {n + 1} = D
      BY <2>4 DEF BytesOf
    <3>2. IsFiniteSet(T) /\ IsFiniteSet(D)
      BY <2>4, FS_Interval
    <3>3. \A k \in T : g[k] \in Int
      <4>1. \A k \in T : printed'[k] \in Transfer_Info
        BY DEF Inv, TypeOK
      <4> QED
        BY <3>1, <4>1 DEF Transfer_Info
    <3>4. \A k \in D : g[k] = BytesOf(printed)[k]
      BY <2>4, <3>1 DEF BytesOf
    <3> HIDE DEF g, T
    <3>5. Total(g, T) = Total(g, T \ {n + 1}) + g[n + 1]
      BY <3>1, <3>2, <3>3, TotalTake
    <3>6. Total(g, D) = Total(BytesOf(printed), D)
      BY <3>2, <3>4, TotalSame
    <3>7. Total(BytesOf(printed), D) = last.TotalLen
      BY <1>0 DEF ReportedInv
    <3>8. g[n + 1] = data.TotalLen - last.TotalLen
      BY <2>3, <2>4, <3>1
    <3>9. data.TotalLen \in Nat /\ last.TotalLen \in Nat
      BY <1>0 DEF Counters
    <3>10. Total(g, T) = data.TotalLen
      BY <3>1, <3>5, <3>6, <3>7, <3>8, <3>9
    <3> QED
      BY <3>10 DEF g, T
  <2>10. data.TotalLen \in Nat /\ data.TotalLen <= data.TotalLen
    BY <1>0 DEF Counters
  <2>11. Tallies(data, log, DOMAIN log)
    BY <1>0 DEF ReportedInv
  <2>12. ReportedInv'
    BY <2>1, <2>5, <2>6, <2>7, <2>8, <2>9, <2>10, <2>11 DEF ReportedInv
  <2> QED
    BY <2>1, <2>2, <2>11, <2>12 DEF StatsInv
<1>4. CASE CountPacket
  <2> DEFINE n == Len(log) + 1
  <2>1. /\ UNCHANGED <<isUDP, packet, last, endTime, nextTime, printed, final>>
        /\ pc = "before" /\ pc' = "after" /\ ~IntervalDue
        /\ data' = Count(data, packet) /\ log' = Append(log, packet)
        /\ packet.id \in Nat
    BY <1>4 DEF CountPacket, Inv, CountInv
  <2>2. /\ DOMAIN log' = DOMAIN log \cup {n}
        /\ log'[n] = packet
        /\ \A i \in DOMAIN log : log'[i] = log[i]
    BY <1>0, <2>1, Grown
  <2>3. \A i \in DOMAIN log' : log'[i].id \in Nat
    BY <1>0, <2>1, <2>2 DEF ReportedInv
  <2>4. Interval # 0 => \A i \in DOMAIN log' : log'[i].time <= nextTime
    <3>1. Interval # 0 => packet.time <= nextTime
      BY <1>0, <2>1 DEF IntervalDue
    <3> QED
      BY <1>0, <2>2, <3>1 DEF ReportedInv
  <2>5. Tallies(data', log', DOMAIN log')
    BY <1>0, <2>1, CountTallies DEF ReportedInv
  <2>6. ASSUME NEW k \in DOMAIN printed
        PROVE  ExactOf(log', isUDP, k, printed[k])
    <3>1. printed[k] \in Transfer_Info
      BY <1>0
    <3>2. printed[k].startTime \in Nat /\ printed[k].endTime \in Nat
      BY <3>1 DEF Transfer_Info
    <3> QED
      BY <1>0, <2>1, <3>2, ExactKept DEF ReportedInv
  <2>7. last.TotalLen <= data'.TotalLen
    <3>1. data'.TotalLen = data.TotalLen + packet.len
      BY <1>0, <2>1, Zenon DEF Count, Counters
    <3>2. data.TotalLen \in Nat /\ packet.len \in Nat /\ last.TotalLen \in Nat
      BY <1>0 DEF Counters, Packet
    <3> QED
      BY <1>0, <3>1, <3>2 DEF ReportedInv
  <2>8. ReportedInv'
    BY <1>0, <2>1, <2>3, <2>4, <2>5, <2>6, <2>7 DEF ReportedInv
  <2>9. endTime + Interval = nextTime /\ (endTime = 0 \/ endTime < packet.time)
        /\ Tallies(last, log, ByIn(log, endTime)) /\ final = <<>>
    BY <2>1 DEF StatsInv
  <2>10. Tallies(last, log', ByIn(log', endTime))
    <3> DEFINE A == ByIn(log, endTime)
    <3>1. ByIn(log', endTime) = A /\ A \in SUBSET DOMAIN log
      BY <1>0, <2>1, <2>9, KeepsBy
    <3> HIDE DEF A
    <3>2. /\ LateOf(log', A) = LateOf(log, A)
          /\ FreshOf(log', A) = FreshOf(log, A)
          /\ IdsOf(log', A) = IdsOf(log, A)
          /\ Total(LenOf(log'), A) = Total(LenOf(log), A)
      BY <1>0, <2>1, <3>1, KeepsPast
    <3>3. Tallies(last, log, A)
      BY <2>9 DEF A
    <3> QED
      BY <3>1, <3>2, <3>3 DEF Tallies
  <2> QED
    BY <2>1, <2>8, <2>9, <2>10 DEF StatsInv
<1>5. CASE Return
  <2>1. /\ UNCHANGED <<isUDP, packet, data, last, endTime, nextTime, log,
                       printed, final>>
        /\ pc # "done" /\ pc' # "done"
    BY <1>5 DEF Return
  <2>2. packet'.time >= packet.time
    BY <1>0, <2>1
  <2>3. ReportedInv'
    BY <1>0, <2>1, <2>2, ReportedKept
  <2> QED
    BY <2>1, <2>3 DEF StatsInv
<1>6. CASE UNCHANGED vars
  <2>1. UNCHANGED <<isUDP, pc, packet, data, last, endTime, nextTime, log,
                    printed, final>>
    BY <1>6 DEF vars
  <2>2. packet'.time >= packet.time
    BY <1>0, <2>1
  <2>3. ReportedInv'
    BY <1>0, <2>1, <2>2, ReportedKept
  <2> QED
    BY <2>1, <2>3 DEF StatsInv
<1> QED
  BY <1>1, <1>2, <1>3, <1>4, <1>5, <1>6 DEF Next

\* The invariant says what IntervalsExact says: SumLen is a total, and the
\* numbered packets that are not late are the fresh ones.
LEMMA StatsIntervals == Inv /\ StatsInv => IntervalsExact
<1> SUFFICES ASSUME Inv, StatsInv, NEW k \in DOMAIN printed
             PROVE  LET r == printed[k]
                        window == CountedBy(r.endTime) \ CountedBy(r.startTime)
                        late == Cardinality({i \in window : Late(i)})
                        fresh == Cardinality({i \in window \cap Numbered :
                                                ~Late(i)})
                        risen == Highest(CountedBy(r.endTime))
                                   - Highest(CountedBy(r.startTime))
                        gaps == risen - fresh
                    IN  /\ r.startTime = (k - 1) * Interval
                        /\ r.endTime = k * Interval
                        /\ r.TotalLen = SumLen(window)
                        /\ isUDP => /\ r.cntDatagrams = risen
                                    /\ r.cntOutofOrder = late
                                    /\ gaps > late => r.cntError = gaps - late
                                    /\ gaps = 0 => r.cntError = 0
  BY DEF IntervalsExact
<1> DEFINE r == printed[k]
           A == ByIn(log, r.startTime)
           Z == ByIn(log, r.endTime)
           W == Z \ A
<1>1. ExactOf(log, isUDP, k, r)
  BY DEF StatsInv, ReportedInv
<1>2. CountedBy(r.startTime) = A /\ CountedBy(r.endTime) = Z
  BY DEF CountedBy, ByIn
<1>3. W \subseteq DOMAIN log
  BY DEF ByIn
<1>4. Highest(A) = Max(IdsOf(log, A)) /\ Highest(Z) = Max(IdsOf(log, Z))
  BY DEF Highest, IdsOf
<1>5. {i \in W : Late(i)} = LateOf(log, W)
  BY DEF Late, LateOf, LateIn
<1>6. {i \in W \cap Numbered : ~Late(i)} = FreshOf(log, W)
  BY <1>3 DEF Late, FreshOf, LateIn, Numbered
<1>7. SumLen(W) = Total(LenOf(log), W)
  BY <1>3, SumLenIs DEF SumLen
<1> DEFINE late == Cardinality(LateOf(log, W))
           fresh == Cardinality(FreshOf(log, W))
           risen == Max(IdsOf(log, Z)) - Max(IdsOf(log, A))
<1>8. /\ r.startTime = (k - 1) * Interval /\ r.endTime = k * Interval
      /\ r.TotalLen = Total(LenOf(log), W)
      /\ isUDP => /\ r.cntDatagrams = risen /\ r.cntOutofOrder = late
                  /\ r.cntError = Lost(risen - fresh, late)
  BY <1>1 DEF ExactOf
<1>9. late \in Nat
  <2>1. LateOf(log, W) \subseteq 1 .. Len(log)
    BY <1>3 DEF LateOf, Inv, TypeOK
  <2>2. IsFiniteSet(1 .. Len(log))
    BY FS_Interval DEF Inv, TypeOK
  <2>3. IsFiniteSet(LateOf(log, W))
    BY <2>1, <2>2, FS_Subset
  <2> QED BY <2>3, FS_CardinalityType
<1>10. isUDP => /\ risen - fresh > late => r.cntError = risen - fresh - late
                /\ risen - fresh = 0 => r.cntError = 0
  BY <1>8, <1>9 DEF Lost
<1> HIDE DEF r, A, Z, late, fresh, risen
<1> QED
  BY <1>2, <1>4, <1>5, <1>6, <1>7, <1>8, <1>10 DEF r, late, fresh, risen

\* It says what FinalExact says.
LEMMA StatsFinal == Inv /\ StatsInv => FinalExact
<1> SUFFICES ASSUME Inv, StatsInv, pc = "done"
             PROVE  /\ final[1].TotalLen = SumLen(DOMAIN log)
                    /\ isUDP => final[1].cntDatagrams = Highest(DOMAIN log)
                    /\ isUDP /\ Duplicates = 0
                          /\ (Missing > 0 \/ final[1].cntOutofOrder = 0)
                          => final[1].cntError = Missing
                    /\ MapThenSumSet(LAMBDA k : printed[k].TotalLen,
                                     DOMAIN printed)
                         <= final[1].TotalLen
  BY DEF FinalExact
<1>1. /\ final[1].TotalLen = data.TotalLen
      /\ isUDP => final[1].cntDatagrams = data.PacketID
      /\ Tallies(data, log, DOMAIN log) /\ data \in Counters
      /\ \A i \in DOMAIN log : log[i].id \in Nat
      /\ last.TotalLen <= data.TotalLen
      /\ Total(BytesOf(printed), DOMAIN printed) = last.TotalLen
  BY DEF StatsInv, ReportedInv, Inv, TypeOK
<1>2. SumLen(DOMAIN log) = Total(LenOf(log), DOMAIN log)
  BY SumLenIs DEF SumLen
<1>3. Highest(DOMAIN log) = data.PacketID
  <2>1. \A x \in IdsOf(log, DOMAIN log) : x \in Nat
    BY <1>1 DEF IdsOf
  <2>2. Max(IdsOf(log, DOMAIN log)) = data.PacketID
    BY <1>1, <2>1, TallyMax
  <2> QED
    BY <2>2 DEF Highest, IdsOf
<1>4. MapThenSumSet(LAMBDA k : printed[k].TotalLen, DOMAIN printed)
        = last.TotalLen
  BY <1>1, SumBytesIs
<1>5. Duplicates = 0 /\ (Missing > 0 \/ final[1].cntOutofOrder = 0)
        => final[1].cntError = Missing
  <2>1. LossIdentity
    BY InvImpliesIdentity
  <2>2. Missing \in Nat
    <3>1. data.PacketID \in Nat
      BY DEF Inv, TypeOK, Counters
    <3>2. IsFiniteSet(1 .. data.PacketID)
      BY <3>1, FS_Interval
    <3>3. IsFiniteSet((1 .. data.PacketID) \ Seen)
      BY <3>2, FS_Difference
    <3> QED BY <3>3, FS_CardinalityType DEF Missing
  <2>3. /\ final[1].cntOutofOrder = data.cntOutofOrder
        /\ final[1].cntError = Lost(data.cntError, data.cntOutofOrder)
        /\ data.cntError \in Nat /\ data.cntOutofOrder \in Nat
    BY DEF StatsInv, Inv, TypeOK, Counters
  <2> QED BY <2>1, <2>2, <2>3 DEF LossIdentity, Lost
<1> QED
  BY <1>1, <1>2, <1>3, <1>4, <1>5 DEF Tallies

\* Every interval report that reporter_condprintstats prints says what
\* arrived in its interval, for transfers of any length, any interval, any
\* lengths and numbers in any order; its losses are the gaps less the late
\* packets wherever there are more gaps.
THEOREM IntervalsAreExact == Spec => []IntervalsExact
  BY InitInv, StepInv, StatsInit, StatsStep, StatsIntervals, PTL DEF Spec

\* The final report covers the whole transfer, whatever the interval
\* reports took from the counters before it, and says as lost what never
\* came unless something came twice or all gaps were filled.
THEOREM FinalIsExact == Spec => []FinalExact
  BY InitInv, StepInv, StatsInit, StatsStep, StatsFinal, PTL DEF Spec

=============================================================================
