-------------------------- MODULE ReportListProofs --------------------------
(***************************************************************************)
(* The list of report headers stays a list, and nothing in it is lost,     *)
(* for any number of traffic threads and any order of their operations     *)
(* against the reporter's unlocked walk.                                   *)
(***************************************************************************)
EXTENDS ReportList, FiniteSetTheorems, WellFoundedInduction, TLAPS

\* ReportRoot and the next pointers are the list l of n headers.
Chain(n, l) ==
    /\ n \in Nat /\ l \in [1 .. n -> Headers]
    /\ \A j, k \in 1 .. n : l[j] = l[k] => j = k
    /\ Live = {l[k] : k \in 1 .. n}
    /\ root = IF n = 0 THEN Null ELSE l[1]
    /\ \A k \in 1 .. n : next[l[k]] = IF k < n THEN l[k + 1] ELSE Null

\* The reporter walks a piece of it, from after its s-th header on.
Walked(n, l, s) ==
    /\ s \in Nat /\ s + Len(stack) <= n
    /\ \A k \in 1 .. Len(stack) : stack[k] = l[s + k]

List == \E n \in Nat : \E l \in [1 .. n -> Headers], s \in 0 .. n : Chain(n, l) /\ Walked(n, l, s)

\* Where the activations of reporter_process_report are.
Depth ==
    /\ rpc \in {"descend", "process", "return"} => Len(stack) >= 1
    /\ rpc = "unlink" => Len(stack) = 1 /\ need_free
    /\ rpc \in {"return", "unlink"} /\ need_free =>
          /\ NeedFree(stack[Len(stack)]) /\ stack[Len(stack)] \in printed

\* The operations left to an agent.
OpsIn(t) == IF t = <<"exited">> THEN {} ELSE {t[k] : k \in 1 .. Len(t)}
Left(a) == OpsIn(todo[a])

\* They are the rest of its script.
Rest ==
    \A a \in Agents :
        todo[a] = <<"exited">> \/ \E k \in 1 .. Len(Script[a]) + 1 :
                                     todo[a] = SubSeq(Script[a], k, Len(Script[a]))

\* What an agent has still to do has not happened yet.
Progress ==
    \A a \in Agents :
        /\ \A op \in Pushes : op \in Left(a) => mem[<<a, op>>] = "none"
        /\ "close" \in Left(a) => life[<<a, "data">>] = "open"
        /\ "end" \in Left(a) => life[<<a, "data">>] # "ended"

\* What was freed has been printed, and its agent needs it no more.
Freed ==
    /\ \A h \in Headers : mem[h] = "freed" => h \in printed
    /\ \A h \in Headers : h[2] = "data" /\ mem[h] = "freed" => life[h] = "ended"
    /\ \A h \in Headers : h[2] = "data" /\ life[h] \in {"drained", "ended"} => h \in printed
    /\ \A h \in Headers : h[2] # "data" => life[h] = "open"
    /\ \A h \in Headers : mem[h] = "none" => life[h] # "drained"

\* thread_sNum is the number of threads that have not ended, the reporter
\* when it is not asleep.
Threads == {a \in Agents : todo[a] # <<"exited">>}
Counts ==
    /\ sNum = Cardinality(Threads) + IF rpc \in {"unborn", "waiting", "woken"} THEN 0 ELSE 1
    /\ rpc = "unborn" <=> main = "start"
    /\ rpc = "unborn" => stack = <<>>

IInv == TypeOK /\ List /\ Depth /\ Rest /\ Progress /\ Freed /\ Counts

\* The reporter sleeps only while every header in the list belongs to an agent
\* that cannot end before the reporter has seen the header's transfer.
Asleep ==
    rpc \in {"waiting", "woken"} =>
        \A h \in Live : /\ "end" \in Left(h[1])
                        /\ h[2] = "data" => life[h] # "drained"

-----------------------------------------------------------------------------
(* Sequences, sets and the walk *)

\* Every set of natural numbers has a least one.
LEMMA LeastNat ==
    ASSUME NEW T, T \subseteq Nat, T # {}
    PROVE  \E x \in T : \A y \in T : x <= y
<1>1. PICK x \in T : \A y \in T : ~(<<y, x>> \in OpToRel(<, Nat))
  BY NatLessThanWellFounded, WFMin
<1>2. \A y \in T : ~(y < x)
  BY <1>1 DEF OpToRel
<1> QED BY <1>2

\* The rest of a script.
LEMMA Suffix ==
    ASSUME NEW s \in Seq(Ops), NEW k \in 1 .. Len(s) + 1
    PROVE  LET t == SubSeq(s, k, Len(s)) IN
           /\ t \in Seq(Ops) /\ t # <<"exited">> /\ OpsIn(t) = {s[m] : m \in k .. Len(s)}
           /\ k <= Len(s) => t # <<>> /\ Head(t) = s[k] /\ Tail(t) = SubSeq(s, k + 1, Len(s))
           /\ k = Len(s) + 1 => t = <<>>
<1> DEFINE t == SubSeq(s, k, Len(s))
<1>1. t \in Seq(Ops) /\ Len(t) = Len(s) - k + 1 /\ \A m \in 1 .. Len(t) : t[m] = s[k + m - 1]
  OBVIOUS
<1>2. t # <<"exited">>
  <2>1. \A m \in 1 .. Len(t) : t[m] \in Ops
    BY <1>1
  <2>2. "exited" \notin Ops
    BY DEF Ops, Pushes
  <2> HIDE DEF t
  <2>3. t = <<"exited">> => Len(t) = 1 /\ t[1] = "exited"
    OBVIOUS
  <2> QED BY <2>1, <2>2, <2>3
<1>3. OpsIn(t) = {s[m] : m \in k .. Len(s)}
  <2>1. OpsIn(t) = {t[m] : m \in 1 .. Len(t)}
    BY <1>2 DEF OpsIn
  <2>2. ASSUME NEW m \in k .. Len(s) PROVE s[m] \in {t[j] : j \in 1 .. Len(t)}
    <3>1. m - k + 1 \in 1 .. Len(t) /\ k + (m - k + 1) - 1 = m
      BY <1>1
    <3> QED BY <1>1, <3>1
  <2>3. ASSUME NEW m \in 1 .. Len(t) PROVE t[m] \in {s[j] : j \in k .. Len(s)}
    <3>1. k + m - 1 \in k .. Len(s)
      BY <1>1
    <3> QED BY <1>1, <3>1
  <2> QED BY <2>1, <2>2, <2>3
<1>4. k <= Len(s) => t # <<>> /\ Head(t) = s[k] /\ Tail(t) = SubSeq(s, k + 1, Len(s))
  <2>1. k <= Len(s) => Head(t) = s[k]
    BY <1>1
  <2>2. k <= Len(s) => Tail(t) = SubSeq(s, k + 1, Len(s))
    BY <1>1
  <2>3. k <= Len(s) => Len(t) # 0
    BY <1>1
  <2>4. t = <<>> => Len(t) = 0
    <3> HIDE DEF t
    <3> QED OBVIOUS
  <2> HIDE DEF t
  <2> QED BY <2>1, <2>2, <2>3, <2>4
<1>5. k = Len(s) + 1 => t = <<>>
  OBVIOUS
<1> QED BY <1>1, <1>2, <1>3, <1>4, <1>5

\* The headers are finitely many.
LEMMA HeadersFinite == IsFiniteSet(Headers) /\ Cardinality(Headers) \in Nat
<1>1. IsFiniteSet(Pushes)
  <2>1. Pushes = (({"settings"} \cup {"data"}) \cup {"connection"}) \cup {"relay"}
    BY DEF Pushes
  <2> QED BY <2>1, FS_Singleton, FS_Union
<1>2. IsFiniteSet(Agents \X Pushes)
  BY <1>1, ScriptAssumption, FS_Product
<1>3. Headers \in SUBSET (Agents \X Pushes)
  BY DEF Headers
<1>4. IsFiniteSet(Headers)
  BY <1>2, <1>3, FS_Subset
<1> QED BY <1>4, FS_CardinalityType

\* One step of the definition of Walk, for any candidate g.
Unfold(from, g) ==
    [n \in 0 .. Cardinality(Headers) |->
        IF n = 0 THEN from ELSE IF g[n - 1] = Null THEN Null ELSE next[g[n - 1]]]

\* Walk(from) is what any solution of its recursive definition gives.
LEMMA WalkFollows ==
    ASSUME NEW f, NEW from, f = Unfold(from, f)
    PROVE  Walk(from) = {f[n] : n \in 0 .. Cardinality(Headers)}
<1> DEFINE g == CHOOSE h : h = Unfold(from, h)
<1>1. g = Unfold(from, g)
  OBVIOUS
<1>2. Walk(from) = {g[n] : n \in DOMAIN g}
  BY DEF Walk, Unfold
<1> HIDE DEF g
<1>3. \A n \in 0 .. Cardinality(Headers) : f[n] = g[n]
  <2> DEFINE Bad == {n \in 0 .. Cardinality(Headers) : f[n] # g[n]}
  <2> SUFFICES ASSUME Bad # {} PROVE FALSE
    OBVIOUS
  <2>1. PICK n \in Bad : \A m \in Bad : n <= m
    <3>1. Bad \subseteq Nat
      BY HeadersFinite
    <3> HIDE DEF Bad
    <3> QED BY <3>1, LeastNat
  <2>2. n # 0 => f[n - 1] = g[n - 1]
    BY <2>1, HeadersFinite
  <2>3. ASSUME NEW h, h = Unfold(from, h)
        PROVE  h[n] = IF n = 0 THEN from ELSE IF h[n - 1] = Null THEN Null ELSE next[h[n - 1]]
    <3>1. Unfold(from, h)[n] = IF n = 0 THEN from ELSE IF h[n - 1] = Null THEN Null ELSE next[h[n - 1]]
      BY DEF Unfold
    <3> QED BY <2>3, <3>1
  <2>4. f[n] = g[n]
    BY <1>1, <2>2, <2>3
  <2> QED BY <2>4
<1>4. DOMAIN g = 0 .. Cardinality(Headers)
  BY <1>1 DEF Unfold
<1> QED BY <1>2, <1>3, <1>4

\* A chain is what the walk from ReportRoot finds.
LEMMA ChainIsWalk ==
    ASSUME NEW n, NEW l, Chain(n, l)
    PROVE  Walk(root) = Live \cup {Null}
<1> DEFINE C == Cardinality(Headers)
           f == [k \in 0 .. C |-> IF k < n THEN l[k + 1] ELSE Null]
<1>1. n \in Nat /\ l \in [1 .. n -> Headers] /\ C \in Nat /\ Null \notin Headers
  BY HeadersFinite, ScriptAssumption DEF Chain
<1>2. n <= C
  <2>1. l \in Injection(1 .. n, Headers)
    BY <1>1 DEF Chain, Injection, IsInjective
  <2>2. Cardinality(1 .. n) = n
    BY <1>1, FS_Interval
  <2> QED BY <1>1, <2>1, <2>2, HeadersFinite, FS_Injection
<1>3. f = Unfold(root, f)
  <2>1. f[0] = root
    BY <1>1 DEF Chain
  <2>2. ASSUME NEW k \in 0 .. C, k # 0
        PROVE  f[k] = IF f[k - 1] = Null THEN Null ELSE next[f[k - 1]]
    <3>1. k - 1 \in 0 .. C /\ (k - 1) + 1 = k
      BY <1>1, <2>2
    <3>2. CASE k - 1 < n
      <4>1. f[k - 1] = l[k] /\ k \in 1 .. n
        BY <1>1, <2>2, <3>1, <3>2
      <4>2. f[k - 1] # Null
        BY <1>1, <4>1
      <4>3. next[l[k]] = IF k < n THEN l[k + 1] ELSE Null
        BY <4>1 DEF Chain
      <4> QED BY <4>1, <4>2, <4>3
    <3>3. CASE ~(k - 1 < n)
      <4>1. f[k - 1] = Null /\ f[k] = Null
        BY <1>1, <2>2, <3>1, <3>3
      <4> QED BY <4>1
    <3> QED BY <3>2, <3>3
  <2> HIDE DEF f
  <2>3. f = [k \in 0 .. C |-> f[k]]
    BY DEF f
  <2> QED BY <2>1, <2>2, <2>3 DEF Unfold
<1>4. Walk(root) = {f[k] : k \in 0 .. C}
  <2> HIDE DEF f
  <2> QED BY <1>3, WalkFollows
<1>5. {f[k] : k \in 0 .. C} = {l[k] : k \in 1 .. n} \cup {Null}
  <2>1. ASSUME NEW k \in 0 .. C PROVE f[k] \in {l[j] : j \in 1 .. n} \cup {Null}
    BY <1>1
  <2>2. ASSUME NEW k \in 1 .. n PROVE l[k] \in {f[j] : j \in 0 .. C}
    <3>1. k - 1 \in 0 .. C /\ f[k - 1] = l[k]
      BY <1>1, <1>2
    <3> QED BY <3>1
  <2>3. f[C] = Null /\ C \in 0 .. C
    BY <1>1, <1>2
  <2> HIDE DEF f
  <2> QED BY <2>1, <2>2, <2>3
<1> QED BY <1>4, <1>5 DEF Chain

-----------------------------------------------------------------------------
(* What happens to the list *)

\* A step that leaves the pointers and the walk alone.
LEMMA ListKept ==
    ASSUME List, UNCHANGED <<root, next, mem, stack>>
    PROVE  List'
<1>1. Live' = Live
  BY DEF Live
<1>2. ASSUME NEW n, NEW l, Chain(n, l) PROVE Chain(n, l)'
  BY <1>1, <1>2 DEF Chain
<1>3. ASSUME NEW n, NEW l, NEW s, Walked(n, l, s) PROVE Walked(n, l, s)'
  BY <1>3 DEF Walked
<1> QED BY <1>2, <1>3 DEF List

\* The walk is over.
LEMMA ListLeft ==
    ASSUME List, UNCHANGED <<root, next, mem>>, stack' = <<>>
    PROVE  List'
<1>0. PICK n \in Nat : \E l \in [1 .. n -> Headers], s \in 0 .. n : Chain(n, l) /\ Walked(n, l, s)
  BY DEF List
<1>1. PICK l \in [1 .. n -> Headers], s \in 0 .. n : Chain(n, l) /\ Walked(n, l, s)
  BY <1>0
<1>2. Chain(n, l)'
  BY <1>1 DEF Chain, Live
<1>3. Walked(n, l, 0)' /\ 0 \in 0 .. n
  BY DEF Walked
<1> QED BY <1>2, <1>3 DEF List

\* A header is pushed in front.
LEMMA ListGrows ==
    ASSUME List, NEW h \in Headers, mem \in [Headers -> {"none", "live", "freed"}],
           next \in [Headers -> Headers \cup {Null}], stack \in Seq(Headers),
           mem[h] # "live", mem' = [mem EXCEPT ![h] = "live"],
           next' = [next EXCEPT ![h] = root], root' = h, UNCHANGED stack
    PROVE  List'
<1>0. PICK n \in Nat : \E l \in [1 .. n -> Headers], s \in 0 .. n : Chain(n, l) /\ Walked(n, l, s)
  BY DEF List
<1>1. PICK l \in [1 .. n -> Headers], s \in 0 .. n : Chain(n, l) /\ Walked(n, l, s)
  BY <1>0
<1> DEFINE k == [j \in 1 .. n + 1 |-> IF j = 1 THEN h ELSE l[j - 1]]
<1>2. k \in [1 .. n + 1 -> Headers] /\ n + 1 \in Nat /\ s + 1 \in 0 .. n + 1
  OBVIOUS
<1>3. /\ k[1] = h /\ \A j \in 1 .. n : k[j + 1] = l[j]
      /\ \A j \in 2 .. n + 1 : j - 1 \in 1 .. n /\ k[j] = l[j - 1]
  OBVIOUS
<1>4. \A j \in 1 .. n : l[j] # h
  BY <1>1 DEF Chain, Live
<1> HIDE DEF k
<1>5. \A i, j \in 1 .. n + 1 : k[i] = k[j] => i = j
  <2> SUFFICES ASSUME NEW i \in 1 .. n + 1, NEW j \in 1 .. n + 1, k[i] = k[j] PROVE i = j
    OBVIOUS
  <2>1. CASE i = 1 /\ j = 1
    BY <2>1
  <2>2. CASE i # 1 /\ j # 1
    <3>1. i - 1 \in 1 .. n /\ j - 1 \in 1 .. n /\ l[i - 1] = l[j - 1]
      BY <1>3, <2>2
    <3>2. i - 1 = j - 1
      BY <1>1, <3>1 DEF Chain
    <3> QED BY <3>2
  <2>3. CASE (i = 1 /\ j # 1) \/ (i # 1 /\ j = 1)
    BY <1>3, <1>4, <2>3
  <2> QED BY <2>1, <2>2, <2>3
<1>6. Live' = {k[j] : j \in 1 .. n + 1}
  <2>1. Live' = Live \cup {h}
    BY DEF Live
  <2>2. Live = {l[j] : j \in 1 .. n}
    BY <1>1 DEF Chain
  <2>3. {k[j] : j \in 1 .. n + 1} = {l[j] : j \in 1 .. n} \cup {h}
    <3>1. \A j \in 1 .. n + 1 : k[j] \in {l[i] : i \in 1 .. n} \cup {h}
      BY <1>3
    <3>2. \A j \in 1 .. n : j + 1 \in 1 .. n + 1 /\ l[j] = k[j + 1]
      BY <1>3
    <3>3. h = k[1] /\ 1 \in 1 .. n + 1
      BY <1>3
    <3> QED BY <3>1, <3>2, <3>3
  <2> QED BY <2>1, <2>2, <2>3
<1>7. \A j \in 1 .. n + 1 : next'[k[j]] = IF j < n + 1 THEN k[j + 1] ELSE Null
  <2> SUFFICES ASSUME NEW j \in 1 .. n + 1
               PROVE  next'[k[j]] = IF j < n + 1 THEN k[j + 1] ELSE Null
    OBVIOUS
  <2>1. CASE j = 1
    <3>1. next'[h] = IF n = 0 THEN Null ELSE l[1]
      BY <1>1 DEF Chain
    <3>2. n # 0 => k[1 + 1] = l[1]
      BY <1>3
    <3> QED BY <1>3, <2>1, <3>1, <3>2
  <2>2. CASE j # 1
    <3>1. j - 1 \in 1 .. n /\ k[j] = l[j - 1]
      BY <1>3, <2>2
    <3>2. next'[l[j - 1]] = next[l[j - 1]]
      BY <1>4, <3>1
    <3>3. next[l[j - 1]] = IF j - 1 < n THEN l[(j - 1) + 1] ELSE Null
      BY <1>1, <3>1 DEF Chain
    <3>4. j < n + 1 => k[j + 1] = l[(j - 1) + 1]
      BY <1>3, <3>1
    <3> QED BY <3>1, <3>2, <3>3, <3>4
  <2> QED BY <2>1, <2>2
<1>8. Chain(n + 1, k)'
  BY <1>2, <1>3, <1>5, <1>6, <1>7 DEF Chain
<1>9. Walked(n + 1, k, s + 1)'
  <2>1. \A j \in 1 .. Len(stack) : stack[j] = k[(s + 1) + j]
    <3>1. \A j \in 1 .. Len(stack) : s + j \in 1 .. n /\ stack[j] = l[s + j] /\ (s + 1) + j = (s + j) + 1
      BY <1>1 DEF Walked
    <3> QED BY <1>3, <3>1
  <2> QED BY <1>1, <2>1 DEF Walked
<1> QED BY <1>2, <1>8, <1>9 DEF List

\* A header is unlinked and freed: the root, or the successor of another; what
\* is walked is in front of it.
LEMMA ListShrinks ==
    ASSUME NEW n \in Nat, NEW l \in [1 .. n -> Headers], NEW s \in 0 .. n, NEW p \in 1 .. n,
           Chain(n, l), mem \in [Headers -> {"none", "live", "freed"}],
           next \in [Headers -> Headers \cup {Null}], stack' \in Seq(Headers),
           mem' = [mem EXCEPT ![l[p]] = "freed"],
           \/ p = 1 /\ root' = next[l[1]] /\ next' = next
           \/ p > 1 /\ root' = root /\ next' = [next EXCEPT ![l[p - 1]] = next[l[p]]],
           s + Len(stack') < p, \A j \in 1 .. Len(stack') : stack'[j] = l[s + j]
    PROVE  List'
<1> DEFINE k == [j \in 1 .. n - 1 |-> IF j < p THEN l[j] ELSE l[j + 1]]
<1>1. n - 1 \in Nat /\ k \in [1 .. n - 1 -> Headers] /\ s \in 0 .. n - 1
  OBVIOUS
<1>2. /\ \A j \in 1 .. n - 1 : j < p => k[j] = l[j]
      /\ \A j \in 1 .. n - 1 : ~(j < p) => k[j] = l[j + 1]
  OBVIOUS
<1> HIDE DEF k
<1>3. \A i, j \in 1 .. n : l[i] = l[j] => i = j
  BY DEF Chain
<1>4. \A i, j \in 1 .. n - 1 : k[i] = k[j] => i = j
  BY <1>2, <1>3
<1>5. Live' = {k[j] : j \in 1 .. n - 1}
  <2>1. Live' = Live \ {l[p]}
    BY DEF Live
  <2>2. Live = {l[j] : j \in 1 .. n}
    BY DEF Chain
  <2>3. ASSUME NEW j \in 1 .. n - 1 PROVE k[j] \in {l[i] : i \in 1 .. n} \ {l[p]}
    BY <1>2, <1>3
  <2>4. ASSUME NEW j \in 1 .. n, j # p PROVE l[j] \in {k[i] : i \in 1 .. n - 1}
    <3>1. CASE j < p
      BY <1>2, <3>1
    <3>2. CASE j > p
      <4>1. j - 1 \in 1 .. n - 1 /\ ~(j - 1 < p) /\ (j - 1) + 1 = j
        BY <3>2
      <4>2. k[j - 1] = l[j]
        BY <1>2, <4>1
      <4> QED BY <4>1, <4>2
    <3> QED BY <2>4, <3>1, <3>2
  <2> QED BY <2>1, <2>2, <2>3, <2>4
<1>6. root' = IF n - 1 = 0 THEN Null ELSE k[1]
  <2>1. CASE p = 1
    <3>1. root' = IF 1 < n THEN l[1 + 1] ELSE Null
      BY <2>1 DEF Chain
    <3> QED BY <1>2, <2>1, <3>1
  <2>2. CASE p > 1
    <3>1. root' = l[1] /\ 1 \in 1 .. n - 1
      BY <2>2 DEF Chain
    <3> QED BY <1>2, <2>2, <3>1
  <2> QED BY <2>1, <2>2
<1>7. \A j \in 1 .. n - 1 : next'[k[j]] = IF j < n - 1 THEN k[j + 1] ELSE Null
  <2> SUFFICES ASSUME NEW j \in 1 .. n - 1
               PROVE  next'[k[j]] = IF j < n - 1 THEN k[j + 1] ELSE Null
    OBVIOUS
  <2>1. \A i \in 1 .. n : next[l[i]] = IF i < n THEN l[i + 1] ELSE Null
    BY DEF Chain
  <2>2. CASE j + 1 < p
    <3>1. k[j] = l[j] /\ k[j + 1] = l[j + 1] /\ j < n - 1
      BY <1>2, <2>2
    <3>2. next'[l[j]] = next[l[j]]
      BY <1>3, <2>2
    <3> QED BY <2>1, <3>1, <3>2
  <2>3. CASE j + 1 = p
    <3>1. k[j] = l[p - 1] /\ p > 1 /\ j + 1 \in 1 .. n
      BY <1>2, <2>3
    <3>2. next'[l[p - 1]] = next[l[p]]
      BY <3>1
    <3>3. j < n - 1 => k[j + 1] = l[p + 1]
      BY <1>2, <2>3
    <3> QED BY <2>1, <2>3, <3>1, <3>2, <3>3
  <2>4. CASE ~(j < p)
    <3>1. k[j] = l[j + 1] /\ j + 1 \in 1 .. n
      BY <1>2, <2>4
    <3>2. next'[l[j + 1]] = next[l[j + 1]]
      BY <1>3, <2>4
    <3>3. j < n - 1 => k[j + 1] = l[(j + 1) + 1]
      BY <1>2, <2>4
    <3> QED BY <2>1, <3>1, <3>2, <3>3
  <2> QED BY <2>2, <2>3, <2>4
<1>8. Chain(n - 1, k)'
  BY <1>1, <1>4, <1>5, <1>6, <1>7 DEF Chain
<1>9. Walked(n - 1, k, s)'
  <2>1. \A j \in 1 .. Len(stack') : stack'[j] = k[s + j]
    <3>1. \A j \in 1 .. Len(stack') : s + j \in 1 .. n - 1 /\ s + j < p
      OBVIOUS
    <3> QED BY <1>2, <3>1
  <2> QED BY <1>1, <2>1 DEF Walked
<1> QED BY <1>1, <1>8, <1>9 DEF List

-----------------------------------------------------------------------------
(* What happens to the scripts *)

\* What is left to an agent is in its script, and the headers it is about
\* exist.
LEMMA LeftInScript ==
    ASSUME Rest, NEW a \in Agents, NEW op \in Left(a)
    PROVE  /\ op \in Ops /\ op \in Range(Script[a])
           /\ op \in Pushes => <<a, op>> \in Headers
           /\ op \in {"close", "end"} => <<a, "data">> \in Headers
<1>1. PICK k \in 1 .. Len(Script[a]) + 1 : todo[a] = SubSeq(Script[a], k, Len(Script[a]))
  BY DEF Rest, Left, OpsIn
<1>2. Script[a] \in Seq(Ops)
  BY ScriptAssumption
<1>3. Left(a) = {Script[a][m] : m \in k .. Len(Script[a])}
  BY <1>1, <1>2, Suffix DEF Left
<1>4. PICK m \in k .. Len(Script[a]) : op = Script[a][m]
  BY <1>3
<1>5. op \in Ops /\ op \in Range(Script[a])
  BY <1>2, <1>4 DEF Range
<1>6. op \in {"close", "end"} => "data" \in Range(Script[a])
  BY <1>5, ScriptAssumption
<1>7. "data" \in Pushes
  BY DEF Pushes
<1> QED BY <1>5, <1>6, <1>7 DEF Headers

\* An agent does the next operation of its script, and only once.
LEMMA TakeOp ==
    ASSUME TypeOK, Rest, NEW a \in Agents, NEW op \in Ops, Doing(a, op), OpDone(a)
    PROVE  /\ op \in Left(a) /\ Left(a)' = Left(a) \ {op}
           /\ \A b \in Agents \ {a} : Left(b)' = Left(b)
           /\ todo' \in [Agents -> Seq(Ops) \cup {<<"exited">>}]
           /\ Rest' /\ Threads' = Threads
<1> DEFINE s == Script[a]
<1>1. s \in Seq(Ops) /\ \A j, k \in 1 .. Len(s) : s[j] = s[k] => j = k
  BY ScriptAssumption
<1>2. todo[a] # <<"exited">>
  <2>1. "exited" \notin Ops /\ Head(<<"exited">>) = "exited"
    BY DEF Ops, Pushes
  <2> QED BY <2>1 DEF Doing, NextOp
<1>3. PICK k \in 1 .. Len(s) + 1 : todo[a] = SubSeq(s, k, Len(s))
  BY <1>2 DEF Rest
<1>4. k <= Len(s)
  BY <1>1, <1>3, Suffix DEF Doing
<1>5. k \in 1 .. Len(s) /\ k + 1 \in 1 .. Len(s) + 1
  BY <1>1, <1>4
<1>6. op = s[k] /\ todo'[a] = SubSeq(s, k + 1, Len(s))
  BY <1>1, <1>3, <1>4, Suffix DEF Doing, NextOp, OpDone, TypeOK
<1>7. Left(a) = {s[m] : m \in k .. Len(s)}
  BY <1>1, <1>3, Suffix DEF Left
<1>8. /\ Left(a)' = {s[m] : m \in k + 1 .. Len(s)}
      /\ todo'[a] \in Seq(Ops) /\ todo'[a] # <<"exited">>
  <2> HIDE DEF s
  <2>1. LET t == SubSeq(s, k + 1, Len(s)) IN
        t \in Seq(Ops) /\ t # <<"exited">> /\ OpsIn(t) = {s[m] : m \in k + 1 .. Len(s)}
    BY <1>1, <1>5, Suffix
  <2> QED BY <1>6, <2>1 DEF Left
<1> HIDE DEF s
<1>9. op \in Left(a) /\ Left(a)' = Left(a) \ {op}
  <2>1. k \in k .. Len(s) /\ Len(s) \in Nat
    BY <1>1, <1>4
  <2>2. ASSUME NEW m \in k + 1 .. Len(s) PROVE s[m] \in {s[j] : j \in k .. Len(s)} \ {s[k]}
    BY <1>1, <1>5, <2>1
  <2>3. ASSUME NEW m \in k .. Len(s), s[m] # s[k] PROVE s[m] \in {s[j] : j \in k + 1 .. Len(s)}
    BY <1>1, <1>5, <2>1, <2>3
  <2> QED BY <1>6, <1>7, <1>8, <2>1, <2>2, <2>3
<1>10. \A b \in Agents \ {a} : todo'[b] = todo[b]
  BY DEF OpDone, TypeOK
<1>11. todo' \in [Agents -> Seq(Ops) \cup {<<"exited">>}]
  BY <1>8, <1>10 DEF OpDone, TypeOK
<1>12. Rest'
  BY <1>5, <1>6, <1>10 DEF Rest, s
<1>13. Threads' = Threads
  BY <1>2, <1>8, <1>10 DEF Threads
<1> QED BY <1>9, <1>10, <1>11, <1>12, <1>13 DEF Left

-----------------------------------------------------------------------------
(* The operations of a traffic thread *)

\* Pushing a header keeps the invariant, wherever the reporter is.
LEMMA PushInv ==
    ASSUME IInv, NEW a \in Agents, NEW op \in Pushes, Push(a, op)
    PROVE  IInv'
<1> USE DEF IInv
<1> DEFINE h == <<a, op>>
<1>1. op \in Ops /\ Doing(a, op) /\ OpDone(a)
  BY DEF Push, Ops
<1>2. /\ op \in Left(a) /\ Left(a)' = Left(a) \ {op}
      /\ \A b \in Agents \ {a} : Left(b)' = Left(b)
      /\ todo' \in [Agents -> Seq(Ops) \cup {<<"exited">>}]
      /\ Rest' /\ Threads' = Threads
  BY <1>1, TakeOp
<1>3. h \in Headers /\ mem[h] = "none"
  BY <1>2, LeftInScript DEF Progress
<1>4. TypeOK'
  BY <1>2, <1>3 DEF TypeOK, Push, walkVars
<1>5. List'
  BY <1>3, ListGrows DEF TypeOK, Push, walkVars
<1>6. Depth'
  BY DEF Depth, Push, walkVars, NeedFree, TypeOK
<1>7. Progress'
  <2> SUFFICES ASSUME NEW b \in Agents
               PROVE  /\ \A o \in Pushes : o \in Left(b)' => mem'[<<b, o>>] = "none"
                      /\ "close" \in Left(b)' => life[<<b, "data">>] = "open"
                      /\ "end" \in Left(b)' => life[<<b, "data">>] # "ended"
    BY DEF Progress, Push
  <2>1. Left(b)' \subseteq Left(b)
    BY <1>2
  <2>2. ASSUME NEW o \in Pushes, o \in Left(b)' PROVE mem'[<<b, o>>] = "none"
    <3>1. mem[<<b, o>>] = "none" /\ <<b, o>> \in Headers
      BY <2>1, <2>2, LeftInScript DEF Progress
    <3>2. <<b, o>> # h
      BY <1>2, <2>2
    <3> QED BY <3>1, <3>2 DEF Push, TypeOK
  <2> QED BY <2>1, <2>2 DEF Progress
<1>8. Freed'
  BY <1>3 DEF Freed, Push, TypeOK
<1>9. Counts'
  BY <1>2 DEF Counts, Push, walkVars
<1> QED BY <1>2, <1>4, <1>5, <1>6, <1>7, <1>8, <1>9

\* So does closing a transfer report.
LEMMA CloseInv ==
    ASSUME IInv, NEW a \in Agents, CloseReport(a)
    PROVE  IInv'
<1> USE DEF IInv
<1> DEFINE h == <<a, "data">>
<1>1. "close" \in Ops /\ Doing(a, "close") /\ OpDone(a)
  BY DEF CloseReport, Ops
<1>2. /\ "close" \in Left(a) /\ Left(a)' = Left(a) \ {"close"}
      /\ \A b \in Agents \ {a} : Left(b)' = Left(b)
      /\ todo' \in [Agents -> Seq(Ops) \cup {<<"exited">>}]
      /\ Rest' /\ Threads' = Threads
  BY <1>1, TakeOp
<1>3. h \in Headers /\ life[h] = "open"
  BY <1>2, LeftInScript DEF Progress
<1>4. TypeOK'
  BY <1>2, <1>3 DEF TypeOK, CloseReport, listVars, walkVars
<1>5. List'
  BY ListKept DEF CloseReport, listVars, walkVars
<1>6. Depth'
  BY <1>3 DEF Depth, CloseReport, walkVars, NeedFree, TypeOK
<1>7. Progress'
  <2> SUFFICES ASSUME NEW b \in Agents
               PROVE  /\ \A o \in Pushes : o \in Left(b)' => mem[<<b, o>>] = "none"
                      /\ "close" \in Left(b)' => life'[<<b, "data">>] = "open"
                      /\ "end" \in Left(b)' => life'[<<b, "data">>] # "ended"
    BY DEF Progress, CloseReport, listVars
  <2>1. Left(b)' \subseteq Left(b)
    BY <1>2
  <2>2. ASSUME {"close", "end"} \cap Left(b)' # {}
        PROVE  life'[<<b, "data">>] = IF b = a THEN "closed" ELSE life[<<b, "data">>]
    <3>1. <<b, "data">> \in Headers
      BY <2>1, <2>2, LeftInScript
    <3> QED BY <3>1 DEF CloseReport, TypeOK
  <2> QED BY <1>2, <2>1, <2>2 DEF Progress
<1>8. Freed'
  BY <1>3 DEF Freed, CloseReport, listVars, TypeOK
<1>9. Counts'
  BY <1>2 DEF Counts, CloseReport, walkVars
<1> QED BY <1>2, <1>4, <1>5, <1>6, <1>7, <1>8, <1>9

\* And ending it.
LEMMA EndInv ==
    ASSUME IInv, NEW a \in Agents, EndReport(a)
    PROVE  IInv'
<1> USE DEF IInv
<1> DEFINE h == <<a, "data">>
<1>1. "end" \in Ops /\ Doing(a, "end") /\ OpDone(a)
  BY DEF EndReport, Ops
<1>2. /\ "end" \in Left(a) /\ Left(a)' = Left(a) \ {"end"}
      /\ \A b \in Agents \ {a} : Left(b)' = Left(b)
      /\ todo' \in [Agents -> Seq(Ops) \cup {<<"exited">>}]
      /\ Rest' /\ Threads' = Threads
  BY <1>1, TakeOp
<1>3. h \in Headers /\ life[h] = "drained"
  BY <1>2, LeftInScript DEF EndReport
<1>4. TypeOK'
  BY <1>2, <1>3 DEF TypeOK, EndReport, listVars, walkVars
<1>5. List'
  BY ListKept DEF EndReport, listVars, walkVars
<1>6. Depth'
  BY <1>3 DEF Depth, EndReport, walkVars, NeedFree, TypeOK
<1>7. Progress'
  <2> SUFFICES ASSUME NEW b \in Agents
               PROVE  /\ \A o \in Pushes : o \in Left(b)' => mem[<<b, o>>] = "none"
                      /\ "close" \in Left(b)' => life'[<<b, "data">>] = "open"
                      /\ "end" \in Left(b)' => life'[<<b, "data">>] # "ended"
    BY DEF Progress, EndReport, listVars
  <2>1. Left(b)' \subseteq Left(b)
    BY <1>2
  <2>2. ASSUME {"close", "end"} \cap Left(b)' # {}
        PROVE  life'[<<b, "data">>] = IF b = a THEN "ended" ELSE life[<<b, "data">>]
    <3>1. <<b, "data">> \in Headers
      BY <2>1, <2>2, LeftInScript
    <3> QED BY <3>1 DEF EndReport, TypeOK
  <2> QED BY <1>2, <1>3, <2>1, <2>2 DEF Progress
<1>8. Freed'
  BY <1>3 DEF Freed, EndReport, listVars, TypeOK
<1>9. Counts'
  BY <1>2 DEF Counts, EndReport, walkVars
<1> QED BY <1>2, <1>4, <1>5, <1>6, <1>7, <1>8, <1>9

\* A thread that ends is counted once less.
LEMMA ExitInv ==
    ASSUME IInv, NEW a \in Agents, ThreadExit(a)
    PROVE  IInv'
<1> USE DEF IInv
<1>1. todo' \in [Agents -> Seq(Ops) \cup {<<"exited">>}]
  BY DEF ThreadExit, TypeOK
<1>2. \A b \in Agents : Left(b)' = Left(b)
  <2>1. Left(a)' = {} /\ Left(a) = {}
    <3>1. todo[a] = <<>> /\ todo'[a] = <<"exited">>
      BY DEF ThreadExit, TypeOK
    <3>2. OpsIn(<<"exited">>) = {} /\ OpsIn(<<>>) = {}
      BY DEF OpsIn
    <3> QED BY <3>1, <3>2 DEF Left
  <2>2. \A b \in Agents \ {a} : todo'[b] = todo[b]
    BY DEF ThreadExit, TypeOK
  <2> QED BY <2>1, <2>2 DEF Left
<1>3. Threads' = Threads \ {a} /\ a \in Threads
  <2>1. todo[a] # <<"exited">>
    <3>1. <<"exited">> # << >>
      OBVIOUS
    <3> QED BY <3>1 DEF ThreadExit
  <2> QED BY <2>1 DEF ThreadExit, TypeOK, Threads
<1>4. IsFiniteSet(Threads)
  <2>1. Threads \in SUBSET Agents
    BY DEF Threads
  <2> QED BY <2>1, ScriptAssumption, FS_Subset
<1>5. Cardinality(Threads') = Cardinality(Threads) - 1 /\ Cardinality(Threads') \in Nat
  <2>1. IsFiniteSet(Threads')
    BY <1>3, <1>4, FS_RemoveElement
  <2> QED BY <1>3, <1>4, <2>1, FS_RemoveElement, FS_CardinalityType
<1>6. Counts'
  BY <1>4, <1>5, FS_CardinalityType DEF Counts, ThreadExit, walkVars
<1>7. sNum' \in Nat
  BY <1>5, <1>6 DEF Counts
<1>8. TypeOK'
  BY <1>1, <1>7 DEF TypeOK, ThreadExit, listVars, walkVars
<1>9. List'
  BY ListKept DEF ThreadExit, listVars, walkVars
<1>10. Depth' /\ Freed'
  BY DEF Depth, Freed, ThreadExit, listVars, walkVars, NeedFree
<1>11. Rest'
  BY DEF Rest, ThreadExit, TypeOK
<1>12. Progress'
  BY <1>2 DEF Progress, ThreadExit, listVars
<1> QED BY <1>6, <1>8, <1>9, <1>10, <1>11, <1>12

-----------------------------------------------------------------------------
(* The reporter and main *)

\* The steps that leave the list, the reports and the scripts alone.
LEMMA Elsewhere ==
    ASSUME IInv, UNCHANGED <<listVars, life, printed, todo, need_free>>
    PROVE  /\ Rest' /\ Progress' /\ Freed' /\ Threads' = Threads
           /\ Cardinality(Threads) \in Nat
<1> USE DEF IInv, listVars
<1>1. \A a \in Agents : Left(a)' = Left(a)
  BY DEF Left
<1>2. Rest' /\ Freed' /\ Threads' = Threads
  BY DEF Rest, Freed, Threads
<1>3. Progress'
  BY <1>1 DEF Progress
<1>4. Cardinality(Threads) \in Nat
  <2>1. Threads \in SUBSET Agents
    BY DEF Threads
  <2> QED BY <2>1, ScriptAssumption, FS_Subset, FS_CardinalityType
<1> QED BY <1>2, <1>3, <1>4

\* main starts the reporter, or leaves.
LEMMA MainInv ==
    ASSUME IInv, StartReporter \/ Exit
    PROVE  IInv'
<1>1. UNCHANGED <<listVars, life, printed, todo, need_free>> /\ UNCHANGED <<root, next, mem, stack>>
  BY DEF StartReporter, Exit, listVars, walkVars
<1>2. List' /\ Rest' /\ Progress' /\ Freed' /\ Threads' = Threads /\ Cardinality(Threads) \in Nat
  BY <1>1, Elsewhere, ListKept DEF IInv
<1>3. TypeOK'
  BY DEF TypeOK, StartReporter, Exit, IInv, listVars, walkVars
<1>4. Depth'
  BY DEF Depth, StartReporter, Exit, IInv, walkVars, NeedFree
<1>5. Counts'
  BY <1>2 DEF Counts, StartReporter, Exit, IInv, walkVars
<1> QED BY <1>2, <1>3, <1>4, <1>5 DEF IInv

\* The reporter goes to sleep, wakes up, or has no report to walk to.
LEMMA LoopInv ==
    ASSUME IInv, Top \/ SpuriousWakeup \/ Wake
    PROVE  IInv'
<1>1. UNCHANGED <<listVars, life, printed, todo, need_free>> /\ UNCHANGED <<root, next, mem, stack>>
  BY DEF Top, SpuriousWakeup, Wake, listVars, walkVars
<1>2. List' /\ Rest' /\ Progress' /\ Freed' /\ Threads' = Threads /\ Cardinality(Threads) \in Nat
  BY <1>1, Elsewhere, ListKept DEF IInv
<1>3. Counts'
  BY <1>1, <1>2 DEF Counts, Top, SpuriousWakeup, Wake, IInv
<1>4. sNum' \in Nat
  BY <1>2, <1>3 DEF Counts
<1>5. TypeOK'
  BY <1>1, <1>4 DEF TypeOK, Top, SpuriousWakeup, Wake, IInv, listVars
<1>6. Depth'
  BY <1>1 DEF Depth, Top, SpuriousWakeup, Wake, IInv, listVars
<1> QED BY <1>2, <1>3, <1>5, <1>6 DEF IInv

\* The walk starts at ReportRoot.
LEMMA AgainInv ==
    ASSUME IInv, Again
    PROVE  IInv'
<1>1. UNCHANGED <<listVars, life, printed, todo, need_free>> /\ UNCHANGED <<root, next, mem, sNum, main>>
  BY DEF Again, listVars
<1>2. Rest' /\ Progress' /\ Freed' /\ Threads' = Threads /\ Cardinality(Threads) \in Nat
  BY <1>1, Elsewhere
<1>3. TypeOK'
  <2>1. stack' \in Seq(Headers)
    <3>1. \A h \in Headers : <<h>> \in Seq(Headers)
      OBVIOUS
    <3>2. stack' = stack \/ (root \in Headers /\ stack' = <<root>>)
      BY DEF Again, IInv, TypeOK
    <3> QED BY <3>1, <3>2 DEF IInv, TypeOK
  <2>2. rpc' \in {"top", "descend"}
    BY DEF Again
  <2> QED BY <1>1, <2>1, <2>2 DEF TypeOK, IInv
<1>4. List'
  <2>1. CASE root = Null
    <3>1. UNCHANGED <<root, next, mem, stack>>
      BY <2>1 DEF Again, listVars
    <3> QED BY <3>1, ListKept DEF IInv
  <2>2. CASE root # Null
    <3>0. PICK n \in Nat : \E l \in [1 .. n -> Headers], s \in 0 .. n : Chain(n, l) /\ Walked(n, l, s)
      BY DEF IInv, List
    <3>1. PICK l \in [1 .. n -> Headers], s \in 0 .. n : Chain(n, l) /\ Walked(n, l, s)
      BY <3>0
    <3>2. Chain(n, l)'
      <4>1. Live' = Live
        BY <1>1 DEF Live
      <4> QED BY <1>1, <3>1, <4>1 DEF Chain
    <3>3. stack' = <<root>> /\ n # 0 /\ root = l[1]
      BY <2>2, <3>1 DEF Again, Chain
    <3>4. Walked(n, l, 0)' /\ 0 \in 0 .. n
      BY <3>3 DEF Walked
    <3> QED BY <3>2, <3>4 DEF List
  <2> QED BY <2>1, <2>2
<1>5. Depth'
  <2>1. rpc' = "descend" => Len(stack') >= 1
    BY DEF Again
  <2>2. rpc' \in {"top", "descend"}
    BY DEF Again
  <2> QED BY <2>1, <2>2 DEF Depth
<1>6. Counts'
  BY <1>1, <1>2 DEF Counts, Again, IInv
<1> QED BY <1>2, <1>3, <1>4, <1>5, <1>6 DEF IInv

\* The walk goes on to the next header.
LEMMA DescendInv ==
    ASSUME IInv, Descend
    PROVE  IInv'
<1> DEFINE h == stack[Len(stack)]
<1>1. UNCHANGED <<listVars, life, printed, todo, need_free>> /\ UNCHANGED <<root, next, mem, sNum, main>>
  BY DEF Descend, listVars
<1>2. Rest' /\ Progress' /\ Freed' /\ Threads' = Threads /\ Cardinality(Threads) \in Nat
  BY <1>1, Elsewhere
<1>3. Len(stack) >= 1 /\ stack \in Seq(Headers) /\ h \in Headers /\ rpc = "descend"
  BY DEF IInv, Depth, TypeOK, Descend
<1>4. \/ next[h] # Null /\ stack' = Append(stack, next[h]) /\ rpc' = "descend"
      \/ next[h] = Null /\ rpc' = "process" /\ stack' = stack
  BY <1>3 DEF Descend, Last
<1>5. stack' \in Seq(Headers) /\ Len(stack') >= 1
  BY <1>3, <1>4 DEF IInv, TypeOK
<1>6. TypeOK'
  BY <1>1, <1>4, <1>5 DEF TypeOK, IInv, listVars
<1>7. List'
  <2>0. PICK n \in Nat : \E l \in [1 .. n -> Headers], s \in 0 .. n : Chain(n, l) /\ Walked(n, l, s)
    BY DEF IInv, List
  <2>1. PICK l \in [1 .. n -> Headers], s \in 0 .. n : Chain(n, l) /\ Walked(n, l, s)
    BY <2>0
  <2>2. CASE next[h] # Null
    <3>1. Chain(n, l)'
      <4>1. Live' = Live
        BY <1>1 DEF Live
      <4> QED BY <1>1, <2>1, <4>1 DEF Chain
    <3> DEFINE p == s + Len(stack)
    <3>2. p \in 1 .. n /\ h = l[p]
      BY <1>3, <2>1 DEF Walked
    <3>3. p < n /\ next[h] = l[p + 1]
      BY <2>1, <2>2, <3>2 DEF Chain
    <3>4. /\ Len(stack') = Len(stack) + 1 /\ stack'[Len(stack) + 1] = l[p + 1]
          /\ \A k \in 1 .. Len(stack) : stack'[k] = stack[k]
      BY <1>3, <1>4, <2>2, <3>3
    <3>5. \A k \in 1 .. Len(stack') : stack'[k] = l[s + k]
      <4> SUFFICES ASSUME NEW k \in 1 .. Len(stack') PROVE stack'[k] = l[s + k]
        OBVIOUS
      <4>1. CASE k \in 1 .. Len(stack)
        BY <2>1, <3>4, <4>1 DEF Walked
      <4>2. CASE k = Len(stack) + 1
        <5>1. s + k = p + 1
          BY <1>3, <4>2
        <5> QED BY <3>4, <4>2, <5>1
      <4> QED BY <1>3, <3>4, <4>1, <4>2
    <3>6. s \in Nat /\ s + Len(stack') <= n
      BY <1>3, <3>3, <3>4
    <3>7. Walked(n, l, s)'
      BY <3>5, <3>6 DEF Walked
    <3> QED BY <3>1, <3>7 DEF List
  <2>3. CASE next[h] = Null
    BY <1>1, <1>4, <2>3, ListKept DEF IInv
  <2> QED BY <2>2, <2>3
<1>8. Depth'
  BY <1>4, <1>5 DEF Depth
<1>9. Counts'
  BY <1>1, <1>2, <1>3, <1>4 DEF Counts, IInv
<1> QED BY <1>2, <1>6, <1>7, <1>8, <1>9 DEF IInv

\* A header is processed: a finished transfer is printed.
LEMMA ProcessInv ==
    ASSUME IInv, Process
    PROVE  IInv'
<1> DEFINE h == stack[Len(stack)]
<1>1. Len(stack) >= 1 /\ stack \in Seq(Headers) /\ h \in Headers /\ Last(stack) = h
  BY DEF IInv, Depth, TypeOK, Process, Last
<1>2. UNCHANGED <<root, next, mem, todo, stack, sNum, main>> /\ rpc' = "return" /\ rpc = "process"
  BY DEF Process, listVars
<1>3. /\ need_free' = NeedFree(h)
      /\ life' = IF life[h] = "closed" THEN [life EXCEPT ![h] = "drained"] ELSE life
      /\ printed' = IF h[2] # "data" \/ life[h] = "closed" THEN printed \cup {h} ELSE printed
  BY <1>1 DEF Process
<1> HIDE DEF h
<1>4. life \in [Headers -> {"open", "closed", "drained", "ended"}] /\ NeedFree(h) \in BOOLEAN
  BY DEF IInv, TypeOK, NeedFree
<1>5. TypeOK'
  BY <1>1, <1>2, <1>3, <1>4 DEF IInv, TypeOK
<1>6. List'
  BY <1>2, ListKept DEF IInv
<1>7. Rest' /\ Threads' = Threads /\ \A a \in Agents : Left(a)' = Left(a)
  BY <1>2 DEF IInv, Rest, Threads, Left
<1>8. Progress'
  <2> SUFFICES ASSUME NEW a \in Agents
               PROVE  /\ "close" \in Left(a) => life'[<<a, "data">>] = "open"
                      /\ "end" \in Left(a) => life'[<<a, "data">>] # "ended"
    BY <1>2, <1>7 DEF IInv, Progress
  <2> SUFFICES ASSUME {"close", "end"} \cap Left(a) # {}
               PROVE  /\ "close" \in Left(a) => life'[<<a, "data">>] = "open"
                      /\ "end" \in Left(a) => life'[<<a, "data">>] # "ended"
    OBVIOUS
  <2>1. <<a, "data">> \in Headers
    BY LeftInScript DEF IInv
  <2>2. /\ "close" \in Left(a) => life[<<a, "data">>] = "open"
        /\ "end" \in Left(a) => life[<<a, "data">>] # "ended"
    BY DEF IInv, Progress
  <2> QED BY <1>1, <1>3, <1>4, <2>1, <2>2
<1>9. Freed'
  <2>0. PICK n \in Nat : \E l \in [1 .. n -> Headers], s \in 0 .. n : Chain(n, l) /\ Walked(n, l, s)
    BY DEF IInv, List
  <2>1. PICK l \in [1 .. n -> Headers], s \in 0 .. n : Chain(n, l) /\ Walked(n, l, s)
    BY <2>0
  <2>2. s + Len(stack) \in 1 .. n /\ h = l[s + Len(stack)]
    BY <1>1, <2>1 DEF Walked, h
  <2>3. h \in Live
    BY <2>1, <2>2 DEF Chain
  <2> QED BY <1>1, <1>2, <1>3, <1>4, <2>3 DEF IInv, Freed, Live
<1>10. Depth'
  <2>1. stack'[Len(stack')] = h /\ h' = h
    BY <1>2 DEF h
  <2>2. need_free' => NeedFree(h)' /\ h' \in printed'
    <3>1. NeedFree(h) => h[2] # "data" \/ life[h] = "ended"
      BY DEF NeedFree
    <3>2. h[2] # "data" => life[h] = "open"
      BY <1>1 DEF IInv, Freed
    <3>3. h[2] = "data" /\ life[h] = "ended" => h \in printed
      BY <1>1 DEF IInv, Freed
    <3> QED BY <1>3, <2>1, <3>1, <3>2, <3>3 DEF NeedFree
  <2>3. need_free' => NeedFree(stack[Len(stack)])' /\ stack'[Len(stack')] \in printed'
    BY <2>1, <2>2 DEF NeedFree
  <2> QED BY <1>1, <1>2, <2>3 DEF Depth
<1>11. Counts'
  BY <1>2, <1>7 DEF Counts, IInv
<1> QED BY <1>5, <1>6, <1>7, <1>8, <1>9, <1>10, <1>11 DEF IInv

\* The walk is over and the reporter sleeps for 10 ms.
LEMMA SignalInv ==
    ASSUME IInv, Signal
    PROVE  IInv'
<1>1. UNCHANGED <<listVars, life, printed, todo, need_free>> /\ UNCHANGED <<root, next, mem, sNum, main>>
  BY DEF Signal, listVars
<1>2. stack' = <<>> /\ rpc = "signal" /\ rpc' = "top"
  BY DEF Signal
<1>3. Rest' /\ Progress' /\ Freed' /\ Threads' = Threads /\ Cardinality(Threads) \in Nat
  BY <1>1, Elsewhere
<1>4. TypeOK'
  BY <1>1, <1>2 DEF TypeOK, IInv, listVars
<1>5. List'
  BY <1>1, <1>2, ListLeft DEF IInv
<1>6. Depth' /\ Counts'
  BY <1>1, <1>2, <1>3 DEF Depth, Counts, IInv
<1> QED BY <1>3, <1>4, <1>5, <1>6 DEF IInv

\* A freed header has been printed and belongs to nobody any more.
LEMMA FreeInv ==
    ASSUME IInv, NEW h \in Headers, h \in Live, h \in printed, NeedFree(h),
           mem' = [mem EXCEPT ![h] = "freed"], UNCHANGED <<life, printed, todo>>
    PROVE  Rest' /\ Progress' /\ Freed' /\ Threads' = Threads
<1>1. Rest' /\ Threads' = Threads /\ \A a \in Agents : Left(a)' = Left(a)
  BY DEF IInv, Rest, Threads, Left
<1>2. Progress'
  <2> SUFFICES ASSUME NEW a \in Agents, NEW op \in Pushes, op \in Left(a)
               PROVE  mem'[<<a, op>>] = "none"
    BY <1>1 DEF IInv, Progress
  <2>1. <<a, op>> \in Headers /\ mem[<<a, op>>] = "none"
    BY LeftInScript DEF IInv, Progress
  <2>2. <<a, op>> # h
    BY <2>1 DEF Live
  <2> QED BY <2>1, <2>2 DEF IInv, TypeOK
<1>3. Freed'
  BY DEF IInv, TypeOK, Freed, NeedFree
<1> QED BY <1>1, <1>2, <1>3

\* A sequence without its last element.
LEMMA FrontOf ==
    ASSUME NEW S, NEW q \in Seq(S), Len(q) >= 1
    PROVE  LET f == SubSeq(q, 1, Len(q) - 1) IN
           /\ f \in Seq(S) /\ Len(f) = Len(q) - 1
           /\ \A k \in 1 .. Len(q) - 1 : f[k] = q[k]
<1> DEFINE n == Len(q) - 1
<1>1. n \in 0 .. Len(q) /\ Len(q) \in Nat
  OBVIOUS
<1> HIDE DEF n
<1>2. SubSeq(q, 1, n) \in Seq(S)
  BY <1>1
<1>3. Len(SubSeq(q, 1, n)) = n
  BY <1>1
<1>4. \A k \in 1 .. n : SubSeq(q, 1, n)[k] = q[k]
  BY <1>1
<1> QED BY <1>2, <1>3, <1>4 DEF n

\* A recursive activation returns, and its caller may free its header.
LEMMA ReturnInv ==
    ASSUME IInv, Return
    PROVE  IInv'
<1> DEFINE h == stack[Len(stack)]
           callers == SubSeq(stack, 1, Len(stack) - 1)
<1>1. Len(stack) >= 1 /\ stack \in Seq(Headers) /\ h \in Headers /\ rpc = "return"
  BY DEF IInv, Depth, TypeOK, Return
<1>2. /\ callers \in Seq(Headers) /\ Len(callers) = Len(stack) - 1
      /\ \A k \in 1 .. Len(stack) - 1 : callers[k] = stack[k]
  BY <1>1, FrontOf
<1>3. Last(stack) = h /\ Front(stack) = callers
  BY DEF Last, Front
<1>4. callers = <<>> <=> Len(stack) = 1
  <2>1. callers = <<>> => Len(callers) = 0
    <3> HIDE DEF callers
    <3> QED OBVIOUS
  <2>2. Len(stack) = 1 => callers = <<>>
    BY <1>1
  <2> QED BY <1>1, <1>2, <2>1, <2>2
<1>5. UNCHANGED <<root, life, printed, todo, need_free, sNum, main>>
  BY DEF Return
<1>6. \/ /\ Len(stack) # 1 /\ stack' = callers /\ rpc' = "process"
         /\ IF need_free THEN /\ next' = [next EXCEPT ![Last(callers)] = next[h]]
                              /\ mem' = [mem EXCEPT ![h] = "freed"]
                         ELSE UNCHANGED <<next, mem>>
      \/ /\ Len(stack) = 1 /\ rpc' = IF need_free THEN "unlink" ELSE "signal"
         /\ UNCHANGED <<stack, next, mem>>
  <2> HIDE DEF callers, h
  <2> QED BY <1>3, <1>4 DEF Return
<1>0. PICK n \in Nat : \E l \in [1 .. n -> Headers], s \in 0 .. n : Chain(n, l) /\ Walked(n, l, s)
  BY DEF IInv, List
<1>7. PICK l \in [1 .. n -> Headers], s \in 0 .. n : Chain(n, l) /\ Walked(n, l, s)
  BY <1>0
<1> DEFINE p == s + Len(stack)
<1>8. p \in 1 .. n /\ h = l[p]
  BY <1>1, <1>7 DEF Walked
<1> HIDE DEF h, callers
<1>9. Len(stack) # 1 => Last(callers) = l[p - 1]
  <2> SUFFICES ASSUME Len(stack) # 1 PROVE Last(callers) = l[p - 1]
    OBVIOUS
  <2>1. Len(stack) \in Nat
    BY <1>1
  <2>2. Len(stack) - 1 \in 1 .. Len(stack) - 1 /\ Len(stack) - 1 \in 1 .. Len(stack)
    <3>1. \A m \in Nat : m >= 1 /\ m # 1 => m - 1 \in 1 .. m - 1 /\ m - 1 \in 1 .. m
      OBVIOUS
    <3> QED BY <1>1, <2>1, <3>1
  <2>3. s + (Len(stack) - 1) = p - 1
    BY <2>1
  <2>4. stack[Len(stack) - 1] = l[s + (Len(stack) - 1)]
    BY <1>7, <2>2 DEF Walked
  <2>5. Last(callers) = stack[Len(stack) - 1]
    BY <1>2, <2>2 DEF Last
  <2> QED BY <2>3, <2>4, <2>5
<1>10. mem \in [Headers -> {"none", "live", "freed"}] /\ next \in [Headers -> Headers \cup {Null}]
  BY DEF IInv, TypeOK
<1>11. CASE Len(stack) # 1 /\ need_free
  <2>1. /\ stack' = callers /\ rpc' = "process" /\ mem' = [mem EXCEPT ![h] = "freed"]
        /\ next' = [next EXCEPT ![l[p - 1]] = next[h]]
    BY <1>6, <1>9, <1>11
  <2>2. p > 1 /\ s + Len(callers) < p
    BY <1>1, <1>2, <1>11
  <2>3. \A k \in 1 .. Len(callers) : callers[k] = l[s + k]
    BY <1>1, <1>2, <1>7 DEF Walked
  <2>4. List'
    <3> HIDE DEF p
    <3> QED BY <1>2, <1>5, <1>7, <1>8, <1>10, <2>1, <2>2, <2>3, ListShrinks
  <2>5. h \in Live /\ h \in printed /\ NeedFree(h)
    <3>1. h \in Live
      BY <1>7, <1>8 DEF Chain
    <3> QED BY <1>1, <1>11, <3>1 DEF IInv, Depth, h
  <2>6. Rest' /\ Progress' /\ Freed' /\ Threads' = Threads
    BY <1>1, <1>5, <2>1, <2>5, FreeInv
  <2>7. TypeOK'
    BY <1>1, <1>2, <1>5, <1>8, <1>10, <2>1, <2>2 DEF IInv, TypeOK
  <2>8. Depth' /\ Counts'
    BY <1>1, <1>2, <1>5, <1>11, <2>1, <2>6 DEF IInv, Depth, Counts
  <2> QED BY <2>4, <2>6, <2>7, <2>8 DEF IInv
<1>12. CASE ~(Len(stack) # 1 /\ need_free)
  <2>1. UNCHANGED <<root, next, mem>>
    BY <1>5, <1>6, <1>12
  <2>2. Rest' /\ Progress' /\ Freed' /\ Threads' = Threads
    BY <1>5, <2>1, Elsewhere DEF listVars
  <2>3. stack' \in Seq(Headers) /\ Len(stack') >= 1 /\ s + Len(stack') <= n
        /\ \A k \in 1 .. Len(stack') : stack'[k] = l[s + k]
    <3>1. CASE Len(stack) = 1
      BY <1>1, <1>6, <1>7, <3>1 DEF Walked
    <3>2. CASE Len(stack) # 1
      BY <1>1, <1>2, <1>6, <1>7, <1>8, <3>2 DEF Walked
    <3> QED BY <3>1, <3>2
  <2>4. List'
    <3>1. Live' = Live
      BY <2>1 DEF Live
    <3>2. Chain(n, l)'
      BY <1>7, <2>1, <3>1 DEF Chain
    <3>3. Walked(n, l, s)'
      BY <2>3 DEF Walked
    <3> QED BY <3>2, <3>3 DEF List
  <2>5. rpc' \in {"process", "unlink", "signal"}
    BY <1>6
  <2>6. TypeOK'
    BY <1>5, <2>1, <2>3, <2>5 DEF IInv, TypeOK
  <2>7. Depth'
    BY <1>1, <1>5, <1>6, <2>3, <2>5 DEF IInv, Depth, NeedFree
  <2>8. Counts'
    BY <1>1, <1>5, <2>2, <2>5 DEF IInv, Counts
  <2> QED BY <2>2, <2>4, <2>6, <2>7, <2>8 DEF IInv
<1> QED BY <1>11, <1>12

\* The first header of the walk is taken out, wherever pushes have moved it.
LEMMA UnlinkInv ==
    ASSUME IInv, Unlink
    PROVE  IInv'
<1> DEFINE h == stack[1]
<1>1. /\ Len(stack) = 1 /\ need_free /\ rpc = "unlink" /\ h \in Headers
      /\ NeedFree(h) /\ h \in printed
  BY DEF IInv, Depth, Unlink, TypeOK
<1>2. UNCHANGED <<life, printed, todo, need_free, sNum, main>> /\ stack' = <<>>
  BY DEF Unlink
<1>3. mem' = [mem EXCEPT ![h] = "freed"] /\ rpc' \in {"again", "signal"}
  BY DEF Unlink
<1>4. \/ h = root /\ root' = next[h] /\ next' = next
      \/ /\ h # root /\ root' = root
         /\ \E itr \in Headers :
               /\ mem[itr] = "live" /\ next[itr] = h
               /\ next' = [next EXCEPT ![itr] = next[h]]
  BY DEF Unlink
<1>0. PICK n \in Nat : \E l \in [1 .. n -> Headers], s \in 0 .. n : Chain(n, l) /\ Walked(n, l, s)
  BY DEF IInv, List
<1>5. PICK l \in [1 .. n -> Headers], s \in 0 .. n : Chain(n, l) /\ Walked(n, l, s)
  BY <1>0
<1>6. s + 1 \in 1 .. n /\ h = l[s + 1]
  BY <1>1, <1>5 DEF Walked
<1> HIDE DEF h
<1>7. \A i, j \in 1 .. n : l[i] = l[j] => i = j
  BY <1>5 DEF Chain
<1>8. \/ s + 1 = 1 /\ root' = next[l[1]] /\ next' = next
      \/ s + 1 > 1 /\ root' = root /\ next' = [next EXCEPT ![l[(s + 1) - 1]] = next[l[s + 1]]]
  <2>1. CASE h = root
    <3>1. root = l[1] /\ 1 \in 1 .. n
      BY <1>5, <1>6 DEF Chain
    <3>2. s + 1 = 1
      BY <1>6, <1>7, <2>1, <3>1
    <3> QED BY <1>4, <1>6, <2>1, <3>2
  <2>2. CASE h # root
    <3>1. PICK itr \in Headers : /\ mem[itr] = "live" /\ next[itr] = h
                                 /\ next' = [next EXCEPT ![itr] = next[h]]
      BY <1>4, <2>2
    <3>2. PICK j \in 1 .. n : itr = l[j]
      BY <1>5, <3>1 DEF Chain, Live
    <3>3. h # Null
      BY <1>1, ScriptAssumption
    <3>4. j < n /\ h = l[j + 1]
      BY <1>5, <3>1, <3>2, <3>3 DEF Chain
    <3>5. j + 1 = s + 1
      <4>1. j + 1 \in 1 .. n
        BY <3>4
      <4> QED BY <1>6, <1>7, <3>4, <4>1
    <3>6. j = (s + 1) - 1 /\ s + 1 > 1
      BY <3>5
    <3>7. root' = root
      BY <1>4, <2>2
    <3> QED BY <1>6, <3>1, <3>2, <3>6, <3>7
  <2> QED BY <2>1, <2>2
<1>9. mem \in [Headers -> {"none", "live", "freed"}] /\ next \in [Headers -> Headers \cup {Null}]
  BY DEF IInv, TypeOK
<1>10. List'
  <2>1. stack' \in Seq(Headers) /\ 0 + Len(stack') < s + 1 /\ 0 \in 0 .. n
        /\ \A j \in 1 .. Len(stack') : stack'[j] = l[0 + j]
    BY <1>2
  <2> QED BY <1>3, <1>5, <1>6, <1>8, <1>9, <2>1, ListShrinks
<1>11. h \in Live
  BY <1>5, <1>6 DEF Chain
<1>12. Rest' /\ Progress' /\ Freed' /\ Threads' = Threads
  BY <1>1, <1>2, <1>3, <1>11, FreeInv
<1>13. TypeOK'
  <2>1. root' \in Headers \cup {Null} /\ next' \in [Headers -> Headers \cup {Null}]
    BY <1>1, <1>4, <1>9 DEF IInv, TypeOK
  <2>2. stack' \in Seq(Headers)
    BY <1>2
  <2> QED BY <1>1, <1>2, <1>3, <1>9, <2>1, <2>2 DEF IInv, TypeOK
<1>14. Depth' /\ Counts'
  BY <1>1, <1>2, <1>3, <1>12 DEF IInv, Depth, Counts
<1> QED BY <1>10, <1>12, <1>13, <1>14 DEF IInv

-----------------------------------------------------------------------------
(* The theorems *)

\* The list is empty before anything is pushed.
LEMMA InitInv == Init => IInv
<1> SUFFICES ASSUME Init PROVE IInv
  OBVIOUS
<1>1. TypeOK
  <2>1. Cardinality(Agents) \in Nat
    BY ScriptAssumption, FS_CardinalityType
  <2>2. Script \in [Agents -> Seq(Ops) \cup {<<"exited">>}]
    BY ScriptAssumption
  <2>3. stack \in Seq(Headers) /\ todo \in [Agents -> Seq(Ops) \cup {<<"exited">>}]
    BY <2>2 DEF Init
  <2> QED BY <2>1, <2>3 DEF Init, TypeOK
<1>2. List
  <2> DEFINE l == [k \in 1 .. 0 |-> Null]
  <2>1. l \in [1 .. 0 -> Headers] /\ 0 \in Nat /\ 0 \in 0 .. 0
    OBVIOUS
  <2>2. Live = {}
    BY DEF Live, Init
  <2>3. {l[k] : k \in 1 .. 0} = {}
    OBVIOUS
  <2> HIDE DEF l
  <2>4. Chain(0, l)
    BY <2>1, <2>2, <2>3 DEF Chain, Init
  <2>5. Walked(0, l, 0)
    BY DEF Walked, Init
  <2> QED BY <2>1, <2>4, <2>5 DEF List
<1>3. Depth /\ Freed
  BY DEF Init, Depth, Freed
<1>4. Rest
  <2> SUFFICES ASSUME NEW a \in Agents
               PROVE  \E k \in 1 .. Len(Script[a]) + 1 : Script[a] = SubSeq(Script[a], k, Len(Script[a]))
    BY DEF Init, Rest
  <2>1. Script[a] \in Seq(Ops)
    BY ScriptAssumption
  <2>2. Script[a] = SubSeq(Script[a], 1, Len(Script[a])) /\ 1 \in 1 .. Len(Script[a]) + 1
    BY <2>1
  <2> QED BY <2>2
<1>5. Progress
  <2> SUFFICES ASSUME NEW a \in Agents, NEW op \in Left(a)
               PROVE  /\ op \in Pushes => mem[<<a, op>>] = "none"
                      /\ op \in {"close", "end"} => life[<<a, "data">>] = "open"
    BY DEF Progress
  <2>1. /\ op \in Pushes => <<a, op>> \in Headers
        /\ op \in {"close", "end"} => <<a, "data">> \in Headers
    BY <1>4, LeftInScript
  <2> QED BY <2>1 DEF Init
<1>6. Counts
  <2>1. Threads = Agents
    <3> SUFFICES ASSUME NEW a \in Agents PROVE Script[a] # <<"exited">>
      BY DEF Threads, Init
    <3>1. Script[a] \in Seq(Ops) /\ 1 \in 1 .. Len(Script[a]) + 1
      BY ScriptAssumption
    <3>2. Script[a] = SubSeq(Script[a], 1, Len(Script[a]))
      BY <3>1
    <3> QED BY <3>1, <3>2, Suffix
  <2>2. Cardinality(Agents) \in Nat
    BY ScriptAssumption, FS_CardinalityType
  <2> QED BY <2>1, <2>2 DEF Counts, Init
<1> QED BY <1>1, <1>2, <1>3, <1>4, <1>5, <1>6 DEF IInv

\* Every step keeps it.
LEMMA NextInv ==
    ASSUME IInv, [Next]_vars
    PROVE  IInv'
<1>1. CASE StartReporter \/ Exit
  BY <1>1, MainInv
<1>2. ASSUME NEW a \in Agents, Agent(a) PROVE IInv'
  BY <1>2, PushInv, CloseInv, EndInv, ExitInv DEF Agent
<1>3. CASE Reporter \/ SpuriousWakeup
  BY <1>3, LoopInv, AgainInv, DescendInv, ProcessInv, ReturnInv, UnlinkInv, SignalInv DEF Reporter
<1>4. CASE UNCHANGED vars
  <2>1. List'
    BY <1>4, ListKept DEF IInv, vars
  <2>2. Rest' /\ Progress' /\ Freed' /\ Threads' = Threads
    BY <1>4, Elsewhere DEF vars, listVars
  <2>3. TypeOK' /\ Depth' /\ Counts'
    BY <1>4, <2>2 DEF IInv, TypeOK, Depth, Counts, vars, NeedFree
  <2> QED BY <2>1, <2>2, <2>3 DEF IInv
<1> QED BY <1>1, <1>2, <1>3, <1>4 DEF Next

\* The invariant holds in every behaviour, whatever the scheduling.
THEOREM Invariance == Safety => []IInv
  BY InitInv, NextInv, PTL DEF Safety

\* The headers in use are exactly those the list from ReportRoot leads to, and
\* it ends: pushes during the unlocked walk, and the pruning of the list, lose
\* none and leave nothing freed in it.
THEOREM TheListIsIntact == Spec => []ListIntact
<1>1. IInv => ListIntact
  <2> SUFFICES ASSUME IInv PROVE ListIntact
    OBVIOUS
  <2>1. PICK n \in Nat : \E l \in [1 .. n -> Headers], s \in 0 .. n : Chain(n, l) /\ Walked(n, l, s)
    BY DEF IInv, List
  <2>2. PICK l \in [1 .. n -> Headers] : Chain(n, l)
    BY <2>1
  <2> QED BY <2>2, ChainIsWalk DEF IInv, ListIntact
<1> QED BY <1>1, Invariance, PTL DEF Spec

\* The reporter never has a freed header on its recursion stack.
THEOREM TheWalkIsLive == Spec => []WalkIsLive
<1>1. IInv => WalkIsLive
  <2> SUFFICES ASSUME IInv, NEW i \in 1 .. Len(stack) PROVE stack[i] \in Live
    BY DEF WalkIsLive
  <2>1. PICK n \in Nat : \E l \in [1 .. n -> Headers], s \in 0 .. n : Chain(n, l) /\ Walked(n, l, s)
    BY DEF IInv, List
  <2>2. PICK l \in [1 .. n -> Headers], s \in 0 .. n : Chain(n, l) /\ Walked(n, l, s)
    BY <2>1
  <2>3. stack[i] = l[s + i] /\ s + i \in 1 .. n
    BY <2>2 DEF Walked, IInv, TypeOK
  <2> QED BY <2>2, <2>3 DEF Chain
<1> QED BY <1>1, Invariance, PTL DEF Spec

\* No transfer report is freed before its agent ended it.
THEOREM DataHeadersAreKept == Spec => []DataHeaderKept
<1>1. IInv => DataHeaderKept
  BY DEF IInv, Freed, DataHeaderKept
<1> QED BY <1>1, Invariance, PTL DEF Spec

-----------------------------------------------------------------------------
(* No report is lost when main leaves *)

\* While it has anything left to do, an agent has its report to end.
LEMMA EndIsLeft ==
    ASSUME EndsLast, Rest, NEW a \in Agents, Left(a) # {}
    PROVE  "end" \in Left(a)
<1> DEFINE s == Script[a]
<1>1. s \in Seq(Ops)
  BY ScriptAssumption
<1>2. PICK k \in 1 .. Len(s) + 1 : todo[a] = SubSeq(s, k, Len(s))
  BY DEF Rest, Left, OpsIn
<1>3. Left(a) = {s[m] : m \in k .. Len(s)}
  BY <1>1, <1>2, Suffix DEF Left
<1>4. Len(s) \in k .. Len(s)
  BY <1>1, <1>3
<1>5. s # <<>>
  <2>1. Len(s) # 0
    BY <1>4
  <2> QED BY <2>1
<1> QED BY <1>3, <1>4, <1>5 DEF EndsLast

\* While the reporter sleeps, no agent whose header is in the list can get past
\* EndReport.
LEMMA AsleepInv ==
    ASSUME EndsLast, IInv, Asleep, [Next]_vars
    PROVE  Asleep'
<1> SUFFICES ASSUME rpc' \in {"waiting", "woken"}, NEW h \in Headers, h \in Live'
             PROVE  /\ "end" \in Left(h[1])'
                    /\ h[2] = "data" => life'[h] # "drained"
  BY DEF Asleep, Live
<1>1. ASSUME NEW a \in Agents, NEW op \in Pushes, Push(a, op)
      PROVE  "end" \in Left(h[1])' /\ (h[2] = "data" => life'[h] # "drained")
  <2>1. op \in Ops /\ Doing(a, op) /\ OpDone(a) /\ op # "end" /\ life' = life
    BY <1>1 DEF Push, Ops, Pushes
  <2>2. /\ op \in Left(a) /\ Left(a)' = Left(a) \ {op}
        /\ \A b \in Agents \ {a} : Left(b)' = Left(b)
    BY <2>1, TakeOp DEF IInv
  <2>3. "end" \in Left(a)
    BY <2>2, EndIsLeft DEF IInv
  <2>4. h[1] \in Agents /\ mem[<<a, op>>] = "none"
    BY <2>2 DEF Headers, IInv, Progress
  <2>5. CASE h = <<a, op>>
    BY <2>1, <2>2, <2>3, <2>4, <2>5 DEF IInv, Freed
  <2>6. CASE h # <<a, op>>
    <3>1. h \in Live /\ rpc \in {"waiting", "woken"}
      BY <1>1, <2>6 DEF Push, Live, IInv, TypeOK
    <3> QED BY <2>1, <2>2, <2>4, <3>1 DEF Asleep
  <2> QED BY <2>5, <2>6
<1>2. ASSUME NEW a \in Agents, CloseReport(a)
      PROVE  "end" \in Left(h[1])' /\ (h[2] = "data" => life'[h] # "drained")
  <2>1. "close" \in Ops /\ Doing(a, "close") /\ OpDone(a)
    BY <1>2 DEF CloseReport, Ops
  <2>2. /\ Left(a)' = Left(a) \ {"close"}
        /\ \A b \in Agents \ {a} : Left(b)' = Left(b)
    BY <2>1, TakeOp DEF IInv
  <2>3. h[1] \in Agents /\ h \in Live /\ rpc \in {"waiting", "woken"}
    BY <1>2 DEF Headers, CloseReport, Live, listVars
  <2>4. life'[h] = "closed" \/ life'[h] = life[h]
    BY <1>2 DEF CloseReport, IInv, TypeOK
  <2> QED BY <2>2, <2>3, <2>4 DEF Asleep
<1>3. ASSUME NEW a \in Agents, EndReport(a)
      PROVE  FALSE
  <2>1. "end" \in Ops /\ Doing(a, "end") /\ OpDone(a)
    BY <1>3 DEF EndReport, Ops
  <2>2. "end" \in Left(a)
    BY <2>1, TakeOp DEF IInv
  <2>3. <<a, "data">> \in Headers
    BY <2>2, LeftInScript DEF IInv
  <2>4. life[<<a, "data">>] = "drained" /\ rpc \in {"waiting", "woken"}
    BY <1>3 DEF EndReport
  <2>5. mem[<<a, "data">>] = "live"
    BY <2>3, <2>4 DEF IInv, TypeOK, Freed
  <2> QED BY <2>3, <2>4, <2>5 DEF Asleep, Live
<1>4. ASSUME NEW a \in Agents, ThreadExit(a)
      PROVE  "end" \in Left(h[1])' /\ (h[2] = "data" => life'[h] # "drained")
  <2>1. h[1] \in Agents /\ h \in Live /\ rpc \in {"waiting", "woken"} /\ life' = life
    BY <1>4 DEF Headers, ThreadExit, Live, listVars
  <2>2. "end" \in Left(h[1])
    BY <2>1 DEF Asleep
  <2>3. h[1] # a
    <3>1. OpsIn(<<>>) = {}
      BY DEF OpsIn
    <3> QED BY <1>4, <2>2, <3>1 DEF ThreadExit, Left
  <2>4. todo'[h[1]] = todo[h[1]]
    BY <1>4, <2>1, <2>3 DEF ThreadExit, IInv, TypeOK
  <2> QED BY <2>1, <2>2, <2>4 DEF Left, Asleep
<1>5. CASE Top
  <2>1. root = Null /\ Live' = Live
    BY <1>5 DEF Top, Live, listVars
  <2>2. PICK n \in Nat : \E l \in [1 .. n -> Headers], s \in 0 .. n : Chain(n, l) /\ Walked(n, l, s)
    BY DEF IInv, List
  <2>3. PICK l \in [1 .. n -> Headers] : Chain(n, l)
    BY <2>2
  <2>4. n = 0
    BY <2>1, <2>3, ScriptAssumption DEF Chain
  <2>5. Live = {}
    BY <2>3, <2>4 DEF Chain
  <2> QED BY <2>1, <2>5
<1>6. CASE SpuriousWakeup \/ Exit \/ UNCHANGED vars
  <2>1. h \in Live /\ rpc \in {"waiting", "woken"} /\ life' = life /\ todo' = todo
    BY <1>6 DEF SpuriousWakeup, Exit, vars, Live, listVars
  <2> QED BY <2>1 DEF Asleep, Left
<1>7. CASE StartReporter \/ Wake \/ Again \/ Descend \/ Process \/ Return \/ Unlink \/ Signal
  <2>1. rpc' \notin {"waiting", "woken"}
    BY <1>7 DEF StartReporter, Wake, Again, Descend, Process, Return, Unlink, Signal
  <2> QED BY <2>1
<1> QED BY <1>1, <1>2, <1>3, <1>4, <1>5, <1>6, <1>7 DEF Next, Agent, Reporter

\* main leaves only when the list is empty, so that every report is printed.
LEMMA LossInv ==
    ASSUME IInv, Asleep, NoReportLost, [Next]_vars
    PROVE  NoReportLost'
<1>1. CASE main = "exited"
  <2>1. UNCHANGED vars
    BY <1>1 DEF Next, Agent, Reporter, StartReporter, Exit, Push, CloseReport, EndReport,
                ThreadExit, Doing, Running, Top, SpuriousWakeup, Wake, Again, Descend,
                Process, Return, Unlink, Signal
  <2> QED BY <2>1 DEF NoReportLost, vars
<1>2. CASE main # "exited" /\ main' = "exited"
  <2>1. Exit
    BY <1>2 DEF Next, Agent, Reporter, StartReporter, Push, CloseReport, EndReport,
                ThreadExit, Top, SpuriousWakeup, Wake, Again, Descend, Process,
                Return, Unlink, Signal, vars
  <2>2. main = "join" /\ sNum = 0 /\ UNCHANGED <<mem, printed>>
    BY <2>1 DEF Exit, listVars
  <2>3. IsFiniteSet(Threads) /\ Cardinality(Threads) \in Nat
    <3>1. Threads \in SUBSET Agents
      BY DEF Threads
    <3> QED BY <3>1, ScriptAssumption, FS_Subset, FS_CardinalityType
  <2>4. Cardinality(Threads) = 0 /\ rpc \in {"waiting", "woken"}
    BY <2>2, <2>3 DEF IInv, Counts
  <2>5. Threads = {}
    BY <2>3, <2>4, FS_EmptySet
  <2>6. \A h \in Headers : Left(h[1]) = {}
    BY <2>5 DEF Threads, Left, OpsIn, Headers
  <2>7. Live = {}
    BY <2>4, <2>6 DEF Asleep, Live
  <2>8. \A h \in Headers : mem[h] # "none" => h \in printed
    BY <2>7 DEF IInv, TypeOK, Freed, Live
  <2> QED BY <2>2, <2>8 DEF NoReportLost
<1>3. CASE main' # "exited"
  BY <1>3 DEF NoReportLost
<1> QED BY <1>1, <1>2, <1>3

\* When main leaves thread_joinall and the process ends, every report that was
\* pushed has been printed, although the reporter is not counted from the
\* moment it goes to sleep until it has the mutex again.
THEOREM NoReportIsLost ==
    ASSUME EndsLast
    PROVE  Spec => []NoReportLost
<1>1. Init => Asleep /\ NoReportLost
  BY DEF Init, Asleep, NoReportLost
<1>2. IInv /\ Asleep /\ NoReportLost /\ [Next]_vars => Asleep' /\ NoReportLost'
  BY AsleepInv, LossInv
<1> QED BY <1>1, <1>2, InitInv, NextInv, PTL DEF Spec, Safety
=============================================================================
