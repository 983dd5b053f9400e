---------------------------- MODULE HttperfProofs ----------------------------
(***************************************************************************)
(* httperf's tables agree, no wake-up is lost and replies match calls, for *)
(* any number of connections, descriptors, calls and bursts; and its       *)
(* timers are called once and in time, for any wheel, timers and delays.   *)
(***************************************************************************)
EXTENDS HttperfCore, TimerWheel, FiniteSetTheorems, WellFoundedInduction, TLAPS

ConnRec == [state : {"initial", "connecting", "connected", "closing"}, sd : 0 .. NumSds,
            dog : BOOLEAN, sendq : Nat, recvq : Nat, num_calls : Nat, completed : Nat,
            destroyed : Nat]
PeerRec == [est : {"no", "yes", "dead"}, wire : 0 .. Cap, avail : Nat]
HRec == [c : ConnRec, p : PeerRec, rd : BOOLEAN, wr : BOOLEAN]

\* A connected h asks for what it waits for, and r of the replies its calls
\* wait for have been read and not yet been given to them.
Busy(h, r) ==
    /\ h.c.state = "connected"
    /\ h.rd <=> h.c.recvq > 0
    /\ h.wr <=> h.c.sendq > 0
    /\ h.p.est # "dead" => h.c.recvq = h.p.wire + h.p.avail + r

\* What every handler leaves.
Fit(h, r) ==
    \/ /\ h.c.state = "closing"
       /\ h.c.sd = None /\ h.c.dog = FALSE /\ h.c.sendq = 0 /\ h.c.recvq = 0
       /\ h.rd = FALSE /\ h.wr = FALSE
    \/ /\ h.c.state = "connecting"
       /\ h.c.sendq = 0 /\ h.c.recvq = 0 /\ h.rd = FALSE /\ h.wr = TRUE
       /\ h.p.est # "dead" => h.p.wire + h.p.avail = 0
    \/ Busy(h, r)

\* The descriptor stays unless it is closed.
Keeps(g, h) == g.c.state = "closing" \/ g.c.sd = h.c.sd

-----------------------------------------------------------------------------
(* The inductive invariant *)

Typed ==
    /\ conn \in [Conns -> ConnRec] /\ peer \in [Conns -> PeerRec]
    /\ owner \in [Sds -> Conns \cup {None}] /\ rd \subseteq Sds /\ wr \subseteq Sds
    /\ generated \in 0 .. NumConns /\ burst \in Bursts

\* The tables lead to open connections, and each of them to itself.
Tables ==
    /\ \A s \in rd \cup wr : owner[s] # None
    /\ \A s \in Sds : owner[s] # None => Open(owner[s]) /\ conn[owner[s]].sd = s
    /\ \A c \in Conns : Open(c) => conn[c].sd \in Sds /\ owner[conn[c].sd] = c

\* Every connection is as the handlers leave it, wherever core_loop is.
Each ==
    \A c \in Conns :
        IF Open(c) THEN Fit(Handled(c), 0)
        ELSE conn[c].dog = FALSE /\ conn[c].sendq = 0 /\ conn[c].recvq = 0

\* Nothing is known yet of connections that are not generated.
Untouched == [est |-> "no", wire |-> 0, avail |-> 0]
Future ==
    \A c \in Conns : c > generated => conn[c].state = "initial" /\ peer[c] = Untouched

IInv == Typed /\ Tables /\ Each /\ Future

-----------------------------------------------------------------------------
(* The handlers *)

\* Every set of natural numbers has a least one.
LEMMA LeastNat ==
    ASSUME NEW T, T \subseteq Nat, T # {}
    PROVE  \E x \in T : \A y \in T : x <= y
<1>1. PICK x \in T : \A y \in T : ~(<<y, x>> \in OpToRel(<, Nat))
  BY NatLessThanWellFounded, WFMin
<1>2. \A y \in T : ~(y < x)
  BY <1>1 DEF OpToRel
<1> QED BY <1>2

\* Min of a pair.
LEMMA MinTwo ==
    ASSUME NEW a \in Int, NEW b \in Int
    PROVE  Min({a, b}) \in {a, b} /\ Min({a, b}) <= a /\ Min({a, b}) <= b
<1>1. \E x \in {a, b} : \A y \in {a, b} : x <= y
  <2>1. CASE a <= b
    BY <2>1
  <2>2. CASE b <= a
    BY <2>2
  <2> QED BY <2>1, <2>2
<1> QED BY <1>1 DEF Min

\* The watchdog is all that set_active() changes besides the bit.
LEMMA SetWrIs ==
    ASSUME NEW h \in HRec
    PROVE  LET g == SetWr(h) IN
           /\ g \in HRec /\ g.wr = TRUE /\ g.rd = h.rd /\ g.p = h.p
           /\ g.c.state = h.c.state /\ g.c.sd = h.c.sd
           /\ g.c.sendq = h.c.sendq /\ g.c.recvq = h.c.recvq
  BY DEF SetWr, Watch, HRec, ConnRec, PeerRec

\* The same for readability.
LEMMA SetRdIs ==
    ASSUME NEW h \in HRec
    PROVE  LET g == SetRd(h) IN
           /\ g \in HRec /\ g.rd = TRUE /\ g.wr = h.wr /\ g.p = h.p
           /\ g.c.state = h.c.state /\ g.c.sd = h.c.sd
           /\ g.c.sendq = h.c.sendq /\ g.c.recvq = h.c.recvq
  BY DEF SetRd, Watch, HRec, ConnRec, PeerRec

\* A connection that core_close() closed has nothing left.
LEMMA CloseFits ==
    ASSUME NEW h \in HRec, h.c.state # "closing", NEW r
    PROVE  LET g == core_close(h) IN
           g \in HRec /\ Fit(g, r) /\ g.c.state = "closing" /\ g.p = h.p
<1>1. None \in 0 .. NumSds
  BY CoreAssumption DEF None
<1> QED BY <1>1 DEF core_close, HRec, ConnRec, PeerRec, Fit

\* issue_calls() asks for writability when there is anything to send.
LEMMA IssueFits ==
    ASSUME NEW h \in HRec, NEW r, Busy(h, r), burst \in Bursts
    PROVE  LET g == issue_calls(h) IN
           g \in HRec /\ Busy(g, r) /\ g.c.sd = h.c.sd /\ g.p = h.p
<1> DEFINE k == IF h.c.num_calls >= NumCalls THEN 0 ELSE Min({burst, NumCalls - h.c.num_calls})
           e == [h EXCEPT !.c.num_calls = @ + burst, !.c.completed = 0, !.c.destroyed = 0]
<1>1. NumCalls \in Nat /\ burst \in Nat /\ burst > 0 /\ h.c.num_calls \in Nat
  BY CoreAssumption DEF HRec, ConnRec
<1>2. k \in Nat
  <2>1. CASE h.c.num_calls < NumCalls
    <3>1. NumCalls - h.c.num_calls \in Nat
      BY <1>1, <2>1
    <3>2. Min({burst, NumCalls - h.c.num_calls}) \in {burst, NumCalls - h.c.num_calls}
      <4> HIDE DEF k, e
      <4> DEFINE x == NumCalls - h.c.num_calls
      <4>1. burst \in Int /\ x \in Int
        BY <1>1, <3>1
      <4> HIDE DEF x
      <4>2. Min({burst, x}) \in {burst, x}
        BY <4>1, MinTwo
      <4> QED BY <4>2 DEF x
    <3> QED BY <1>1, <2>1, <3>1, <3>2
  <2> QED BY <1>1, <2>1
<1>3. /\ e \in HRec /\ e.rd = h.rd /\ e.wr = h.wr /\ e.p = h.p
      /\ e.c.state = h.c.state /\ e.c.sd = h.c.sd
      /\ e.c.sendq = h.c.sendq /\ e.c.recvq = h.c.recvq
  <2>1. e.c \in ConnRec
    <3> DEFINE x == h.c
    <3>1. e.c = [x EXCEPT !.num_calls = @ + burst, !.completed = 0, !.destroyed = 0]
      BY DEF HRec
    <3>2. x \in ConnRec
      BY DEF HRec
    <3> HIDE DEF x
    <3>3. x.num_calls + burst \in Nat
      BY <1>1, <3>2 DEF ConnRec
    <3>4. [x EXCEPT !.num_calls = @ + burst, !.completed = 0, !.destroyed = 0] \in ConnRec
      BY <3>2, <3>3 DEF ConnRec
    <3> QED BY <3>1, <3>4
  <2>2. e \in HRec
    BY <2>1 DEF HRec
  <2>3. e.rd = h.rd /\ e.wr = h.wr /\ e.p = h.p
    BY DEF HRec
  <2>4. /\ e.c.state = h.c.state /\ e.c.sd = h.c.sd
        /\ e.c.sendq = h.c.sendq /\ e.c.recvq = h.c.recvq
    BY DEF HRec, ConnRec
  <2> QED BY <2>2, <2>3, <2>4
<1>4. issue_calls(h) = core_send(e, k)
  BY DEF issue_calls
<1> HIDE DEF k, e
<1>5. CASE k = 0
  BY <1>3, <1>4, <1>5 DEF core_send, Busy
<1>6. CASE k # 0
  <2> DEFINE d == [e EXCEPT !.c.sendq = @ + k]
  <2>1. /\ d \in HRec /\ d.rd = h.rd /\ d.p = h.p /\ d.c.state = h.c.state /\ d.c.sd = h.c.sd
        /\ d.c.sendq > 0 /\ d.c.recvq = h.c.recvq
    BY <1>2, <1>3, <1>6 DEF HRec, ConnRec, PeerRec
  <2>2. issue_calls(h) = SetWr(d)
    BY <1>4, <1>6 DEF core_send
  <2> HIDE DEF d
  <2> QED BY <2>1, <2>2, SetWrIs DEF Busy
<1> QED BY <1>5, <1>6

\* After a call: the next burst, or the end of the connection.
LEMMA DestroyedFits ==
    ASSUME NEW h \in HRec, NEW r, Busy(h, r), burst \in Bursts
    PROVE  LET g == call_destroyed(h) IN
           g \in HRec /\ Fit(g, r) /\ Keeps(g, h) /\ g.p = h.p /\ g.c.state # "connecting"
<1> DEFINE g == [h EXCEPT !.c.destroyed = @ + 1]
<1>1. g \in HRec /\ Busy(g, r) /\ g.c.sd = h.c.sd /\ g.p = h.p
  BY DEF HRec, ConnRec, PeerRec, Busy
<1>2. call_destroyed(h) \in {g, issue_calls(g), core_close(g)}
  BY DEF call_destroyed
<1> HIDE DEF g
<1>3. CASE call_destroyed(h) = g
  BY <1>1, <1>3 DEF Fit, Keeps, Busy
<1>4. CASE call_destroyed(h) = issue_calls(g)
  BY <1>1, <1>4, IssueFits DEF Fit, Keeps, Busy
<1>5. CASE call_destroyed(h) = core_close(g)
  <2>1. g.c.state # "closing"
    BY <1>1 DEF Busy
  <2> QED BY <1>1, <1>5, <2>1, CloseFits DEF Keeps
<1> QED BY <1>2, <1>3, <1>4, <1>5

\* A reply is given to the oldest call that waits for one.
LEMMA RecvDoneFits ==
    ASSUME NEW h \in HRec, NEW r \in Nat, Busy(h, r + 1), h.p.est # "dead", burst \in Bursts
    PROVE  LET g == recv_done(h) IN
           g \in HRec /\ Fit(g, r) /\ Keeps(g, h) /\ g.p = h.p /\ g.c.state # "connecting"
<1> DEFINE e == [h EXCEPT !.c.recvq = @ - 1, !.rd = h.c.recvq > 1, !.c.completed = @ + 1]
<1>1. h.c.recvq = h.p.wire + h.p.avail + (r + 1) /\ h.p.wire \in Nat /\ h.p.avail \in Nat
  BY CoreAssumption DEF Busy, HRec, PeerRec
<1>2. h.c.recvq \in Nat /\ h.c.recvq >= 1
  BY <1>1
<1>3. /\ e \in HRec /\ e.p = h.p /\ e.c.sd = h.c.sd /\ e.c.state = h.c.state
      /\ e.c.recvq = h.c.recvq - 1 /\ e.c.sendq = h.c.sendq /\ e.wr = h.wr
      /\ e.rd <=> h.c.recvq > 1
  <2>1. e.c \in ConnRec
    <3> DEFINE x == h.c
    <3>1. e.c = [x EXCEPT !.recvq = @ - 1, !.completed = @ + 1]
      BY DEF HRec
    <3>2. x \in ConnRec /\ x.recvq - 1 \in Nat
      BY <1>2 DEF HRec
    <3> HIDE DEF x
    <3>3. x.completed + 1 \in Nat
      BY <3>2 DEF ConnRec
    <3>4. [x EXCEPT !.recvq = @ - 1, !.completed = @ + 1] \in ConnRec
      BY <3>2, <3>3 DEF ConnRec
    <3> QED BY <3>1, <3>4
  <2>2. e \in HRec
    <3>1. (h.c.recvq > 1) \in BOOLEAN
      OBVIOUS
    <3> QED BY <2>1, <3>1 DEF HRec
  <2>3. (e.rd <=> h.c.recvq > 1) /\ e.wr = h.wr /\ e.p = h.p
    BY DEF HRec
  <2>4. /\ e.c.state = h.c.state /\ e.c.sd = h.c.sd
        /\ e.c.recvq = h.c.recvq - 1 /\ e.c.sendq = h.c.sendq
    BY DEF HRec, ConnRec
  <2> QED BY <2>2, <2>3, <2>4
<1>4. recv_done(h) = call_destroyed(e)
  BY DEF recv_done
<1> HIDE DEF e
<1>5. Busy(e, r)
  BY <1>1, <1>2, <1>3 DEF Busy
<1> QED BY <1>3, <1>4, <1>5, DestroyedFits DEF Keeps

\* do_send() moves the calls it wrote from one queue to the other and goes on
\* asking for what is left.
LEMMA SendFits ==
    ASSUME NEW h \in HRec, Busy(h, 0), NEW g \in do_send(h)
    PROVE  g \in HRec /\ Fit(g, 0) /\ Keeps(g, h) /\ g.c.state # "connecting"
<1>1. CASE h.p.est = "dead"
  <2>1. g = core_close(h) /\ h.c.state # "closing"
    BY <1>1 DEF do_send, Busy
  <2> QED BY <2>1, CloseFits DEF Keeps
<1>2. CASE h.p.est # "dead"
  <2> DEFINE k == IF h.p.est = "no" THEN 0 ELSE Min({h.c.sendq, Cap - h.p.wire})
             e == [h EXCEPT !.c.sendq = @ - k, !.c.recvq = @ + k, !.p.wire = @ + k,
                            !.wr = h.c.sendq > k]
             v == IF k > 0 THEN SetRd(e) ELSE e
  <2>1. g \in {v, SetWr(v)} /\ (g = SetWr(v) => v.c.sendq > 0 \/ g = v)
    <3> HIDE DEF e
    <3>1. g \in IF v.c.sendq > 0 /\ h.p.est = "yes" THEN {v, SetWr(v)} ELSE {v}
      <4>1. do_send(h) = IF v.c.sendq > 0 /\ h.p.est = "yes" THEN {v, SetWr(v)} ELSE {v}
        BY <1>2 DEF do_send, e
      <4> QED BY <4>1
    <3> HIDE DEF v
    <3> QED BY <3>1
  <2>2. /\ h.c.sendq \in Nat /\ h.c.recvq \in Nat /\ h.p.wire \in 0 .. Cap /\ Cap \in Nat
        /\ h.p.avail \in Nat
    BY CoreAssumption DEF HRec, ConnRec, PeerRec
  <2>3. k \in Nat /\ k <= h.c.sendq /\ k + h.p.wire <= Cap
    <3> DEFINE x == h.c.sendq
               y == Cap - h.p.wire
    <3>1. x \in Nat /\ y \in Nat
      BY <2>2
    <3>2. Min({x, y}) \in {x, y} /\ Min({x, y}) <= x /\ Min({x, y}) <= y
      <4>1. x \in Int /\ y \in Int
        BY <3>1
      <4> HIDE DEF x, y
      <4> QED BY <4>1, MinTwo
    <3>3. k = 0 \/ k = Min({x, y})
      OBVIOUS
    <3> HIDE DEF k
    <3>4. k \in Nat /\ k <= x /\ k <= y
      <4> HIDE DEF x, y
      <4> QED BY <3>1, <3>2, <3>3
    <3> QED BY <2>2, <3>4
  <2> HIDE DEF k
  <2>4. /\ e \in HRec /\ e.c.state = h.c.state /\ e.c.sd = h.c.sd /\ e.rd = h.rd
        /\ e.c.sendq = h.c.sendq - k /\ e.c.recvq = h.c.recvq + k
        /\ e.wr <=> h.c.sendq > k
        /\ e.p.est = h.p.est /\ e.p.wire = h.p.wire + k /\ e.p.avail = h.p.avail
    <3>1. e.c \in ConnRec
      <4> DEFINE x == h.c
      <4>1. e.c = [x EXCEPT !.sendq = @ - k, !.recvq = @ + k]
        BY DEF HRec
      <4>2. x \in ConnRec /\ x.sendq - k \in Nat /\ x.recvq + k \in Nat
        BY <2>2, <2>3 DEF HRec
      <4> HIDE DEF x
      <4>3. [x EXCEPT !.sendq = @ - k, !.recvq = @ + k] \in ConnRec
        BY <4>2 DEF ConnRec
      <4> QED BY <4>1, <4>3
    <3>2. e.p \in PeerRec
      <4>1. h.p.wire + k \in 0 .. Cap
        BY <2>2, <2>3
      <4> QED BY <4>1 DEF HRec, PeerRec
    <3>3. e \in HRec
      <4>1. (h.c.sendq > k) \in BOOLEAN
        OBVIOUS
      <4> QED BY <3>1, <3>2, <4>1 DEF HRec
    <3>4. /\ e.c.state = h.c.state /\ e.c.sd = h.c.sd
          /\ e.c.sendq = h.c.sendq - k /\ e.c.recvq = h.c.recvq + k
      BY DEF HRec, ConnRec
    <3>5. e.p.est = h.p.est /\ e.p.wire = h.p.wire + k /\ e.p.avail = h.p.avail
      BY DEF HRec, PeerRec
    <3>6. e.rd = h.rd /\ (e.wr <=> h.c.sendq > k)
      BY DEF HRec
    <3> QED BY <3>3, <3>4, <3>5, <3>6
  <2> HIDE DEF e
  <2>5. v \in HRec /\ Busy(v, 0) /\ v.c.sd = h.c.sd
    <3>1. /\ h.c.state = "connected" /\ (h.rd <=> h.c.recvq > 0) /\ (h.wr <=> h.c.sendq > 0)
          /\ h.c.recvq = h.p.wire + h.p.avail + 0
      BY <1>2 DEF Busy
    <3>2. e.c.recvq = e.p.wire + e.p.avail + 0 /\ (e.wr <=> e.c.sendq > 0)
      <4>1. h.c.sendq > k <=> h.c.sendq - k > 0
        BY <2>2, <2>3
      <4>2. h.c.recvq + k = (h.p.wire + k) + h.p.avail + 0
        BY <2>2, <2>3, <3>1
      <4> QED BY <2>4, <4>1, <4>2
    <3>3. CASE k > 0
      <4>1. v = SetRd(e)
        BY <3>3
      <4> HIDE DEF v
      <4>2. e.c.recvq > 0
        BY <2>2, <2>3, <2>4, <3>3
      <4> QED BY <2>4, <3>1, <3>2, <4>1, <4>2, SetRdIs DEF Busy
    <3>4. CASE k = 0
      <4>1. v = e
        BY <3>4
      <4> HIDE DEF v
      <4>2. e.rd <=> e.c.recvq > 0
        BY <2>2, <2>4, <3>1, <3>4
      <4> QED BY <2>4, <3>1, <3>2, <4>1, <4>2 DEF Busy
    <3> QED BY <2>3, <3>3, <3>4
  <2> HIDE DEF v
  <2>6. g \in HRec /\ Busy(g, 0) /\ g.c.sd = h.c.sd
    <3>1. CASE g = v
      BY <2>5, <3>1
    <3>2. CASE g = SetWr(v) /\ v.c.sendq > 0
      BY <2>5, <3>2, SetWrIs DEF Busy
    <3> QED BY <2>1, <3>1, <3>2
  <2> QED BY <2>6 DEF Fit, Keeps, Busy
<1> QED BY <1>1, <1>2

\* One reply after the other of those one read() returned; a connection that
\* was closed takes no more.
NextReply(g) == IF g.c.state = "closing" THEN g ELSE recv_done(g)
Replies(h, j, m, f) ==
    [i \in 0 .. m |-> IF i = 0 THEN [h EXCEPT !.p.avail = @ - j] ELSE NextReply(f[i - 1])]

\* The loop over them has a result.
LEMMA RepliesExist ==
    ASSUME NEW h, NEW j \in Nat
    PROVE  \E f : f = Replies(h, j, j, f)
<1> DEFINE Bad == {m \in Nat : ~\E f : f = Replies(h, j, m, f)}
<1>1. Bad = {}
  <2> SUFFICES ASSUME Bad # {} PROVE FALSE
    OBVIOUS
  <2>1. PICK m \in Bad : \A x \in Bad : m <= x
    <3>1. Bad \subseteq Nat
      OBVIOUS
    <3> HIDE DEF Bad
    <3> QED BY <3>1, LeastNat
  <2>2. m \in Nat /\ ~\E f : f = Replies(h, j, m, f)
    OBVIOUS
  <2>3. CASE m = 0
    <3> DEFINE f == [i \in 0 .. 0 |-> [h EXCEPT !.p.avail = @ - j]]
    <3>1. f = Replies(h, j, 0, f)
      BY DEF Replies
    <3> QED BY <2>2, <2>3, <3>1
  <2>4. CASE m # 0
    <3>1. m - 1 \in Nat /\ m - 1 \notin Bad
      BY <2>1, <2>2, <2>4
    <3>2. PICK f : f = Replies(h, j, m - 1, f)
      BY <3>1
    <3> DEFINE g == [i \in 0 .. m |-> IF i = m THEN NextReply(f[m - 1]) ELSE f[i]]
    <3>3. ASSUME NEW i \in 0 .. m
          PROVE  g[i] = IF i = 0 THEN [h EXCEPT !.p.avail = @ - j] ELSE NextReply(g[i - 1])
      <4>1. i # 0 => i - 1 \in 0 .. m /\ i - 1 # m /\ g[i - 1] = f[i - 1]
        BY <2>2
      <4>2. i # m => i \in 0 .. m - 1
        BY <2>2
      <4>3. i # m => g[i] = f[i]
        OBVIOUS
      <4>4. i # m => f[i] = IF i = 0 THEN [h EXCEPT !.p.avail = @ - j] ELSE NextReply(f[i - 1])
        <5> SUFFICES ASSUME i # m
                     PROVE  f[i] = IF i = 0 THEN [h EXCEPT !.p.avail = @ - j] ELSE NextReply(f[i - 1])
          OBVIOUS
        <5>1. Replies(h, j, m - 1, f)[i] =
                 IF i = 0 THEN [h EXCEPT !.p.avail = @ - j] ELSE NextReply(f[i - 1])
          BY <4>2 DEF Replies
        <5> QED BY <3>2, <5>1
      <4>5. i = m => i # 0 /\ g[i] = NextReply(f[i - 1])
        BY <2>4
      <4> HIDE DEF g
      <4> QED BY <4>1, <4>3, <4>4, <4>5
    <3>4. g = [i \in 0 .. m |-> g[i]]
      OBVIOUS
    <3> HIDE DEF g
    <3>5. g = Replies(h, j, m, g)
      BY <3>3, <3>4 DEF Replies
    <3> QED BY <2>2, <3>5
  <2> QED BY <2>3, <2>4
<1> QED BY <1>1

\* After i of them have been taken j - i are left.
LEMMA RepliesFit ==
    ASSUME NEW h \in HRec, Busy(h, 0), h.p.est # "dead", burst \in Bursts,
           NEW j \in 1 .. h.p.avail, NEW f, f = Replies(h, j, j, f)
    PROVE  f[j] \in HRec /\ Fit(f[j], 0) /\ Keeps(f[j], h) /\ f[j].c.state # "connecting"
<1> DEFINE Good(i) == /\ f[i] \in HRec /\ Fit(f[i], j - i) /\ Keeps(f[i], h)
                      /\ f[i].c.state # "connecting" /\ f[i].p.est # "dead"
           Bad == {i \in 0 .. j : ~Good(i)}
<1>1. j \in Nat /\ h.p.avail \in Nat /\ h.p.avail - j \in Nat
  BY DEF HRec, PeerRec
<1>2. f[0] = [h EXCEPT !.p.avail = @ - j]
  <2>1. Replies(h, j, j, f)[0] = [h EXCEPT !.p.avail = @ - j]
    BY <1>1 DEF Replies
  <2> QED BY <2>1
<1>3. ASSUME NEW i \in 0 .. j, i # 0 PROVE f[i] = NextReply(f[i - 1])
  <2>1. Replies(h, j, j, f)[i] = NextReply(f[i - 1])
    BY <1>3 DEF Replies
  <2> QED BY <2>1
<1>4. Good(0)
  <2> DEFINE e == [h EXCEPT !.p.avail = @ - j]
  <2>1. /\ e \in HRec /\ e.c = h.c /\ e.rd = h.rd /\ e.wr = h.wr
        /\ e.p.est = h.p.est /\ e.p.wire = h.p.wire /\ e.p.avail = h.p.avail - j
    BY <1>1 DEF HRec, PeerRec
  <2>2. h.c.recvq = h.p.wire + h.p.avail + 0 /\ h.p.wire \in Nat
    BY CoreAssumption DEF Busy, HRec, PeerRec
  <2> HIDE DEF e
  <2>3. Busy(e, j - 0)
    BY <1>1, <2>1, <2>2 DEF Busy
  <2>4. e.c.state = "connected" /\ e.c.sd = h.c.sd
    BY <2>1 DEF Busy
  <2>5. f[0] = e
    BY <1>2 DEF e
  <2> QED BY <2>1, <2>3, <2>4, <2>5 DEF Fit, Keeps
<1>5. Bad = {}
  <2> SUFFICES ASSUME Bad # {} PROVE FALSE
    OBVIOUS
  <2>1. PICK i \in Bad : \A x \in Bad : i <= x
    <3>1. Bad \subseteq Nat
      BY <1>1
    <3> HIDE DEF Bad
    <3> QED BY <3>1, LeastNat
  <2>2. i \in 0 .. j /\ ~Good(i) /\ i # 0
    <3>1. i \in 0 .. j /\ ~Good(i)
      OBVIOUS
    <3> HIDE DEF Good
    <3> QED BY <1>4, <3>1
  <2>3. i - 1 \in 0 .. j /\ Good(i - 1)
    <3>1. i - 1 \in 0 .. j /\ ~(i <= i - 1)
      BY <1>1, <2>2
    <3> HIDE DEF Good
    <3> QED BY <2>1, <3>1
  <2> DEFINE e == f[i - 1]
             r == j - i
  <2>4. r \in Nat /\ j - (i - 1) = r + 1
    BY <1>1, <2>2
  <2>5. e \in HRec /\ Fit(e, r + 1) /\ Keeps(e, h) /\ e.c.state # "connecting" /\ e.p.est # "dead"
    BY <2>3, <2>4
  <2>6. f[i] = NextReply(e)
    BY <1>3, <2>2
  <2> HIDE DEF e, r
  <2>7. f[i] \in HRec /\ Fit(f[i], r) /\ Keeps(f[i], h) /\ f[i].c.state # "connecting"
        /\ f[i].p.est # "dead"
    <3>1. CASE e.c.state = "closing"
      BY <2>5, <2>6, <3>1 DEF NextReply, Fit, Busy, Keeps
    <3>2. CASE e.c.state # "closing"
      <4>1. Busy(e, r + 1) /\ e.c.sd = h.c.sd
        BY <2>5, <3>2 DEF Fit, Keeps
      <4>2. f[i] = recv_done(e)
        BY <2>6, <3>2 DEF NextReply
      <4> QED BY <2>4, <2>5, <4>1, <4>2, RecvDoneFits DEF Keeps
    <3> QED BY <3>1, <3>2
  <2> QED BY <2>2, <2>7 DEF r
<1>6. Good(j) /\ j - j = 0
  <2>1. j \in 0 .. j /\ j - j = 0
    BY <1>1
  <2> HIDE DEF Good
  <2> QED BY <1>5, <2>1
<1> QED BY <1>6

\* do_recv() gives every reply that was read to a call.
LEMMA RecvFits ==
    ASSUME NEW h \in HRec, Busy(h, 0), burst \in Bursts, NEW g \in do_recv(h)
    PROVE  g \in HRec /\ Fit(g, 0) /\ Keeps(g, h) /\ g.c.state # "connecting"
<1>1. CASE h.p.est = "dead"
  <2>1. g = core_close(h) /\ h.c.state # "closing"
    BY <1>1 DEF do_recv, Busy
  <2> QED BY <2>1, CloseFits DEF Keeps
<1>2. CASE h.p.est # "dead" /\ h.p.avail = 0
  <2>1. g = h
    BY <1>2 DEF do_recv
  <2> QED BY <2>1 DEF Fit, Keeps, Busy
<1>3. CASE h.p.est # "dead" /\ h.p.avail # 0
  <2>1. PICK j \in 1 .. h.p.avail :
          LET f == CHOOSE f : f = Replies(h, j, j, f)
          IN  g = IF f[j].c.recvq > 0 THEN SetRd(f[j]) ELSE f[j]
    BY <1>3 DEF do_recv, Replies, NextReply
  <2> DEFINE f == CHOOSE f : f = Replies(h, j, j, f)
  <2>2. j \in Nat
    BY DEF HRec, PeerRec
  <2>3. f = Replies(h, j, j, f)
    BY <2>2, RepliesExist
  <2>4. g = IF f[j].c.recvq > 0 THEN SetRd(f[j]) ELSE f[j]
    BY <2>1
  <2> HIDE DEF f
  <2>5. f[j] \in HRec /\ Fit(f[j], 0) /\ Keeps(f[j], h) /\ f[j].c.state # "connecting"
    BY <1>3, <2>3, RepliesFit
  <2>6. CASE f[j].c.recvq > 0
    <3>1. g = SetRd(f[j]) /\ Busy(f[j], 0)
      BY <2>4, <2>5, <2>6 DEF Fit
    <3> QED BY <2>5, <2>6, <3>1, SetRdIs DEF Fit, Busy, Keeps
  <2>7. CASE ~(f[j].c.recvq > 0)
    BY <2>4, <2>5, <2>7
  <2> QED BY <2>6, <2>7
<1> QED BY <1>1, <1>2, <1>3

\* A connection is established.
LEMMA ConnectedFits ==
    ASSUME NEW h \in HRec, h.c.sendq = 0, h.c.recvq = 0, h.rd = FALSE, burst \in Bursts,
           h.p.est # "dead" => h.p.wire + h.p.avail = 0
    PROVE  LET g == connected(h) IN g \in HRec /\ Fit(g, 0) /\ g.c.sd = h.c.sd
                                      /\ g.c.state = "connected"
<1> DEFINE e == [h EXCEPT !.c.state = "connected", !.wr = FALSE]
<1>1. /\ e \in HRec /\ e.c.state = "connected" /\ e.c.sd = h.c.sd /\ e.p = h.p
      /\ e.c.sendq = 0 /\ e.c.recvq = 0 /\ e.rd = FALSE /\ e.wr = FALSE
  BY DEF HRec, ConnRec, PeerRec
<1>2. connected(h) = issue_calls(e)
  BY DEF connected
<1> HIDE DEF e
<1>3. Busy(e, 0)
  BY <1>1 DEF Busy, HRec, PeerRec
<1>4. LET g == issue_calls(e) IN g \in HRec /\ Busy(g, 0) /\ g.c.sd = e.c.sd
  BY <1>1, <1>3, IssueFits
<1> QED BY <1>1, <1>2, <1>4 DEF Fit, Busy

\* What core_loop does for a descriptor that is ready.
LEMMA DispatchFits ==
    ASSUME NEW h0 \in HRec, Fit(h0, 0), h0.c.state # "closing", burst \in Bursts,
           NEW readable \in BOOLEAN, NEW writable \in BOOLEAN,
           NEW g \in Dispatch(h0, readable, writable)
    PROVE  g \in HRec /\ Fit(g, 0) /\ Keeps(g, h0)
<1> DEFINE h == [h0 EXCEPT !.c.dog = FALSE]
<1>1. /\ h \in HRec /\ h.c.state = h0.c.state /\ h.c.sd = h0.c.sd /\ h.c.sendq = h0.c.sendq
      /\ h.c.recvq = h0.c.recvq /\ h.p = h0.p /\ h.rd = h0.rd /\ h.wr = h0.wr
  BY DEF HRec, ConnRec
<1>2. g \in IF h.c.state = "connecting" THEN {IF writable THEN connected(h) ELSE h}
            ELSE UNION {IF readable /\ x.c.recvq > 0 THEN do_recv(x) ELSE {x} :
                          x \in IF writable /\ h.c.sendq > 0 THEN do_send(h) ELSE {h}}
  BY DEF Dispatch
<1> HIDE DEF h
<1>3. Fit(h, 0)
  BY <1>1 DEF Fit, Busy
<1>4. CASE h.c.state = "connecting"
  <2>1. g \in {connected(h), h}
    BY <1>2, <1>4
  <2>2. /\ h.c.sendq = 0 /\ h.c.recvq = 0 /\ h.rd = FALSE
        /\ h.p.est # "dead" => h.p.wire + h.p.avail = 0
    BY <1>3, <1>4 DEF Fit, Busy
  <2>3. CASE g = h
    BY <1>1, <1>3, <2>3 DEF Keeps
  <2>4. CASE g = connected(h)
    BY <1>1, <2>2, <2>4, ConnectedFits DEF Keeps
  <2> QED BY <2>1, <2>3, <2>4
<1>5. CASE h.c.state # "connecting"
  <2>1. Busy(h, 0)
    BY <1>1, <1>3, <1>5 DEF Fit
  <2>2. PICK x \in IF writable /\ h.c.sendq > 0 THEN do_send(h) ELSE {h} :
               g \in IF readable /\ x.c.recvq > 0 THEN do_recv(x) ELSE {x}
    BY <1>2, <1>5
  <2>3. x \in HRec /\ Fit(x, 0) /\ Keeps(x, h) /\ x.c.state # "connecting"
    <3>1. CASE x = h
      BY <1>1, <1>3, <1>5, <3>1 DEF Keeps
    <3>2. CASE x \in do_send(h)
      BY <1>1, <2>1, <3>2, SendFits
    <3> QED BY <2>2, <3>1, <3>2
  <2>4. CASE g = x
    BY <1>1, <2>3, <2>4 DEF Keeps
  <2>5. CASE x.c.recvq > 0 /\ g \in do_recv(x)
    <3>1. Busy(x, 0) /\ x.c.sd = h.c.sd
      BY <2>3, <2>5 DEF Fit, Keeps, Busy
    <3>2. g \in HRec /\ Fit(g, 0) /\ Keeps(g, x)
      BY <2>3, <2>5, <3>1, RecvFits
    <3> QED BY <1>1, <3>1, <3>2 DEF Keeps
  <2> QED BY <2>2, <2>4, <2>5
<1> QED BY <1>4, <1>5

-----------------------------------------------------------------------------
(* The steps *)

\* None is no connection and no descriptor.
LEMMA Names == /\ None \notin Conns /\ None \notin Sds /\ None = 0
               /\ Conns \subseteq Nat /\ Sds \subseteq Nat
               /\ NumConns \in Nat /\ NumSds \in Nat
  BY CoreAssumption DEF None, Conns, Sds

\* A connection changes as a handler says: its own entries in the tables do,
\* and nobody else's.
LEMMA BecomesInv ==
    ASSUME IInv, NEW c \in Conns, NEW s \in Sds, NEW h \in HRec, Fit(h, 0),
           h.c.state = "closing" \/ h.c.sd = s,
           \/ Open(c) /\ conn[c].sd = s
           \/ ~Open(c) /\ owner[s] = None,
           Becomes(c, s, h), generated' \in 0 .. NumConns, burst' = burst,
           \A d \in Conns : d > generated' => d > generated /\ d # c
    PROVE  IInv'
<1> USE Names
<1>1. /\ conn \in [Conns -> ConnRec] /\ peer \in [Conns -> PeerRec]
      /\ owner \in [Sds -> Conns \cup {None}] /\ rd \subseteq Sds /\ wr \subseteq Sds
  BY DEF IInv, Typed
<1>2. /\ conn'[c] = h.c /\ peer'[c] = h.p
      /\ \A d \in Conns : d # c => conn'[d] = conn[d] /\ peer'[d] = peer[d]
      /\ owner'[s] = IF h.c.state = "closing" THEN None ELSE c
      /\ \A x \in Sds : x # s => owner'[x] = owner[x]
      /\ (s \in rd' <=> h.rd) /\ (s \in wr' <=> h.wr)
      /\ \A x : x # s => (x \in rd' <=> x \in rd) /\ (x \in wr' <=> x \in wr)
  <2>1. conn'[c] = h.c /\ \A d \in Conns : d # c => conn'[d] = conn[d]
    BY <1>1 DEF Becomes
  <2>2. peer'[c] = h.p /\ \A d \in Conns : d # c => peer'[d] = peer[d]
    BY <1>1 DEF Becomes
  <2>3. /\ owner'[s] = IF h.c.state = "closing" THEN None ELSE c
        /\ \A x \in Sds : x # s => owner'[x] = owner[x]
    BY <1>1 DEF Becomes
  <2>4. (s \in rd' <=> h.rd) /\ \A x : x # s => (x \in rd' <=> x \in rd)
    BY DEF Becomes
  <2>5. (s \in wr' <=> h.wr) /\ \A x : x # s => (x \in wr' <=> x \in wr)
    BY DEF Becomes
  <2> QED BY <2>1, <2>2, <2>3, <2>4, <2>5
<1>3. Typed'
  <2>1. h.c \in ConnRec /\ h.p \in PeerRec
    BY DEF HRec
  <2>2. conn' \in [Conns -> ConnRec]
    BY <1>1, <2>1 DEF Becomes
  <2>3. peer' \in [Conns -> PeerRec]
    BY <1>1, <2>1 DEF Becomes
  <2>4. owner' \in [Sds -> Conns \cup {None}]
    BY <1>1 DEF Becomes
  <2>5. rd' \subseteq Sds /\ wr' \subseteq Sds
    BY <1>1, <1>2
  <2> QED BY <2>2, <2>3, <2>4, <2>5 DEF Typed, IInv
<1>4. Open(c)' <=> h.c.state # "closing"
  BY <1>2 DEF Open, Fit, Busy
<1>5. h.c.state = "closing" => ~h.rd /\ ~h.wr
  BY DEF Fit, Busy
<1>6. ASSUME NEW d \in Conns, d # c
      PROVE  (Open(d)' <=> Open(d)) /\ (Open(d) => conn[d].sd \in Sds /\ conn[d].sd # s)
  <2>1. Open(d)' <=> Open(d)
    BY <1>2, <1>6 DEF Open
  <2>2. Open(d) => conn[d].sd \in Sds /\ owner[conn[d].sd] = d
    BY DEF IInv, Tables
  <2>3. Open(d) => conn[d].sd # s
    BY <1>6, <2>2 DEF IInv, Tables
  <2> QED BY <2>1, <2>2, <2>3
<1>7. Tables'
  <2>1. ASSUME NEW x \in rd' \cup wr' PROVE owner'[x] # None
    <3>1. CASE x = s
      BY <1>2, <1>5, <2>1, <3>1
    <3>2. CASE x # s
      BY <1>1, <1>2, <2>1, <3>2 DEF IInv, Tables
    <3> QED BY <3>1, <3>2
  <2>2. ASSUME NEW x \in Sds, owner'[x] # None
        PROVE  /\ conn'[owner'[x]].state \in {"connecting", "connected"}
               /\ conn'[owner'[x]].sd = x
    <3>1. CASE x = s
      <4>1. owner'[x] = c /\ h.c.state # "closing"
        BY <1>2, <2>2, <3>1
      <4> QED BY <1>2, <1>4, <3>1, <4>1 DEF Open
    <3>2. CASE x # s
      <4>1. owner'[x] = owner[x] /\ owner[x] \in Conns
        BY <1>1, <1>2, <2>2, <3>2
      <4>2. Open(owner[x]) /\ conn[owner[x]].sd = x
        BY <2>2, <4>1 DEF IInv, Tables
      <4>3. owner[x] # c
        <5>1. CASE Open(c) /\ conn[c].sd = s
          BY <3>2, <4>2, <5>1
        <5>2. CASE ~Open(c)
          BY <4>2, <5>2
        <5> QED BY <5>1, <5>2
      <4> QED BY <1>2, <4>1, <4>2, <4>3 DEF Open
    <3> QED BY <3>1, <3>2
  <2>3. ASSUME NEW d \in Conns, Open(d)'
        PROVE  conn'[d].sd \in Sds /\ owner'[conn'[d].sd] = d
    <3>1. CASE d = c
      BY <1>2, <1>4, <2>3, <3>1
    <3>2. CASE d # c
      <4>1. Open(d) /\ conn[d].sd \in Sds /\ conn[d].sd # s /\ conn'[d] = conn[d]
        BY <1>2, <1>6, <2>3, <3>2
      <4>2. owner[conn[d].sd] = d
        BY <4>1 DEF IInv, Tables
      <4>3. \A x \in Sds : x # s => owner'[x] = owner[x]
        BY <1>2
      <4>4. owner'[conn[d].sd] = owner[conn[d].sd]
        BY <4>1, <4>3
      <4> QED BY <4>1, <4>2, <4>4
    <3> QED BY <3>1, <3>2
  <2> QED BY <2>1, <2>2, <2>3 DEF Tables, Open
<1>8. Each'
  <2> SUFFICES ASSUME NEW d \in Conns
               PROVE  IF Open(d)' THEN Fit(Handled(d), 0)'
                      ELSE conn'[d].dog = FALSE /\ conn'[d].sendq = 0 /\ conn'[d].recvq = 0
    BY DEF Each
  <2>1. CASE d = c /\ Open(d)'
    <3>1. h.c.sd = s
      BY <1>4, <2>1
    <3>2. /\ Handled(c)'.c = h.c /\ Handled(c)'.p = h.p
          /\ (Handled(c)'.rd <=> h.rd) /\ (Handled(c)'.wr <=> h.wr)
      BY <1>2, <3>1 DEF Handled
    <3>3. Handled(c)'.rd \in BOOLEAN /\ Handled(c)'.wr \in BOOLEAN
      BY DEF Handled
    <3>4. h.rd \in BOOLEAN /\ h.wr \in BOOLEAN
      BY DEF HRec
    <3> QED BY <2>1, <3>2, <3>3, <3>4 DEF Fit, Busy
  <2>2. CASE d = c /\ ~Open(d)'
    BY <1>2, <1>4, <2>2 DEF Fit, Busy
  <2>3. CASE d # c /\ Open(d)
    <3>1. Handled(d)' = Handled(d)
      BY <1>2, <1>6, <2>3 DEF Handled
    <3> QED BY <1>6, <2>3, <3>1 DEF IInv, Each, Fit, Busy
  <2>4. CASE d # c /\ ~Open(d)
    BY <1>2, <1>6, <2>4 DEF IInv, Each
  <2> QED BY <2>1, <2>2, <2>3, <2>4
<1>9. Future'
  BY <1>2 DEF IInv, Future
<1> QED BY <1>3, <1>7, <1>8, <1>9 DEF IInv

\* An open connection, as a handler finds it.
LEMMA HandledFits ==
    ASSUME IInv, NEW c \in Conns, Open(c)
    PROVE  /\ Handled(c) \in HRec /\ Fit(Handled(c), 0) /\ Handled(c).c = conn[c]
           /\ Handled(c).c.state # "closing" /\ Handled(c).c.sd = conn[c].sd
           /\ conn[c].sd \in Sds /\ c <= generated
<1>1. Handled(c) \in HRec /\ Handled(c).c = conn[c]
  <2>1. conn[c] \in ConnRec /\ peer[c] \in PeerRec
    BY DEF IInv, Typed
  <2> QED BY <2>1 DEF Handled, HRec
<1>2. Fit(Handled(c), 0)
  BY DEF IInv, Each
<1>3. conn[c].sd \in Sds
  BY DEF IInv, Tables
<1>4. ~(c > generated)
  BY DEF IInv, Future, Open
<1> QED BY <1>1, <1>2, <1>3, <1>4, Names DEF Open, IInv, Typed

\* core_connect() takes the lowest descriptor that nobody has.
LEMMA ConnectInv ==
    ASSUME IInv, generated < NumConns, generated' = generated + 1, burst' = burst,
           NEW next, core_connect(generated + 1, next)
    PROVE  IInv'
<1> USE Names
<1>0. PICK c : c = generated + 1
  OBVIOUS
<1>1. generated \in 0 .. NumConns /\ NumConns \in Nat
  BY DEF IInv, Typed
<1>2. /\ c \in Conns /\ generated' \in 0 .. NumConns
      /\ \A d \in Conns : d > generated' => d > generated /\ d # c
  BY <1>0, <1>1 DEF Conns
<1>3. conn[c].state = "initial" /\ peer[c] = Untouched /\ ~Open(c) /\ c > generated
  BY <1>0, <1>1, <1>2 DEF IInv, Future, Open
<1>4. CASE \E s \in Sds : owner[s] = None /\
              LET x == Min({y \in Sds : owner[y] = None})
                  h == [c |-> [NewConn EXCEPT !.sd = x], p |-> peer[c], rd |-> FALSE, wr |-> FALSE]
              IN  \E g \in {connected([h EXCEPT !.p.est = "yes"]),
                            [h EXCEPT !.c.state = "connecting", !.wr = TRUE, !.c.dog = TRUE]} :
                     Becomes(c, x, g)
  <2> DEFINE T == {y \in Sds : owner[y] = None}
             x == Min(T)
             h == [c |-> [NewConn EXCEPT !.sd = x], p |-> peer[c], rd |-> FALSE, wr |-> FALSE]
  <2>1. T # {} /\ T \subseteq Nat
    BY <1>4
  <2>2. x \in T
    <3> HIDE DEF T
    <3> QED BY <2>1, LeastNat DEF Min
  <2>3. x \in Sds /\ owner[x] = None
    BY <2>2
  <2>4. PICK g \in {connected([h EXCEPT !.p.est = "yes"]),
                    [h EXCEPT !.c.state = "connecting", !.wr = TRUE, !.c.dog = TRUE]} :
               Becomes(c, x, g)
    BY <1>4
  <2> HIDE DEF x
  <2>5. /\ h \in HRec /\ h.c.sd = x /\ h.c.sendq = 0 /\ h.c.recvq = 0 /\ h.rd = FALSE
        /\ h.p = Untouched
    <3>1. [NewConn EXCEPT !.sd = x] \in ConnRec
      <4>1. NewConn \in ConnRec /\ x \in 0 .. NumSds
        BY <2>3 DEF NewConn, ConnRec, Sds
      <4> QED BY <4>1 DEF ConnRec
    <3>2. peer[c] \in PeerRec
      BY <1>2 DEF IInv, Typed
    <3>3. [NewConn EXCEPT !.sd = x].sd = x /\ [NewConn EXCEPT !.sd = x].sendq = 0
          /\ [NewConn EXCEPT !.sd = x].recvq = 0
      BY DEF NewConn
    <3> QED BY <1>3, <3>1, <3>2, <3>3 DEF HRec
  <2> HIDE DEF h
  <2>6. g \in HRec /\ Fit(g, 0) /\ g.c.sd = x
    <3>1. CASE g = connected([h EXCEPT !.p.est = "yes"])
      <4> DEFINE e == [h EXCEPT !.p.est = "yes"]
      <4>1. /\ e \in HRec /\ e.c = h.c /\ e.rd = h.rd
            /\ e.p.wire = h.p.wire /\ e.p.avail = h.p.avail
        BY <2>5 DEF HRec, PeerRec
      <4>2. e.p.wire + e.p.avail = 0
        BY <2>5, <4>1 DEF Untouched
      <4> HIDE DEF e
      <4>3. burst \in Bursts
        BY DEF IInv, Typed
      <4>4. LET z == connected(e) IN z \in HRec /\ Fit(z, 0) /\ z.c.sd = e.c.sd
        BY <2>5, <4>1, <4>2, <4>3, ConnectedFits
      <4> QED BY <2>5, <3>1, <4>1, <4>4 DEF e
    <3>2. CASE g = [h EXCEPT !.c.state = "connecting", !.wr = TRUE, !.c.dog = TRUE]
      <4>1. /\ g \in HRec /\ g.c.state = "connecting" /\ g.c.sd = x /\ g.c.sendq = 0
            /\ g.c.recvq = 0 /\ g.rd = FALSE /\ g.wr = TRUE /\ g.p = h.p
        BY <2>5, <3>2 DEF HRec, ConnRec
      <4>2. h.p.wire + h.p.avail = 0
        BY <2>5 DEF Untouched
      <4> QED BY <4>1, <4>2 DEF Fit
    <3> QED BY <2>4, <3>1, <3>2
  <2> QED BY <1>2, <1>3, <2>3, <2>4, <2>6, BecomesInv
<1>5. CASE conn' = [conn EXCEPT ![c].state = "closing"] /\ UNCHANGED <<peer, owner, rd, wr>>
  <2>1. conn \in [Conns -> ConnRec]
    BY DEF IInv, Typed
  <2>2. /\ conn'[c].state = "closing" /\ conn'[c].dog = conn[c].dog
        /\ conn'[c].sendq = conn[c].sendq /\ conn'[c].recvq = conn[c].recvq
        /\ \A d \in Conns : d # c => conn'[d] = conn[d]
    BY <1>2, <1>5, <2>1 DEF ConnRec
  <2>3. conn' \in [Conns -> ConnRec]
    BY <1>2, <1>5, <2>1 DEF ConnRec
  <2>4. ~Open(c)' /\ \A d \in Conns : d # c => (Open(d)' <=> Open(d))
    BY <2>2 DEF Open
  <2>5. Typed'
    BY <1>2, <1>5, <2>3 DEF IInv, Typed
  <2>6. Tables'
    <3>1. \A s \in Sds : owner[s] # None => owner[s] \in Conns /\ owner[s] # c
      BY <1>3 DEF IInv, Typed, Tables
    <3> QED BY <1>3, <1>5, <2>2, <2>4, <3>1 DEF IInv, Tables, Open
  <2>7. Each'
    <3> SUFFICES ASSUME NEW d \in Conns
                 PROVE  IF Open(d)' THEN Fit(Handled(d), 0)'
                        ELSE conn'[d].dog = FALSE /\ conn'[d].sendq = 0 /\ conn'[d].recvq = 0
      BY DEF Each
    <3>1. CASE d = c
      BY <1>2, <1>3, <2>2, <2>4, <3>1 DEF IInv, Each
    <3>2. CASE d # c
      <4>1. Handled(d)' = Handled(d)
        BY <1>5, <2>2, <3>2 DEF Handled
      <4> QED BY <2>2, <2>4, <3>2, <4>1 DEF IInv, Each, Fit, Busy
    <3> QED BY <3>1, <3>2
  <2>8. Future'
    BY <1>2, <1>5, <2>2 DEF IInv, Future
  <2> QED BY <2>5, <2>6, <2>7, <2>8 DEF IInv
<1> QED BY <1>0, <1>4, <1>5 DEF core_connect

\* conn_timeout() closes a connection that has a watchdog.
LEMMA TimeoutInv ==
    ASSUME IInv, NEW c \in Conns, conn_timeout(c)
    PROVE  IInv'
<1> USE Names
<1>1. Open(c)
  BY DEF IInv, Each, conn_timeout
<1> DEFINE h == Handled(c)
           e == [h EXCEPT !.c.dog = FALSE]
<1>2. /\ h \in HRec /\ h.c = conn[c] /\ h.c.state # "closing" /\ conn[c].sd \in Sds
      /\ c <= generated
  BY <1>1, HandledFits
<1>3. Becomes(c, conn[c].sd, core_close(e)) /\ UNCHANGED <<generated, burst>>
  BY DEF conn_timeout, gen, mode
<1> HIDE DEF h
<1>4. e \in HRec /\ e.c.state # "closing"
  BY <1>2 DEF HRec, ConnRec
<1> HIDE DEF e
<1>5. core_close(e) \in HRec /\ Fit(core_close(e), 0) /\ core_close(e).c.state = "closing"
  BY <1>4, CloseFits
<1>6. generated' \in 0 .. NumConns /\ \A d \in Conns : d > generated' => d > generated /\ d # c
  BY <1>2, <1>3 DEF IInv, Typed
<1> QED BY <1>1, <1>2, <1>3, <1>5, <1>6, BecomesInv

\* core_loop() handles a descriptor, whose connection may be another than when
\* select() found it ready.
LEMMA HandleInv ==
    ASSUME IInv, Handle
    PROVE  IInv'
<1> USE Names
<1> DEFINE s == Min({x \in R \cup W : x >= pos})
           c == owner[s]
           readable == s \in R \cap rd
           writable == s \in W \cap wr
<1>1. UNCHANGED <<generated, burst>>
  BY DEF Handle, gen, mode
<1>2. \/ /\ readable \/ writable
         /\ \E h \in Dispatch(Handled(c), readable, writable) : Becomes(c, s, h)
      \/ UNCHANGED <<conn, peer, owner, rd, wr>>
  BY DEF Handle
<1> HIDE DEF s
<1>3. CASE /\ readable \/ writable
           /\ \E h \in Dispatch(Handled(c), readable, writable) : Becomes(c, s, h)
  <2>1. s \in rd \cup wr /\ s \in Sds
    BY <1>3 DEF IInv, Typed
  <2>2. c \in Conns /\ Open(c) /\ conn[c].sd = s
    BY <2>1 DEF IInv, Typed, Tables
  <2>3. readable \in BOOLEAN /\ writable \in BOOLEAN
    OBVIOUS
  <2> HIDE DEF c, readable, writable
  <2>4. PICK h \in Dispatch(Handled(c), readable, writable) : Becomes(c, s, h)
    BY <1>3
  <2>5. /\ Handled(c) \in HRec /\ Fit(Handled(c), 0) /\ Handled(c).c.state # "closing"
        /\ Handled(c).c.sd = s /\ c <= generated
    BY <2>2, HandledFits
  <2>6. burst \in Bursts
    BY DEF IInv, Typed
  <2>7. h \in HRec /\ Fit(h, 0) /\ Keeps(h, Handled(c))
    BY <2>3, <2>4, <2>5, <2>6, DispatchFits
  <2>8. generated' \in 0 .. NumConns /\ \A d \in Conns : d > generated' => d > generated /\ d # c
    BY <1>1, <2>2, <2>5 DEF IInv, Typed
  <2> QED BY <1>1, <2>1, <2>2, <2>4, <2>5, <2>7, <2>8, BecomesInv DEF Keeps
<1>4. CASE UNCHANGED <<conn, peer, owner, rd, wr>>
  BY <1>1, <1>4 DEF IInv, Typed, Tables, Each, Future, Open, Handled, Fit, Busy
<1> QED BY <1>2, <1>3, <1>4

\* The server accepts, replies or resets.
LEMMA PeerInv ==
    ASSUME IInv, NEW c \in Conns, Accept(c) \/ Reply(c) \/ Reset(c)
    PROVE  IInv'
<1> USE Names
<1>1. Open(c) /\ UNCHANGED <<conn, owner, rd, wr, generated, burst>>
  BY DEF Accept, Reply, Reset, PeerStep, gen, mode
<1>2. peer \in [Conns -> PeerRec] /\ Cap \in Nat /\ Cap > 0
  BY CoreAssumption DEF IInv, Typed
<1>3. PICK p : /\ peer' = [peer EXCEPT ![c] = p]
               /\ \/ peer[c].est = "no" /\ p = [peer[c] EXCEPT !.est = "yes"]
                  \/ peer[c].wire > 0 /\ p = [peer[c] EXCEPT !.wire = @ - 1, !.avail = @ + 1]
                  \/ p = [est |-> "dead", wire |-> 0, avail |-> 0]
  BY DEF Accept, Reply, Reset, PeerStep
<1>4. p \in PeerRec /\ (p.est # "dead" => peer[c].est # "dead" /\
                                           p.wire + p.avail = peer[c].wire + peer[c].avail)
  <2>1. peer[c] \in PeerRec
    BY <1>2
  <2>2. CASE p = [peer[c] EXCEPT !.est = "yes"] /\ peer[c].est = "no"
    BY <2>1, <2>2 DEF PeerRec
  <2>3. CASE peer[c].wire > 0 /\ p = [peer[c] EXCEPT !.wire = @ - 1, !.avail = @ + 1]
    <3>1. peer[c].wire - 1 \in 0 .. Cap /\ peer[c].avail + 1 \in Nat
      BY <1>2, <2>1, <2>3 DEF PeerRec
    <3>2. p \in PeerRec /\ p.est = peer[c].est /\ p.wire = peer[c].wire - 1
          /\ p.avail = peer[c].avail + 1
      BY <2>1, <2>3, <3>1 DEF PeerRec
    <3>3. p.wire + p.avail = peer[c].wire + peer[c].avail
      BY <1>2, <2>1, <3>2 DEF PeerRec
    <3> QED BY <3>2, <3>3
  <2>4. CASE p = [est |-> "dead", wire |-> 0, avail |-> 0]
    BY <1>2, <2>4 DEF PeerRec
  <2> QED BY <1>3, <2>2, <2>3, <2>4
<1>5. peer'[c] = p /\ \A d \in Conns : d # c => peer'[d] = peer[d]
  BY <1>2, <1>3
<1>6. Typed'
  BY <1>1, <1>2, <1>3, <1>4 DEF IInv, Typed
<1>7. Tables'
  BY <1>1 DEF IInv, Tables, Open
<1>8. Each'
  <2> SUFFICES ASSUME NEW d \in Conns, Open(d)
               PROVE  Fit(Handled(d), 0)'
    BY <1>1 DEF IInv, Each, Open
  <2>1. Fit(Handled(d), 0)
    BY DEF IInv, Each
  <2>2. CASE d # c
    <3>1. Handled(d)' = Handled(d)
      BY <1>1, <1>5, <2>2 DEF Handled
    <3> QED BY <2>1, <3>1 DEF Fit, Busy
  <2>3. CASE d = c
    <3>1. /\ Handled(d)'.c = Handled(d).c /\ Handled(d)'.rd = Handled(d).rd
          /\ Handled(d)'.wr = Handled(d).wr /\ Handled(d)'.p = p /\ Handled(d).p = peer[c]
      BY <1>1, <1>5, <2>3 DEF Handled
    <3>2. p.wire \in Nat /\ p.avail \in Nat /\ peer[c].wire \in Nat /\ peer[c].avail \in Nat
      BY <1>2, <1>4 DEF PeerRec
    <3> QED BY <1>4, <2>1, <3>1, <3>2 DEF Fit, Busy
  <2> QED BY <2>2, <2>3
<1>9. Future'
  <2>1. ~(c > generated)
    BY <1>1 DEF IInv, Future, Open
  <2> QED BY <1>1, <1>5, <2>1 DEF IInv, Future
<1> QED BY <1>6, <1>7, <1>8, <1>9 DEF IInv

\* No connection exists at the start.
LEMMA InitInv == Init => IInv
<1> SUFFICES ASSUME Init PROVE IInv
  OBVIOUS
<1> USE Names
<1>1. NewConn \in ConnRec /\ Untouched \in PeerRec
  BY CoreAssumption DEF NewConn, ConnRec, PeerRec, Untouched
<1>2. Typed
  BY <1>1 DEF Init, Typed, Untouched
<1>3. \A c \in Conns : ~Open(c) /\ conn[c] = NewConn
  BY DEF Init, Open, NewConn
<1>4. Tables
  BY <1>3 DEF Init, Tables
<1>5. Each /\ Future
  BY <1>3 DEF Init, Each, Future, NewConn, Untouched
<1> QED BY <1>2, <1>4, <1>5 DEF IInv

\* Every step keeps the invariant.
LEMMA NextInv ==
    ASSUME IInv, [Next]_vars
    PROVE  IInv'
<1>1. CASE Start \/ tick
  <2>1. \E next : core_connect(generated + 1, next)
    BY <1>1 DEF Start, tick, make_conn
  <2>2. generated < NumConns /\ generated' = generated + 1 /\ burst' = burst
    BY <1>1 DEF Start, tick, make_conn, mode
  <2> QED BY <2>1, <2>2, ConnectInv
<1>2. CASE Destroy
  <2>1. CASE sequential /\ generated < NumConns
    <3>1. generated' = generated + 1 /\ core_connect(generated + 1, back) /\ burst' = burst
      BY <1>2, <2>1 DEF Destroy, mode
    <3> QED BY <2>1, <3>1, ConnectInv
  <2>2. CASE ~(sequential /\ generated < NumConns)
    <3>1. UNCHANGED <<conn, peer, owner, rd, wr, generated, burst>>
      BY <1>2, <2>2 DEF Destroy, mode
    <3> QED BY <3>1 DEF IInv, Typed, Tables, Each, Future, Open, Handled, Fit, Busy
  <2> QED BY <2>1, <2>2
<1>3. CASE TickDone \/ Select \/ MaskDone \/ UNCHANGED vars
  <2>1. UNCHANGED <<conn, peer, owner, rd, wr, generated, burst>>
    BY <1>3 DEF TickDone, Select, MaskDone, vars, gen, mode
  <2> QED BY <2>1 DEF IInv, Typed, Tables, Each, Future, Open, Handled, Fit, Busy
<1>4. CASE Handle
  BY <1>4, HandleInv
<1>5. ASSUME NEW c \in Conns, conn_timeout(c) \/ Accept(c) \/ Reply(c) \/ Reset(c)
      PROVE  IInv'
  BY <1>5, TimeoutInv, PeerInv
<1> QED BY <1>1, <1>2, <1>3, <1>4, <1>5 DEF Next, LoopStep

\* The invariant holds wherever core_loop is, whatever the server and the
\* timers do.
THEOREM Invariance == Spec => []IInv
  BY InitInv, NextInv, PTL DEF Spec

\* sd_to_conn, rdfds and wrfds never lead to a connection that is gone, even
\* when a descriptor is closed and used again between select() and the scan of
\* its result.
THEOREM TablesAlwaysAgree == Spec => []TablesAgree
<1>1. IInv => TablesAgree
  <2> SUFFICES ASSUME IInv PROVE TablesAgree
    OBVIOUS
  <2>1. \A c \in Conns : ~Open(c) => ~conn[c].dog /\ conn[c].sendq + conn[c].recvq = 0
    BY DEF IInv, Each
  <2> QED BY <2>1 DEF IInv, Tables, TablesAgree
<1> QED BY <1>1, Invariance, PTL

\* At select() core_loop asks for exactly what its connections wait for.
THEOREM NoWakeupIsLost == Spec => []Interest
<1>1. IInv => Interest
  <2> SUFFICES ASSUME IInv, NEW c \in Conns, Open(c)
               PROVE  /\ conn[c].sd \in rd <=> conn[c].recvq > 0
                      /\ conn[c].sd \in wr <=> (conn[c].sendq > 0 \/ conn[c].state = "connecting")
    BY DEF Interest
  <2>1. Fit(Handled(c), 0)
    BY DEF IInv, Each
  <2>2. /\ Handled(c).c = conn[c] /\ (Handled(c).rd <=> conn[c].sd \in rd)
        /\ (Handled(c).wr <=> conn[c].sd \in wr)
    BY DEF Handled
  <2> QED BY <2>1, <2>2 DEF Fit, Busy, Open
<1> QED BY <1>1, Invariance, PTL

\* A reply always finds the call it answers.
THEOREM RepliesAlwaysMatch == Spec => []RepliesMatch
<1>1. IInv => RepliesMatch
  <2> SUFFICES ASSUME IInv, NEW c \in Conns, Open(c), peer[c].est = "yes"
               PROVE  conn[c].recvq = peer[c].wire + peer[c].avail
    BY DEF RepliesMatch
  <2>1. Fit(Handled(c), 0)
    BY DEF IInv, Each
  <2>2. Handled(c).c = conn[c] /\ Handled(c).p = peer[c]
    BY DEF Handled
  <2>3. peer[c].wire \in Nat /\ peer[c].avail \in Nat
    BY CoreAssumption DEF IInv, Typed, PeerRec
  <2> QED BY <2>1, <2>2, <2>3 DEF Fit, Busy, Open
<1> QED BY <1>1, Invariance, PTL

-----------------------------------------------------------------------------
(***************************************************************************)
(* The timers: the inductive invariant.  The linked lists are described by *)
(* functions that say where each timer is: its spoke sp, its place ps in   *)
(* it, the length len of each list, the turns up until it is called, and   *)
(* the place fp of a free timer on the free list.                          *)
(***************************************************************************)

\* The first timer timer_tick() has still to look at in spoke s, as in InSpoke.
First(s) ==
    CASE s = curr /\ tpc = "scan"     -> t
      [] s = curr /\ tpc = "callback" -> nxt[t]
      [] OTHER                        -> nxt[Head(s)]

\* Ticks until the current spoke is s.
Distance(s) == (s - curr) % WheelSize

WheelTyped ==
    /\ tpc \in {"idle", "spoke", "scan", "callback"}
    /\ now \in Nat /\ nextTick \in 1 .. now + 1 /\ curr \in Spokes
    /\ t \in Timers \cup {Null}
    /\ nxt \in [Cells -> Timers \cup {Null}] /\ prv \in [Cells -> Cells \cup {Null}]
    /\ delta \in [Timers -> Int]
    /\ free \in Timers \cup {Null} /\ fresh \subseteq Timers
    /\ due \in [Timers -> Nat]

\* The timer being called is in nobody's hands; time has come for its spoke.
InTick ==
    /\ tpc \in {"scan", "callback"} => nextTick <= now
    /\ tpc = "callback" => t \in Timers /\ due[t] = Null /\ t \notin fresh
                             /\ delta[t] = 0
    /\ \A x \in fresh : due[x] = Null

\* Each timer that is held has a place ps[x], from 1 on, in the list of a
\* spoke sp[x], which has len[s] places.
Placed(sp, ps, len) ==
    /\ sp \in [Timers -> Spokes] /\ ps \in [Timers -> Nat] /\ len \in [Spokes -> Nat]
    /\ \A x \in held : ps[x] \in 1 .. len[sp[x]]
    /\ \A x, y \in held : sp[x] = sp[y] /\ ps[x] = ps[y] => x = y

\* q.next leads from place to place.
Linked(sp, ps, len) ==
    /\ \A s \in Spokes :
          IF len[s] = 0 THEN First(s) = Null
          ELSE First(s) \in held /\ sp[First(s)] = s /\ ps[First(s)] = 1
    /\ \A x \in held :
          IF ps[x] = len[sp[x]] THEN nxt[x] = Null
          ELSE nxt[x] \in held /\ sp[nxt[x]] = sp[x] /\ ps[nxt[x]] = ps[x] + 1

\* The cell timer_cancel() finds in front of a list: while its first timers
\* are called back it is the last of those.
Front(s) == IF s = curr /\ tpc = "callback" THEN t ELSE Head(s)

\* q.prev leads back; timer_tick() repairs that of the first timer it leaves
\* when it is through with the spoke.
BackLinked(sp, ps) ==
    \A x \in held :
        IF ps[x] = 1
        THEN IF sp[x] = curr /\ tpc = "scan" THEN prv[x] # Null
             ELSE prv[x] = Front(sp[x])
        ELSE prv[x] \in held /\ sp[prv[x]] = sp[x] /\ ps[prv[x]] = ps[x] - 1

\* The turns up[x] until a timer is called are the sum of the deltas up to it.
Turned(sp, ps, up) ==
    /\ up \in [Timers -> Nat]
    /\ \A x \in held : ps[x] = 1 => delta[x] = up[x]
    /\ \A x, y \in held : sp[x] = sp[y] =>
          /\ ps[y] = ps[x] + 1 => delta[y] = up[y] - up[x]
          /\ ps[x] <= ps[y] => up[x] <= up[y]

\* The tick at which timer x will be called.
CalledAt(x, sp, up) == nextTick + Distance(sp[x]) + WheelSize * up[x]

OnTime(sp, up) ==
    \A x \in held : CalledAt(x, sp, up) \in due[x] .. due[x] + 1

\* The timers that are free.
Freed == Timers \ (held \cup fresh \cup Active)

\* The free list, of k timers: fp[x] is the place of x, from the end.
FreeList(fp, k) ==
    /\ fp \in [Timers -> Nat] /\ k \in Nat
    /\ IF k = 0 THEN free = Null ELSE free \in Freed /\ fp[free] = k
    /\ \A x \in Freed : fp[x] \in 1 .. k
    /\ \A x, y \in Freed : fp[x] = fp[y] => x = y
    /\ \A x \in Freed : IF fp[x] = 1 THEN nxt[x] = Null
                        ELSE nxt[x] \in Freed /\ fp[nxt[x]] = fp[x] - 1

Lists(sp, ps, len, up) ==
    /\ Placed(sp, ps, len) /\ Linked(sp, ps, len) /\ BackLinked(sp, ps)
    /\ Turned(sp, ps, up) /\ OnTime(sp, up)

WheelInv ==
    /\ WheelTyped /\ InTick
    /\ \E sp, ps, len, up : Lists(sp, ps, len, up)
    /\ \E fp, k : FreeList(fp, k)

-----------------------------------------------------------------------------
(* Turns and spokes *)

\* The bounds of the wheel.
LEMMA WheelSizes ==
    /\ WheelSize \in Nat /\ WheelSize >= 1 /\ NumTimers \in Nat /\ NumTimers >= 1
    /\ FullTurns \in BOOLEAN /\ Delays \subseteq Int /\ CallbackDelays \subseteq Int
  BY WheelAssumption

\* What % and \div are.
LEMMA Division ==
    ASSUME NEW a \in Int
    PROVE  /\ a % WheelSize \in 0 .. WheelSize - 1 /\ a \div WheelSize \in Int
           /\ a = WheelSize * (a \div WheelSize) + (a % WheelSize)
<1> DEFINE w == WheelSize
<1>1. w \in Nat /\ w > 0
  BY WheelSizes
<1> HIDE DEF w
<1>2. a % w \in 0 .. w - 1
  BY <1>1
<1>3. a \div w \in Int
  BY <1>1
<1>4. a = w * (a \div w) + (a % w)
  BY <1>1
<1> QED BY <1>2, <1>3, <1>4 DEF w

\* A whole number of turns and less than a turn are told apart.
LEMMA Turns ==
    ASSUME NEW i \in Int, NEW j \in Int, NEW a \in 0 .. WheelSize - 1,
           NEW b \in 0 .. WheelSize - 1, WheelSize * i + a = WheelSize * j + b
    PROVE  i = j /\ a = b
<1> DEFINE w == WheelSize
<1>1. w \in Nat /\ w >= 1 /\ w * i + a = w * j + b
      /\ a \in Int /\ b \in Int /\ 0 <= a /\ a < w /\ 0 <= b /\ b < w
  BY WheelSizes
<1> HIDE DEF w
<1>2. w * (i - j) = b - a
  BY <1>1
<1>3. ASSUME i > j PROVE FALSE
  <2> DEFINE m == i - j
  <2>1. m \in Int /\ m >= 1 /\ w * m = b - a
    BY <1>2, <1>3
  <2> HIDE DEF m
  <2>2. w * m >= w
    BY <1>1, <2>1
  <2> QED BY <1>1, <2>1, <2>2
<1>4. ASSUME i < j PROVE FALSE
  <2> DEFINE m == j - i
  <2>1. m \in Int /\ m >= 1 /\ w * m = a - b
    BY <1>1, <1>2, <1>4
  <2> HIDE DEF m
  <2>2. w * m >= w
    BY <1>1, <2>1
  <2> QED BY <1>1, <2>1, <2>2
<1>5. i = j
  BY <1>3, <1>4
<1> QED BY <1>1, <1>5

\* A remainder is the only one.
LEMMA Remainder ==
    ASSUME NEW i \in Int, NEW r \in 0 .. WheelSize - 1
    PROVE  (WheelSize * i + r) % WheelSize = r
<1>1. WheelSize * i + r \in Int
  BY WheelSizes
<1> QED BY <1>1, Division, Turns

\* A spoke ticks ahead of the current one is that many ticks away, but for
\* whole turns.
LEMMA SpokeAhead ==
    ASSUME NEW c \in Spokes, NEW k \in Nat
    PROVE  /\ (c + k) % WheelSize \in Spokes
           /\ (((c + k) % WheelSize) - c) % WheelSize = k % WheelSize
           /\ k \div WheelSize \in Nat
           /\ k = WheelSize * (k \div WheelSize) + (k % WheelSize)
<1> DEFINE w == WheelSize
           s == (c + k) % w
           i == (c + k) \div w
           q == k \div w
           r == k % w
<1>1. /\ w \in Nat /\ w >= 1 /\ c \in Int /\ 0 <= c /\ c < w
      /\ s \in Spokes /\ i \in Int /\ c + k = w * i + s
      /\ q \in Int /\ r \in 0 .. w - 1 /\ k = w * q + r
  <2>1. w \in Nat /\ w >= 1 /\ c \in Int /\ 0 <= c /\ c < w
    BY WheelSizes DEF Spokes
  <2>2. s \in 0 .. w - 1 /\ i \in Int /\ c + k = w * i + s
    BY <2>1, Division
  <2>3. q \in Int /\ r \in 0 .. w - 1 /\ k = w * q + r
    BY Division
  <2> QED BY <2>1, <2>2, <2>3 DEF Spokes
<1>2. s - c = w * (q - i) + r /\ q - i \in Int
  <2> HIDE DEF w, s, i, q, r
  <2>1. s \in Int
    BY <1>1, WheelSizes DEF Spokes, w
  <2> QED BY <1>1, <2>1
<1>3. (s - c) % w = r
  BY <1>1, <1>2, Remainder
<1>4. q \in Nat
  <2> HIDE DEF w, s, i, q, r
  <2> SUFFICES ASSUME q < 0 PROVE FALSE
    BY <1>1
  <2>1. w * (-q) >= w
    BY <1>1
  <2> QED BY <1>1, <2>1
<1> QED BY <1>1, <1>3, <1>4

\* When the wheel moves on, every spoke is a tick nearer, and the one it
\* leaves is all but a turn away.
LEMMA NextSpoke ==
    ASSUME NEW c \in Spokes, NEW s \in Spokes
    PROVE  /\ (c + 1) % WheelSize \in Spokes
           /\ (s - ((c + 1) % WheelSize)) % WheelSize =
                IF s = c THEN WheelSize - 1 ELSE ((s - c) % WheelSize) - 1
           /\ (s - c) % WheelSize \in 0 .. WheelSize - 1
           /\ (s - c) % WheelSize = 0 <=> s = c
<1> DEFINE w == WheelSize
           e == (c + 1) % w
           i == (c + 1) \div w
           q == (s - c) \div w
           r == (s - c) % w
<1>1. /\ w \in Nat /\ w >= 1 /\ c \in Int /\ 0 <= c /\ c < w
      /\ s \in Int /\ 0 <= s /\ s < w
      /\ e \in Spokes /\ e \in Int /\ i \in Int /\ c + 1 = w * i + e
      /\ q \in Int /\ r \in 0 .. w - 1 /\ s - c = w * q + r
  <2>1. w \in Nat /\ w >= 1 /\ c \in Int /\ 0 <= c /\ c < w
        /\ s \in Int /\ 0 <= s /\ s < w
    BY WheelSizes DEF Spokes
  <2>4. c + 1 \in Int /\ s - c \in Int
    BY <2>1
  <2>2. e \in 0 .. w - 1 /\ i \in Int /\ c + 1 = w * i + e
    BY <2>4, Division
  <2>3. q \in Int /\ r \in 0 .. w - 1 /\ s - c = w * q + r
    BY <2>4, Division
  <2> QED BY <2>1, <2>2, <2>3 DEF Spokes
<1>2. r = 0 <=> s = c
  <2>1. ASSUME s = c PROVE r = 0
    <3>1. s - c = w * 0 + 0 /\ 0 \in 0 .. w - 1
      BY <1>1, <2>1
    <3> QED BY <1>1, <3>1, Turns
  <2>2. ASSUME r = 0 PROVE s = c
    <3> HIDE DEF w, e, i, q, r
    <3>1. s - c = w * q /\ s - c < w /\ s - c > -w
      BY <1>1, <2>2
    <3>2. CASE q >= 1
      <4>1. w * q >= w
        BY <1>1, <3>2
      <4> QED BY <1>1, <3>1, <4>1
    <3>3. CASE q <= -1
      <4>1. w * (-q) >= w
        BY <1>1, <3>3
      <4> QED BY <1>1, <3>1, <4>1
    <3>4. CASE q = 0
      BY <1>1, <3>1, <3>4
    <3> QED BY <1>1, <3>2, <3>3, <3>4
  <2> QED BY <2>1, <2>2
<1>3. CASE s = c
  <2>1. s - e = w * (i - 1) + (w - 1) /\ i - 1 \in Int /\ w - 1 \in 0 .. w - 1
    <3> HIDE DEF w, e, i, q, r
    <3> QED BY <1>1, <1>3
  <2> QED BY <1>1, <1>2, <1>3, <2>1, Remainder
<1>4. CASE s # c
  <2>1. s - e = w * (q + i) + (r - 1) /\ q + i \in Int /\ r - 1 \in 0 .. w - 1
    <3>1. r # 0
      BY <1>2, <1>4
    <3> HIDE DEF w, e, i, q, r
    <3>2. s - e = (w * q + r) + (w * i) - 1
      BY <1>1
    <3>3. w * (q + i) = w * q + w * i
      BY <1>1
    <3> QED BY <1>1, <3>1, <3>2, <3>3
  <2> QED BY <1>1, <1>2, <1>4, <2>1, Remainder
<1> QED BY <1>3, <1>4

-----------------------------------------------------------------------------
(* What the invariant says of the lists *)

\* The cells are apart from each other and from Null.
LEMMA CellsApart ==
    /\ \A x \in Timers : x \in Nat /\ x >= 1 /\ x # Null /\ x \in Cells /\ x \notin Heads
    /\ \A s \in Spokes : Head(s) \in Int /\ Head(s) # Null /\ Head(s) < 0
                           /\ Head(s) \in Cells /\ Head(s) \notin Timers
    /\ \A s, r \in Spokes : Head(s) = Head(r) => s = r
    /\ Null \notin Cells /\ Null \notin Timers
<1>1. \A x \in Timers : x \in Nat /\ x >= 1
  BY WheelSizes DEF Timers
<1>2. \A s \in Spokes : s \in Nat /\ Head(s) \in Int /\ Head(s) < 0
  BY WheelSizes DEF Spokes, Head
<1>3. \A s \in Spokes : Head(s) \in Heads
  BY DEF Heads
<1>4. \A h \in Heads : h \in Int /\ h < 0
  BY <1>2 DEF Heads
<1>5. \A s, r \in Spokes : Head(s) = Head(r) => s = r
  BY <1>2 DEF Head
<1> QED BY <1>1, <1>2, <1>3, <1>4, <1>5 DEF Cells, Null

\* Every place of a spoke is taken.
LEMMA PlaceTaken ==
    ASSUME NEW sp, NEW ps, NEW len, Placed(sp, ps, len), Linked(sp, ps, len),
           NEW s \in Spokes, NEW j \in 1 .. len[s]
    PROVE  \E x \in held : sp[x] = s /\ ps[x] = j
<1> DEFINE Empty == {i \in 1 .. len[s] : \A x \in held : ~(sp[x] = s /\ ps[x] = i)}
<1>1. len[s] \in Nat
  BY DEF Placed
<1> SUFFICES ASSUME j \in Empty PROVE FALSE
  OBVIOUS
<1>2. Empty \subseteq Nat /\ Empty # {}
  BY <1>1
<1>3. PICK i \in Empty : \A k \in Empty : i <= k
  <2> HIDE DEF Empty
  <2> QED BY <1>2, LeastNat
<1>4. i \in 1 .. len[s] /\ i \in Nat
  BY <1>1
<1>5. i # 1
  BY <1>1, <1>4 DEF Linked
<1>6. i - 1 \in 1 .. len[s] /\ i - 1 \notin Empty
  <2> HIDE DEF Empty
  <2> QED BY <1>1, <1>3, <1>4, <1>5
<1>7. PICK x \in held : sp[x] = s /\ ps[x] = i - 1
  BY <1>6
<1>8. nxt[x] \in held /\ sp[nxt[x]] = s /\ ps[nxt[x]] = i
  BY <1>1, <1>4, <1>7 DEF Linked
<1> QED BY <1>8

\* The timers of a spoke in order.
LEMMA InOrder ==
    ASSUME NEW sp, NEW ps, NEW len, Placed(sp, ps, len), Linked(sp, ps, len),
           NEW s \in Spokes
    PROVE  \E ord \in [1 .. len[s] -> held] :
              /\ \A j \in 1 .. len[s] : sp[ord[j]] = s /\ ps[ord[j]] = j
              /\ \A x \in held : sp[x] = s => ps[x] \in 1 .. len[s] /\ ord[ps[x]] = x
<1> DEFINE ord == [j \in 1 .. len[s] |-> CHOOSE x \in held : sp[x] = s /\ ps[x] = j]
<1>1. \A j \in 1 .. len[s] : ord[j] \in held /\ sp[ord[j]] = s /\ ps[ord[j]] = j
  BY PlaceTaken
<1>2. ord \in [1 .. len[s] -> held]
  BY <1>1
<1>3. \A x \in held : sp[x] = s => ps[x] \in 1 .. len[s]
  BY DEF Placed
<1> HIDE DEF ord
<1>4. \A x \in held : sp[x] = s => ord[ps[x]] = x
  BY <1>1, <1>3 DEF Placed
<1> QED BY <1>1, <1>2, <1>3, <1>4

\* The timers are finitely many.
LEMMA HeldTimers == held \subseteq Timers /\ IsFiniteSet(held) /\ IsFiniteSet(Timers)
                      /\ Cardinality(Timers) = NumTimers
<1>1. held \subseteq Timers
  BY DEF held
<1>2. IsFiniteSet(Timers) /\ Cardinality(Timers) = NumTimers
  BY WheelSizes, FS_Interval DEF Timers
<1> QED BY <1>1, <1>2, FS_Subset

\* A list of different timers is no longer than there are timers.
LEMMA NotTooLong ==
    ASSUME NEW m \in Nat, NEW ord \in [1 .. m -> Timers],
           \A i, j \in 1 .. m : ord[i] = ord[j] => i = j
    PROVE  m <= NumTimers
<1>1. IsFiniteSet(Timers) /\ Cardinality(Timers) = NumTimers
  BY HeldTimers
<1>2. ord \in Injection(1 .. m, Timers)
  BY DEF Injection, IsInjective
<1>3. IsFiniteSet(1 .. m) /\ Cardinality(1 .. m) <= Cardinality(Timers)
  BY <1>1, <1>2, FS_Injection
<1>4. Cardinality(1 .. m) = m
  BY FS_Interval
<1> QED BY <1>1, <1>3, <1>4

\* So is the list of a spoke.
LEMMA SpokeNotTooLong ==
    ASSUME NEW sp, NEW ps, NEW len, Placed(sp, ps, len), Linked(sp, ps, len),
           NEW s \in Spokes
    PROVE  len[s] \in Nat /\ len[s] <= NumTimers
<1>1. PICK ord \in [1 .. len[s] -> held] :
         \A j \in 1 .. len[s] : sp[ord[j]] = s /\ ps[ord[j]] = j
  BY InOrder
<1>2. len[s] \in Nat
  BY DEF Placed
<1>3. ord \in [1 .. len[s] -> Timers]
  BY HeldTimers
<1>4. \A i, j \in 1 .. len[s] : ord[i] = ord[j] => i = j
  BY <1>1
<1> QED BY <1>2, <1>3, <1>4, NotTooLong

\* The steps of InSpoke's walk, as a function of the place: the timers of the
\* spoke in order, and then Null.
LEMMA SpokeContents ==
    ASSUME WheelTyped, NEW sp, NEW ps, NEW len, NEW up, Lists(sp, ps, len, up),
           NEW s \in Spokes
    PROVE  InSpoke(s) = {<<x, CalledAt(x, sp, up)>> : x \in {y \in held : sp[y] = s}}
<1> DEFINE at(x) == CalledAt(x, sp, up)
           base == nextTick + Distance(s)
           step(x, from) == <<x, IF x = Null THEN 0 ELSE from + WheelSize * delta[x]>>
           rest(p) == IF p[1] = Null THEN p ELSE step(nxt[p[1]], p[2])
           D == 1 .. NumTimers + 1
<1>1. PICK ord \in [1 .. len[s] -> held] :
              /\ \A j \in 1 .. len[s] : sp[ord[j]] = s /\ ps[ord[j]] = j
              /\ \A x \in held : sp[x] = s => ps[x] \in 1 .. len[s] /\ ord[ps[x]] = x
  BY InOrder DEF Lists
<1>2. len[s] \in Nat /\ len[s] <= NumTimers /\ NumTimers \in Nat /\ NumTimers >= 1
  BY SpokeNotTooLong, WheelSizes DEF Lists
<1>3. /\ base \in Int /\ WheelSize \in Nat
      /\ \A x \in held : x # Null /\ up[x] \in Nat /\ delta[x] \in Int
                           /\ (sp[x] = s => at(x) = base + WheelSize * up[x])
  <2>1. \A x \in held : x # Null /\ x \in Timers
    BY CellsApart, HeldTimers
  <2>2. s - curr \in Int /\ nextTick \in Int
    BY WheelSizes DEF WheelTyped, Spokes
  <2>3. base \in Int /\ WheelSize \in Nat
    BY <2>2, Division, WheelSizes DEF Distance
  <2> QED BY <2>1, <2>3 DEF CalledAt, Lists, Turned, WheelTyped
<1> DEFINE g == [k \in D |-> IF k <= len[s] THEN <<ord[k], at(ord[k])>> ELSE <<Null, 0>>]
<1>4. ASSUME NEW k \in D, k # 1
      PROVE  k - 1 \in D /\ g[k] = rest(g[k - 1])
  <2>1. k \in Nat /\ k - 1 \in D /\ k - 1 \in Nat
    BY <1>2, <1>4
  <2>2. CASE k - 1 > len[s]
    BY <1>2, <2>1, <2>2
  <2>3. CASE k - 1 <= len[s]
    <3> DEFINE x == ord[k - 1]
    <3>1. k - 1 \in 1 .. len[s]
      BY <1>2, <1>4, <2>1, <2>3
    <3>2. x \in held /\ sp[x] = s /\ ps[x] = k - 1
      BY <1>1, <3>1
    <3>3. g[k - 1] = <<x, at(x)>>
      BY <2>1, <2>3
    <3> HIDE DEF g
    <3>4. rest(g[k - 1]) = step(nxt[x], at(x))
      BY <1>3, <3>2, <3>3
    <3>5. CASE k - 1 = len[s]
      <4>1. nxt[x] = Null
        BY <3>2, <3>5 DEF Lists, Linked
      <4>2. g[k] = <<Null, 0>>
        BY <1>2, <2>1, <3>5 DEF g
      <4> QED BY <2>1, <3>4, <4>1, <4>2
    <3>6. CASE k - 1 # len[s]
      <4> DEFINE y == nxt[x]
      <4>1. y \in held /\ sp[y] = s /\ ps[y] = k
        BY <2>1, <3>2, <3>6 DEF Lists, Linked
      <4>2. k <= len[s] /\ ord[k] = y
        BY <1>1, <1>2, <2>1, <2>3, <3>6, <4>1
      <4>3. g[k] = <<y, at(y)>>
        BY <4>2 DEF g
      <4>4. ps[y] = ps[x] + 1
        BY <2>1, <3>2, <4>1
      <4>5. delta[y] = up[y] - up[x]
        BY <3>2, <4>1, <4>4 DEF Lists, Turned
      <4>6. at(x) = base + WheelSize * up[x] /\ at(y) = base + WheelSize * up[y]
            /\ y # Null /\ x \in held
        BY <1>3, <3>2, <4>1
      <4>7. /\ WheelSize * delta[y] = WheelSize * up[y] - WheelSize * up[x]
            /\ WheelSize * up[y] \in Int /\ WheelSize * up[x] \in Int
        <5> DEFINE w == WheelSize
                   u == up[x]
                   v == up[y]
        <5>1. w \in Nat /\ u \in Nat /\ v \in Nat
          BY <1>3, <3>2, <4>1
        <5> HIDE DEF w, u, v
        <5>2. w * (v - u) = w * v - w * u /\ w * v \in Int /\ w * u \in Int
          BY <5>1
        <5> QED BY <4>5, <5>2 DEF w, u, v
      <4> HIDE DEF y, x, at, base
      <4>8. at(y) = at(x) + WheelSize * delta[y]
        BY <1>3, <4>6, <4>7
      <4> QED BY <2>1, <3>4, <4>3, <4>6, <4>8 DEF y
    <3> QED BY <3>5, <3>6
  <2> QED BY <1>2, <2>1, <2>2, <2>3
<1>5. g[1] = step(First(s), base)
  <2>1. CASE len[s] = 0
    <3>1. First(s) = Null
      BY <2>1 DEF Lists, Linked
    <3> QED BY <1>2, <2>1, <3>1
  <2>2. CASE len[s] # 0
    <3>1. First(s) \in held /\ sp[First(s)] = s /\ ps[First(s)] = 1
      BY <2>2 DEF Lists, Linked
    <3>2. ord[1] = First(s) /\ 1 <= len[s]
      BY <1>1, <1>2, <2>2, <3>1
    <3>3. g[1] = <<First(s), at(First(s))>>
      BY <1>2, <3>2
    <3>4. delta[First(s)] = up[First(s)]
      BY <3>1 DEF Lists, Turned
    <3> HIDE DEF at, base
    <3> QED BY <1>3, <3>1, <3>3, <3>4
  <2> QED BY <2>1, <2>2
<1> HIDE DEF g
<1>6. g = [k \in D |-> IF k = 1 THEN step(First(s), base) ELSE rest(g[k - 1])]
  <2>1. \A k \in D : g[k] = IF k = 1 THEN step(First(s), base) ELSE rest(g[k - 1])
    <3> HIDE DEF D, rest, step
    <3> QED BY <1>4, <1>5
  <2>2. g = [k \in D |-> g[k]]
    BY DEF g
  <2> HIDE DEF D, rest, step
  <2> QED BY <2>1, <2>2
<1>7. ASSUME NEW f, f = [k \in D |-> IF k = 1 THEN step(First(s), base) ELSE rest(f[k - 1])]
      PROVE  f = g
  <2> DEFINE Bad == {k \in D : f[k] # g[k]}
  <2>1. Bad \subseteq Nat
    BY <1>2
  <2>2. ASSUME Bad # {} PROVE FALSE
    <3>1. PICK k \in Bad : \A j \in Bad : k <= j
      <4> HIDE DEF Bad
      <4> QED BY <2>1, <2>2, LeastNat
    <3>2. k \in D /\ f[k] # g[k]
      OBVIOUS
    <3>3. k # 1
      <4>1. 1 \in D
        BY <1>2
      <4> HIDE DEF D, rest, step
      <4> QED BY <1>7, <1>5, <3>2, <4>1
    <3>4. k - 1 \in D /\ g[k] = rest(g[k - 1])
      BY <1>4, <3>2, <3>3
    <3>5. f[k - 1] = g[k - 1]
      <4>1. ~(k <= k - 1)
        BY <3>2
      <4> QED BY <3>1, <3>4, <4>1
    <3>6. f[k] = rest(f[k - 1])
      <4> HIDE DEF D, rest, step
      <4> QED BY <1>7, <3>2, <3>3
    <3> QED BY <3>2, <3>4, <3>5, <3>6
  <2>3. \A k \in D : f[k] = g[k]
    BY <2>2
  <2>4. f = [k \in D |-> f[k]] /\ g = [k \in D |-> g[k]]
    <3> HIDE DEF D, rest, step
    <3> QED BY <1>6, <1>7
  <2> HIDE DEF D, rest, step
  <2> QED BY <2>3, <2>4
<1>8. InSpoke(s) = {g[k] : k \in D} \ {<<Null, 0>>}
  <2> DEFINE F == CHOOSE f : f = [k \in D |-> IF k = 1 THEN step(First(s), base)
                                              ELSE rest(f[k - 1])]
  <2>1. F = g
    <3> HIDE DEF D, rest, step
    <3> QED BY <1>6, <1>7
  <2>2. InSpoke(s) = {F[k] : k \in DOMAIN F} \ {<<Null, 0>>}
    BY DEF InSpoke, First, Distance
  <2>3. DOMAIN g = D
    BY DEF g
  <2> HIDE DEF F, D
  <2> QED BY <2>1, <2>2, <2>3
<1>9. ASSUME NEW k \in D
      PROVE  g[k] = IF k <= len[s] THEN <<ord[k], at(ord[k])>> ELSE <<Null, 0>>
  BY DEF g
<1> DEFINE Out == {<<x, at(x)>> : x \in {y \in held : sp[y] = s}}
<1>10. ASSUME NEW y \in InSpoke(s) PROVE y \in Out
  <2>1. PICK k \in D : y = g[k] /\ y # <<Null, 0>>
    BY <1>8
  <2>2. k <= len[s] /\ y = <<ord[k], at(ord[k])>>
    BY <1>9, <2>1
  <2>3. ord[k] \in held /\ sp[ord[k]] = s
    BY <1>1, <1>2, <2>2
  <2> HIDE DEF at
  <2> QED BY <2>2, <2>3
<1>11. ASSUME NEW y \in Out PROVE y \in InSpoke(s)
  <2>1. PICK x \in held : sp[x] = s /\ y = <<x, at(x)>>
    OBVIOUS
  <2>2. ps[x] \in 1 .. len[s] /\ ord[ps[x]] = x
    BY <1>1, <2>1
  <2>3. ps[x] \in D /\ ps[x] <= len[s]
    BY <1>2, <2>2
  <2>4. g[ps[x]] = y
    BY <1>9, <2>1, <2>2, <2>3
  <2>5. y # <<Null, 0>>
    BY <1>3, <2>1
  <2> QED BY <1>8, <2>3, <2>4, <2>5
<1> HIDE DEF Out
<1>12. InSpoke(s) = Out
  BY <1>10, <1>11
<1> QED BY <1>12 DEF Out, at

\* The free list holds the timers that are free.
LEMMA FreePlaceTaken ==
    ASSUME NEW fp, NEW m, FreeList(fp, m), NEW j \in 1 .. m
    PROVE  \E x \in Freed : fp[x] = j
<1> DEFINE Empty == {i \in 0 .. m - 1 : \A x \in Freed : fp[x] # m - i}
<1>1. m \in Nat
  BY DEF FreeList
<1> SUFFICES ASSUME \A x \in Freed : fp[x] # j PROVE FALSE
  OBVIOUS
<1>2. Empty \subseteq Nat /\ m - j \in Empty
  BY <1>1
<1>3. PICK i \in Empty : \A h \in Empty : i <= h
  <2> HIDE DEF Empty
  <2> QED BY <1>2, LeastNat
<1>4. i \in 0 .. m - 1 /\ \A x \in Freed : fp[x] # m - i
  BY <1>1
<1>5. i # 0
  BY <1>1, <1>4 DEF FreeList
<1>6. i - 1 \in 0 .. m - 1 /\ i - 1 \notin Empty
  <2> HIDE DEF Empty
  <2> QED BY <1>1, <1>3, <1>4, <1>5
<1>7. PICK x \in Freed : fp[x] = m - (i - 1)
  BY <1>6
<1>8. nxt[x] \in Freed /\ fp[nxt[x]] = m - i
  BY <1>1, <1>4, <1>7 DEF FreeList
<1> QED BY <1>4, <1>8

\* What Chain() finds on the free list.
LEMMA FreeContents ==
    ASSUME NEW fp, NEW m, FreeList(fp, m)
    PROVE  Chain(free) = Freed
<1> DEFINE rest(p) == IF p = Null THEN Null ELSE nxt[p]
           D == 1 .. NumTimers + 1
           ord == [j \in 1 .. m |-> CHOOSE x \in Freed : fp[x] = m + 1 - j]
<1>1. m \in Nat /\ NumTimers \in Nat /\ NumTimers >= 1
  BY WheelSizes DEF FreeList
<1>2. \A j \in 1 .. m : ord[j] \in Freed /\ fp[ord[j]] = m + 1 - j
  <2> SUFFICES ASSUME NEW j \in 1 .. m PROVE \E x \in Freed : fp[x] = m + 1 - j
    OBVIOUS
  <2>1. m + 1 - j \in 1 .. m
    BY <1>1
  <2> QED BY <2>1, FreePlaceTaken
<1>3. Freed \subseteq Timers /\ \A x \in Freed : x # Null
  BY CellsApart DEF Freed
<1>4. \A x \in Freed : fp[x] \in 1 .. m /\ m + 1 - fp[x] \in 1 .. m
  BY <1>1 DEF FreeList
<1>5. \A x, y \in Freed : fp[x] = fp[y] => x = y
  BY DEF FreeList
<1>6. ord \in [1 .. m -> Timers]
  BY <1>2, <1>3
<1> HIDE DEF ord
<1>7. m <= NumTimers
  <2>1. \A i, j \in 1 .. m : ord[i] = ord[j] => i = j
    BY <1>1, <1>2
  <2> QED BY <1>1, <1>6, <2>1, NotTooLong
<1>8. \A x \in Freed : ord[m + 1 - fp[x]] = x
  <2> SUFFICES ASSUME NEW x \in Freed PROVE ord[m + 1 - fp[x]] = x
    OBVIOUS
  <2> DEFINE j == m + 1 - fp[x]
  <2>1. j \in 1 .. m /\ m + 1 - j = fp[x]
    BY <1>1, <1>4
  <2> HIDE DEF j
  <2>2. ord[j] = x
    BY <1>2, <1>5, <2>1
  <2> QED BY <2>2 DEF j
<1> DEFINE g == [k \in D |-> IF k <= m THEN ord[k] ELSE Null]
<1>9. ASSUME NEW k \in D, k # 1
      PROVE  k - 1 \in D /\ g[k] = rest(g[k - 1])
  <2>1. k \in Nat /\ k - 1 \in D /\ k - 1 \in Nat
    BY <1>1, <1>9
  <2>2. CASE k - 1 > m
    BY <1>1, <2>1, <2>2
  <2>3. CASE k - 1 <= m
    <3> DEFINE x == ord[k - 1]
    <3>1. x \in Freed /\ fp[x] = m + 1 - (k - 1) /\ g[k - 1] = x
      BY <1>1, <1>2, <1>9, <2>1, <2>3
    <3> HIDE DEF x, g
    <3>2. rest(g[k - 1]) = nxt[x]
      BY <1>3, <3>1
    <3>3. CASE k - 1 = m
      BY <1>1, <2>1, <3>1, <3>2, <3>3 DEF FreeList, g
    <3>4. CASE k - 1 # m
      <4>1. nxt[x] \in Freed /\ fp[nxt[x]] = m + 1 - k /\ k <= m
        BY <1>1, <2>1, <2>3, <3>1, <3>4 DEF FreeList
      <4>2. ord[k] = nxt[x]
        BY <1>1, <1>2, <1>5, <2>1, <4>1
      <4> QED BY <2>1, <3>2, <4>1, <4>2 DEF g
    <3> QED BY <3>3, <3>4
  <2> QED BY <1>1, <2>1, <2>2, <2>3
<1>10. g[1] = free /\ 1 \in D
  <2>1. CASE m = 0
    BY <1>1, <2>1 DEF FreeList
  <2>2. CASE m # 0
    <3>1. free \in Freed /\ fp[free] = m
      BY <2>2 DEF FreeList
    <3>2. ord[1] = free
      BY <1>1, <1>2, <1>5, <2>2, <3>1
    <3> QED BY <1>1, <2>2, <3>2
  <2> QED BY <2>1, <2>2
<1>11. g = [k \in D |-> g[k]]
  OBVIOUS
<1>12. ASSUME NEW k \in D PROVE g[k] = IF k <= m THEN ord[k] ELSE Null
  OBVIOUS
<1> HIDE DEF g
<1>13. g = [k \in D |-> IF k = 1 THEN free ELSE rest(g[k - 1])]
  <2> HIDE DEF D, rest
  <2> QED BY <1>9, <1>10, <1>11
<1>14. ASSUME NEW f, f = [k \in D |-> IF k = 1 THEN free ELSE rest(f[k - 1])]
       PROVE  f = g
  <2> DEFINE Bad == {k \in D : f[k] # g[k]}
  <2>1. Bad \subseteq Nat
    BY <1>1
  <2>2. ASSUME Bad # {} PROVE FALSE
    <3>1. PICK k \in Bad : \A j \in Bad : k <= j
      <4> HIDE DEF Bad
      <4> QED BY <2>1, <2>2, LeastNat
    <3>2. k \in D /\ f[k] # g[k]
      OBVIOUS
    <3>3. k # 1
      <4> HIDE DEF D, rest
      <4> QED BY <1>14, <1>10, <3>2
    <3>4. k - 1 \in D /\ g[k] = rest(g[k - 1])
      BY <1>9, <3>2, <3>3
    <3>5. f[k - 1] = g[k - 1]
      <4>1. ~(k <= k - 1)
        BY <3>2
      <4> QED BY <3>1, <3>4, <4>1
    <3>6. f[k] = rest(f[k - 1])
      <4> HIDE DEF D, rest
      <4> QED BY <1>14, <3>2, <3>3
    <3> QED BY <3>2, <3>4, <3>5, <3>6
  <2> HIDE DEF D, rest
  <2>3. \A k \in D : f[k] = g[k]
    BY <2>2
  <2>4. f = [k \in D |-> f[k]]
    BY <1>14
  <2> QED BY <1>11, <2>3, <2>4
<1>15. Chain(free) = {g[k] : k \in D} \ {Null}
  <2> DEFINE F == CHOOSE f : f = [k \in D |-> IF k = 1 THEN free ELSE rest(f[k - 1])]
  <2>1. F = g
    <3> HIDE DEF D, rest
    <3> QED BY <1>13, <1>14
  <2>2. Chain(free) = {F[k] : k \in DOMAIN F} \ {Null}
    BY DEF Chain
  <2>3. DOMAIN g = D
    BY <1>11
  <2> HIDE DEF F, D
  <2> QED BY <2>1, <2>2, <2>3
<1>16. ASSUME NEW y \in Chain(free) PROVE y \in Freed
  <2>1. PICK k \in D : y = g[k] /\ y # Null
    BY <1>15
  <2> QED BY <1>1, <1>2, <1>12, <2>1
<1>17. ASSUME NEW y \in Freed PROVE y \in Chain(free)
  <2>1. m + 1 - fp[y] \in D /\ m + 1 - fp[y] <= m
    BY <1>1, <1>4, <1>7
  <2>2. g[m + 1 - fp[y]] = y
    BY <1>8, <1>12, <2>1
  <2> QED BY <1>3, <1>15, <2>1, <2>2
<1> QED BY <1>16, <1>17

\* The invariant is enough for the lists to be what the callers believe.
LEMMA InvIntact ==
    ASSUME WheelInv
    PROVE  WheelIntact
<1>1. PICK sp, ps, len, up : Lists(sp, ps, len, up)
  BY DEF WheelInv
<1>2. PICK fp, m : FreeList(fp, m)
  BY DEF WheelInv
<1> DEFINE at(x) == CalledAt(x, sp, up)
           all == {<<x, at(x)>> : x \in held}
<1>3. \A s \in Spokes : InSpoke(s) = {<<x, at(x)>> : x \in {y \in held : sp[y] = s}}
  BY <1>1, SpokeContents DEF WheelInv
<1>4. \A x \in held : sp[x] \in Spokes /\ x \in Timers
  BY <1>1, HeldTimers DEF Lists, Placed
<1>5. InWheel = all
  <2> HIDE DEF at
  <2>1. ASSUME NEW y \in InWheel PROVE y \in all
    <3>1. PICK s \in Spokes : y \in InSpoke(s)
      BY DEF InWheel
    <3> QED BY <1>3, <3>1
  <2>2. ASSUME NEW y \in all PROVE y \in InWheel
    <3>1. PICK x \in held : y = <<x, at(x)>>
      OBVIOUS
    <3>2. y \in InSpoke(sp[x])
      BY <1>3, <1>4, <3>1
    <3> QED BY <1>4, <3>2 DEF InWheel
  <2> HIDE DEF all
  <2> QED BY <2>1, <2>2
<1>6. {y[1] : y \in all} = held
  <2> HIDE DEF at
  <2>1. \A y \in all : y[1] \in held
    OBVIOUS
  <2>2. \A x \in held : <<x, at(x)>> \in all /\ <<x, at(x)>>[1] = x
    OBVIOUS
  <2> HIDE DEF all
  <2> QED BY <2>1, <2>2
<1>7. Cardinality(all) = Cardinality(held)
  <2> DEFINE b == [x \in held |-> <<x, at(x)>>]
  <2>1. b \in Bijection(held, all)
    BY DEF Bijection, Injection, IsInjective, Surjection
  <2>2. ExistsBijection(held, all)
    BY <2>1 DEF ExistsBijection
  <2> HIDE DEF all
  <2> QED BY <2>2, HeldTimers, FS_Bijection
<1>8. \A y \in all : y[2] \in due[y[1]] .. due[y[1]] + 1
  <2> SUFFICES ASSUME NEW x \in held PROVE at(x) \in due[x] .. due[x] + 1
    OBVIOUS
  <2> QED BY <1>1 DEF Lists, OnTime
<1>9. \A x \in held : prv[x] # Null /\ (nxt[x] # Null => prv[nxt[x]] = x)
  <2> SUFFICES ASSUME NEW x \in held
               PROVE  prv[x] # Null /\ (nxt[x] # Null => prv[nxt[x]] = x)
    OBVIOUS
  <2>1. \A y \in held : ps[y] \in Nat /\ y # Null
    BY <1>1, <1>4, CellsApart DEF Lists, Placed
  <2>2. prv[x] # Null
    <3>1. Front(sp[x]) # Null
      BY <1>4, CellsApart DEF Front, WheelInv, InTick
    <3> QED BY <1>1, <2>1, <3>1 DEF Lists, BackLinked
  <2>3. ASSUME nxt[x] # Null PROVE prv[nxt[x]] = x
    <3>1. nxt[x] \in held /\ sp[nxt[x]] = sp[x] /\ ps[nxt[x]] = ps[x] + 1
      BY <1>1, <2>3 DEF Lists, Linked
    <3>2. ps[x] >= 1
      BY <1>1 DEF Lists, Placed
    <3>3. prv[nxt[x]] \in held /\ sp[prv[nxt[x]]] = sp[x] /\ ps[prv[nxt[x]]] = ps[x]
      BY <1>1, <2>1, <3>1, <3>2 DEF Lists, BackLinked
    <3> QED BY <1>1, <3>3 DEF Lists, Placed
  <2> QED BY <2>2, <2>3
<1>10. Chain(free) = Timers \ (held \cup fresh \cup Active)
  BY <1>2, FreeContents DEF Freed
<1> HIDE DEF all
<1> QED BY <1>5, <1>6, <1>7, <1>8, <1>9, <1>10 DEF WheelIntact

-----------------------------------------------------------------------------
(* timer_tick() keeps the lists *)

\* timer_init() leaves empty lists.
LEMMA InvInit ==
    ASSUME WheelInit
    PROVE  WheelInv
<1> USE DEF WheelInit
<1>1. held = {} /\ Freed = {}
  BY DEF held, Freed
<1>2. WheelTyped /\ InTick
  BY WheelSizes, CellsApart DEF WheelTyped, InTick, Spokes, Null
<1>3. PICK z \in [Timers -> {0}] : TRUE
  <2>1. [x \in Timers |-> 0] \in [Timers -> {0}]
    OBVIOUS
  <2> QED BY <2>1
<1>4. PICK len \in [Spokes -> {0}] : TRUE
  <2>1. [s \in Spokes |-> 0] \in [Spokes -> {0}]
    OBVIOUS
  <2> QED BY <2>1
<1>5. z \in [Timers -> Nat] /\ len \in [Spokes -> Nat] /\ z \in [Timers -> Spokes]
  BY WheelSizes DEF Spokes
<1>6. Placed(z, z, len) /\ BackLinked(z, z) /\ Turned(z, z, z) /\ OnTime(z, z)
  BY <1>1, <1>5 DEF Placed, BackLinked, Turned, OnTime
<1>7. Linked(z, z, len)
  BY <1>1, CellsApart DEF Linked, First, Null
<1>8. FreeList(z, 0)
  BY <1>1, <1>5 DEF FreeList
<1> QED BY <1>2, <1>6, <1>7, <1>8 DEF WheelInv, Lists

\* The free list is the same when the free timers and what they point at are.
LEMMA FreeListSame ==
    ASSUME WheelInv, Freed' = Freed, free' = free, \A x \in Freed : nxt'[x] = nxt[x]
    PROVE  \E fp, m : FreeList(fp, m)'
<1>1. PICK fp, m : FreeList(fp, m)
  BY DEF WheelInv
<1>2. FreeList(fp, m)'
  BY <1>1 DEF FreeList
<1> QED BY <1>2

\* A timer that is freed becomes the first of the free list.
LEMMA FreeListPush ==
    ASSUME WheelInv, NEW x \in Timers, x \notin Freed, Freed' = Freed \cup {x},
           free' = x, nxt'[x] = free, \A y \in Freed : nxt'[y] = nxt[y]
    PROVE  \E fp, m : FreeList(fp, m)'
<1>1. PICK fp, m : FreeList(fp, m)
  BY DEF WheelInv
<1>2. PICK gp : gp = [fp EXCEPT ![x] = m + 1]
  OBVIOUS
<1>3. /\ gp \in [Timers -> Nat] /\ gp[x] = m + 1 /\ m \in Nat
      /\ \A y \in Freed : y # x /\ y \in Timers /\ gp[y] = fp[y] /\ fp[y] \in 1 .. m
  BY <1>1, <1>2 DEF FreeList, Freed
<1>4. \A y, z \in Freed' : gp[y] = gp[z] => y = z
  BY <1>1, <1>3 DEF FreeList
<1>5. \A y \in Freed : IF gp[y] = 1 THEN nxt'[y] = Null
                       ELSE nxt'[y] \in Freed /\ gp[nxt'[y]] = gp[y] - 1
  BY <1>1, <1>3 DEF FreeList
<1>6. IF gp[x] = 1 THEN nxt'[x] = Null
      ELSE nxt'[x] \in Freed /\ gp[nxt'[x]] = gp[x] - 1
  BY <1>1, <1>3 DEF FreeList
<1>7. \A y \in Freed' : gp[y] \in 1 .. m + 1
  BY <1>3
<1>8. FreeList(gp, m + 1)'
  BY <1>3, <1>4, <1>5, <1>6, <1>7 DEF FreeList
<1> QED BY <1>8

\* Time passes: nothing in the lists changes.
LEMMA TickInv ==
    ASSUME WheelInv, timer_tick
    PROVE  WheelInv'
<1> USE DEF timer_tick
<1>1. PICK sp, ps, len, up : Lists(sp, ps, len, up)
  BY DEF WheelInv
<1>2. held' = held /\ Active' = Active /\ Freed' = Freed
  BY DEF held, Active, Freed
<1>3. now' \in Nat /\ nextTick \in 1 .. now' + 1
  <2> DEFINE then == now'
  <2>1. now \in Nat /\ nextTick \in 1 .. now + 1
    BY DEF WheelInv, WheelTyped
  <2>2. then \in Int /\ then > now
    BY <2>1
  <2> HIDE DEF then, timer_tick
  <2>3. then \in Nat /\ nextTick \in 1 .. then + 1
    BY <2>1, <2>2
  <2> QED BY <2>3 DEF then
<1>4. WheelTyped' /\ InTick'
  BY <1>3 DEF WheelInv, WheelTyped, InTick
<1>5. \A s \in Spokes : First(s)' = First(s) /\ Front(s)' = Front(s)
  BY DEF First, Front
<1>6. Placed(sp, ps, len)' /\ Turned(sp, ps, up)'
  BY <1>1, <1>2 DEF Lists, Placed, Turned
<1>7. Linked(sp, ps, len)'
  BY <1>1, <1>2, <1>5 DEF Lists, Linked
<1>8. BackLinked(sp, ps)'
  BY <1>1, <1>2, <1>5 DEF Lists, BackLinked, Placed, held
<1>9. OnTime(sp, up)'
  BY <1>1, <1>2 DEF Lists, OnTime, CalledAt, Distance
<1>10. \E fp, m : FreeList(fp, m)'
  BY <1>2, FreeListSame
<1> QED BY <1>4, <1>6, <1>7, <1>8, <1>9, <1>10 DEF WheelInv, Lists

\* timer_tick() turns to the first timer of the current spoke.
LEMMA BeginSpokeInv ==
    ASSUME WheelInv, BeginSpoke
    PROVE  WheelInv'
<1> USE DEF BeginSpoke
<1>1. PICK sp, ps, len, up : Lists(sp, ps, len, up)
  BY DEF WheelInv
<1>2. held' = held /\ Active' = Active /\ Freed' = Freed
  BY DEF held, Active, Freed
<1>3. curr \in Spokes /\ nxt[Head(curr)] \in Timers \cup {Null}
  BY CellsApart DEF WheelInv, WheelTyped
<1>4. WheelTyped' /\ InTick'
  BY <1>3 DEF WheelInv, WheelTyped, InTick
<1>5. \A s \in Spokes : First(s)' = First(s) /\ Front(s)' = Front(s)
                          /\ Front(s) # Null
  BY CellsApart DEF First, Front
<1>6. Placed(sp, ps, len)' /\ Turned(sp, ps, up)'
  BY <1>1, <1>2 DEF Lists, Placed, Turned
<1>7. Linked(sp, ps, len)'
  BY <1>1, <1>2, <1>5 DEF Lists, Linked
<1>8. BackLinked(sp, ps)'
  <2>1. \A x \in held : sp[x] \in Spokes
    BY <1>1 DEF Lists, Placed, held
  <2> QED BY <1>1, <1>2, <1>5, <2>1 DEF Lists, BackLinked
<1>9. OnTime(sp, up)'
  BY <1>1, <1>2 DEF Lists, OnTime, CalledAt, Distance
<1>10. \E fp, m : FreeList(fp, m)'
  BY <1>2, FreeListSame
<1> QED BY <1>4, <1>6, <1>7, <1>8, <1>9, <1>10 DEF WheelInv, Lists

\* The timer that is called is the first of the current spoke, with no turns
\* to go.
LEMMA ExpiredFirst ==
    ASSUME WheelInv, tpc = "scan", t # Null,
           NEW sp, NEW ps, NEW len, NEW up, Lists(sp, ps, len, up)
    PROVE  /\ t \in held /\ sp[t] = curr /\ ps[t] = 1 /\ delta[t] = up[t]
           /\ len[curr] >= 1 /\ curr \in Spokes /\ len[curr] \in Nat
<1>1. curr \in Spokes /\ First(curr) = t
  BY DEF WheelInv, WheelTyped, First
<1>2. len[curr] # 0 /\ len[curr] \in Nat
  BY <1>1 DEF Lists, Linked, Placed
<1>3. t \in held /\ sp[t] = curr /\ ps[t] = 1
  BY <1>1, <1>2 DEF Lists, Linked
<1> QED BY <1>1, <1>2, <1>3 DEF Lists, Turned

\* What is known of the places, in one fact.
LEMMA Places ==
    ASSUME NEW sp, NEW ps, NEW len, NEW up, Lists(sp, ps, len, up)
    PROVE  /\ \A x \in held : /\ x \in Timers /\ sp[x] \in Spokes /\ ps[x] \in Nat
                              /\ ps[x] >= 1 /\ ps[x] <= len[sp[x]] /\ up[x] \in Nat
                              /\ len[sp[x]] \in Nat
           /\ \A s \in Spokes : len[s] \in Nat
           /\ \A x, y \in held : sp[x] = sp[y] /\ ps[x] = ps[y] => x = y
  BY DEF Lists, Placed, Turned, held

\* The first timer of the current spoke leaves its list: the places of the
\* others move up by one.
LEMMA CallInv ==
    ASSUME WheelInv, Call
    PROVE  WheelInv'
<1> USE DEF Call, Expired
<1>1. PICK sp, ps, len, up : Lists(sp, ps, len, up)
  BY DEF WheelInv
<1>2. /\ t \in held /\ sp[t] = curr /\ ps[t] = 1 /\ delta[t] = up[t]
      /\ len[curr] >= 1 /\ curr \in Spokes /\ len[curr] \in Nat /\ up[t] = 0
  BY <1>1, ExpiredFirst
<1>3. /\ \A x \in held : /\ x \in Timers /\ sp[x] \in Spokes /\ ps[x] \in Nat
                         /\ ps[x] >= 1 /\ ps[x] <= len[sp[x]] /\ up[x] \in Nat
                         /\ len[sp[x]] \in Nat
      /\ \A s \in Spokes : len[s] \in Nat
      /\ \A x, y \in held : sp[x] = sp[y] /\ ps[x] = ps[y] => x = y
  BY <1>1, Places
<1>4. /\ held' = held \ {t} /\ t \notin fresh /\ due' \in [Timers -> Nat] /\ due'[t] = Null
      /\ \A x \in Timers : x # t => due'[x] = due[x]
  BY <1>2, <1>3 DEF held, WheelInv, WheelTyped, InTick, Null
<1>5. Freed' = Freed
  BY <1>2, <1>4 DEF Freed, Active
<1>6. WheelTyped' /\ InTick'
  BY <1>2, <1>3, <1>4 DEF WheelInv, WheelTyped, InTick, Null
<1>7. PICK ls : ls = [len EXCEPT ![curr] = @ - 1]
  OBVIOUS
<1>8. PICK qs : qs = [x \in Timers |-> IF x \in held' /\ sp[x] = curr
                                       THEN ps[x] - 1 ELSE ps[x]]
  OBVIOUS
<1>9. \A x \in held' : x \in held /\ x # t /\ (sp[x] = curr => ps[x] >= 2)
                         /\ qs[x] = IF sp[x] = curr THEN ps[x] - 1 ELSE ps[x]
  BY <1>2, <1>3, <1>4, <1>8
<1>10. \A s \in Spokes : ls[s] = IF s = curr THEN len[s] - 1 ELSE len[s]
  BY <1>1, <1>2, <1>7 DEF Lists, Placed
<1>11. sp \in [Timers -> Spokes] /\ qs \in [Timers -> Nat] /\ ls \in [Spokes -> Nat]
  <2>1. sp \in [Timers -> Spokes] /\ ps \in [Timers -> Nat] /\ len \in [Spokes -> Nat]
    BY <1>1 DEF Lists, Placed
  <2>2. ASSUME NEW x \in Timers PROVE qs[x] \in Nat
    <3>1. ps[x] \in Nat
      BY <2>1
    <3>2. CASE x \in held'
      BY <1>9, <3>1, <3>2
    <3>3. CASE x \notin held'
      BY <1>8, <3>1, <3>3
    <3> QED BY <3>2, <3>3
  <2>3. \A s \in Spokes : ls[s] \in Nat
    BY <1>2, <1>10, <2>1
  <2>4. qs \in [Timers -> Nat]
    <3>1. qs = [x \in Timers |-> qs[x]]
      BY <1>8
    <3> QED BY <2>2, <3>1
  <2>5. ls \in [Spokes -> Nat]
    <3>1. ls = [s \in Spokes |-> ls[s]]
      BY <1>7, <2>1
    <3> QED BY <2>3, <3>1
  <2> QED BY <2>1, <2>4, <2>5
<1>12. Placed(sp, qs, ls)'
  <2>1. \A x \in held' : qs[x] \in 1 .. ls[sp[x]]
    BY <1>3, <1>9, <1>10
  <2>2. \A x, y \in held' : sp[x] = sp[y] /\ qs[x] = qs[y] => x = y
    BY <1>3, <1>9
  <2> QED BY <1>11, <2>1, <2>2 DEF Placed
<1>13. Linked(sp, qs, ls)'
  <2>1. \A x \in held' :
          IF qs[x] = ls[sp[x]] THEN nxt[x] = Null
          ELSE nxt[x] \in held' /\ sp[nxt[x]] = sp[x] /\ qs[nxt[x]] = qs[x] + 1
    <3> SUFFICES ASSUME NEW x \in held'
                 PROVE  IF qs[x] = ls[sp[x]] THEN nxt[x] = Null
                        ELSE nxt[x] \in held' /\ sp[nxt[x]] = sp[x]
                               /\ qs[nxt[x]] = qs[x] + 1
      OBVIOUS
    <3>1. x \in held /\ x # t /\ (qs[x] = ls[sp[x]] <=> ps[x] = len[sp[x]])
      BY <1>3, <1>9, <1>10
    <3>2. CASE ps[x] = len[sp[x]]
      BY <1>1, <3>1, <3>2 DEF Lists, Linked
    <3>3. CASE ps[x] # len[sp[x]]
      <4>1. nxt[x] \in held /\ sp[nxt[x]] = sp[x] /\ ps[nxt[x]] = ps[x] + 1
        BY <1>1, <3>1, <3>3 DEF Lists, Linked
      <4>2. nxt[x] # t
        BY <1>2, <1>3, <3>1, <4>1
      <4>3. nxt[x] \in held'
        BY <1>4, <4>1, <4>2
      <4> QED BY <1>3, <1>9, <3>1, <3>3, <4>1, <4>3
    <3> QED BY <3>2, <3>3
  <2>2. ASSUME NEW s \in Spokes
        PROVE  IF ls[s] = 0 THEN First(s)' = Null
               ELSE First(s)' \in held' /\ sp[First(s)'] = s /\ qs[First(s)'] = 1
    <3>1. CASE s # curr
      <4>1. First(s)' = First(s) /\ ls[s] = len[s]
        BY <1>10, <3>1 DEF First
      <4>2. CASE len[s] = 0
        BY <1>1, <4>1, <4>2 DEF Lists, Linked
      <4>3. CASE len[s] # 0
        <5>1. First(s) \in held /\ sp[First(s)] = s /\ ps[First(s)] = 1
          BY <1>1, <4>3 DEF Lists, Linked
        <5>2. First(s) \in held'
          BY <1>2, <1>4, <3>1, <5>1
        <5> QED BY <1>9, <3>1, <4>1, <4>3, <5>1, <5>2
      <4> QED BY <4>2, <4>3
    <3>2. CASE s = curr
      <4>1. First(s)' = nxt[t] /\ ls[s] = len[s] - 1
        BY <1>10, <3>2 DEF First
      <4>2. CASE len[s] = 1
        <5>1. nxt[t] = Null
          BY <1>1, <1>2, <3>2, <4>2 DEF Lists, Linked
        <5> QED BY <4>1, <4>2, <5>1
      <4>3. CASE len[s] # 1
        <5>1. nxt[t] \in held /\ sp[nxt[t]] = curr /\ ps[nxt[t]] = 2
          BY <1>1, <1>2, <3>2, <4>3 DEF Lists, Linked
        <5>2. nxt[t] \in held'
          BY <1>2, <1>4, <5>1
        <5>3. qs[nxt[t]] = 1
          BY <1>9, <5>1, <5>2
        <5>4. ls[s] # 0
          BY <1>2, <3>2, <4>1, <4>3
        <5> QED BY <3>2, <4>1, <5>1, <5>2, <5>3, <5>4
      <4> QED BY <4>2, <4>3
    <3> QED BY <3>1, <3>2
  <2>3. nxt' = nxt
    OBVIOUS
  <2> QED BY <2>1, <2>2, <2>3 DEF Linked
<1>14. BackLinked(sp, qs)'
  <2> SUFFICES ASSUME NEW x \in held'
               PROVE  IF qs[x] = 1 THEN prv[x] = Front(sp[x])'
                      ELSE prv[x] \in held' /\ sp[prv[x]] = sp[x]
                             /\ qs[prv[x]] = qs[x] - 1
    BY DEF BackLinked
  <2>1. x \in held /\ x # t /\ (sp[x] = curr => ps[x] >= 2)
         /\ qs[x] = IF sp[x] = curr THEN ps[x] - 1 ELSE ps[x]
    BY <1>9
  <2>2. CASE ps[x] = 1
    <3>1. prv[x] = Front(sp[x]) /\ sp[x] # curr
      BY <1>1, <2>1, <2>2 DEF Lists, BackLinked
    <3> QED BY <2>1, <2>2, <3>1 DEF Front
  <2>3. CASE ps[x] # 1
    <3>1. prv[x] \in held /\ sp[prv[x]] = sp[x] /\ ps[prv[x]] = ps[x] - 1
      BY <1>1, <2>1, <2>3 DEF Lists, BackLinked
    <3>2. CASE prv[x] = t
      <4>1. sp[x] = curr /\ ps[x] = 2
        BY <1>2, <1>3, <2>1, <3>1, <3>2
      <4> QED BY <2>1, <3>2, <4>1 DEF Front
    <3>3. CASE prv[x] # t
      <4>1. prv[x] \in held'
        BY <1>4, <3>1, <3>3
      <4>2. ps[x] \in Nat /\ ps[prv[x]] \in Nat /\ ps[prv[x]] >= 1
            /\ (sp[x] = curr => ps[prv[x]] >= 2)
        BY <1>3, <1>9, <2>1, <3>1, <4>1
      <4> QED BY <1>9, <2>1, <3>1, <4>1, <4>2
    <3> QED BY <3>2, <3>3
  <2> QED BY <2>2, <2>3
<1>15. Turned(sp, qs, up)'
  <2>1. up \in [Timers -> Nat]
    BY <1>1 DEF Lists, Turned
  <2>2. \A x \in held' : qs[x] = 1 => delta[x] = up[x]
    <3> SUFFICES ASSUME NEW x \in held', qs[x] = 1 PROVE delta[x] = up[x]
      OBVIOUS
    <3>1. x \in held /\ up[x] \in Nat /\ ps[x] \in Nat
      BY <1>3, <1>9
    <3>2. CASE sp[x] = curr
      <4>1. ps[x] = ps[t] + 1
        BY <1>2, <1>9, <3>1, <3>2
      <4>2. delta[x] = up[x] - up[t]
        BY <1>1, <1>2, <3>1, <3>2, <4>1 DEF Lists, Turned
      <4> QED BY <1>2, <3>1, <4>2
    <3>3. CASE sp[x] # curr
      BY <1>1, <1>9, <3>1, <3>3 DEF Lists, Turned
    <3> QED BY <3>2, <3>3
  <2>3. ASSUME NEW x \in held', NEW y \in held', sp[x] = sp[y]
        PROVE  /\ qs[y] = qs[x] + 1 => delta[y] = up[y] - up[x]
               /\ qs[x] <= qs[y] => up[x] <= up[y]
    <3>1. x \in held /\ y \in held /\ ps[x] \in Nat /\ ps[y] \in Nat
      BY <1>3, <1>9
    <3>2. (qs[y] = qs[x] + 1 => ps[y] = ps[x] + 1) /\ (qs[x] <= qs[y] => ps[x] <= ps[y])
      BY <1>9, <2>3, <3>1
    <3> QED BY <1>1, <2>3, <3>1, <3>2 DEF Lists, Turned
  <2>4. delta' = delta
    OBVIOUS
  <2> QED BY <2>1, <2>2, <2>3, <2>4 DEF Turned
<1>16. OnTime(sp, up)'
  BY <1>1, <1>3, <1>4 DEF Lists, OnTime, CalledAt, Distance
<1>17. \E fp, m : FreeList(fp, m)'
  BY <1>5, FreeListSame
<1> QED BY <1>6, <1>12, <1>13, <1>14, <1>15, <1>16, <1>17 DEF WheelInv, Lists

\* The timer that was called goes to the free list.
LEMMA CallReturnsInv ==
    ASSUME WheelInv, CallReturns
    PROVE  WheelInv'
<1> USE DEF CallReturns
<1>1. PICK sp, ps, len, up : Lists(sp, ps, len, up)
  BY DEF WheelInv
<1>2. t \in Timers /\ t # Null /\ t \notin held /\ t \notin fresh /\ t \in Cells
  BY CellsApart DEF WheelInv, InTick, held
<1>3. held' = held /\ Freed' = Freed \cup {t} /\ t \notin Freed /\ Freed \subseteq Timers
  BY <1>2 DEF held, Active, Freed
<1>4. /\ nxt' \in [Cells -> Timers \cup {Null}] /\ prv' \in [Cells -> Cells \cup {Null}]
      /\ nxt'[t] = free /\ \A c \in Cells : c # t => nxt'[c] = nxt[c] /\ prv'[c] = prv[c]
  BY <1>2 DEF WheelInv, WheelTyped
<1>5. \A x \in held : x # t /\ x \in Cells /\ x \in Timers
  BY <1>2, CellsApart, HeldTimers
<1>6. nxt[t] \in Timers \cup {Null}
  BY <1>2 DEF WheelInv, WheelTyped
<1>7. WheelTyped' /\ InTick'
  BY <1>2, <1>4, <1>6 DEF WheelInv, WheelTyped, InTick
<1>8. ASSUME NEW s \in Spokes PROVE First(s)' = First(s)
  <2>1. Head(s) \in Cells /\ Head(s) # t
    BY <1>2, CellsApart
  <2> QED BY <1>4, <2>1 DEF First
<1>9. Placed(sp, ps, len)' /\ Turned(sp, ps, up)'
  BY <1>1, <1>3 DEF Lists, Placed, Turned
<1>10. Linked(sp, ps, len)'
  BY <1>1, <1>3, <1>4, <1>5, <1>8 DEF Lists, Linked
<1>11. BackLinked(sp, ps)'
  <2> SUFFICES ASSUME NEW x \in held
               PROVE  IF ps[x] = 1
                      THEN IF sp[x] = curr THEN prv[x] # Null
                           ELSE prv[x] = Head(sp[x])
                      ELSE prv[x] \in held /\ sp[prv[x]] = sp[x]
                             /\ ps[prv[x]] = ps[x] - 1
    BY <1>3, <1>4, <1>5 DEF BackLinked, Front
  <2> QED BY <1>1, <1>2 DEF Lists, BackLinked, Front
<1>12. OnTime(sp, up)'
  BY <1>1, <1>3 DEF Lists, OnTime, CalledAt, Distance
<1>13. \A y \in Freed : nxt'[y] = nxt[y]
  BY <1>3, <1>4, CellsApart
<1>14. \E fp, m : FreeList(fp, m)'
  BY <1>2, <1>3, <1>4, <1>13, FreeListPush
<1> QED BY <1>7, <1>9, <1>10, <1>11, <1>12, <1>14 DEF WheelInv, Lists

\* A turn of the wheel takes a turn from the timers of the spoke it leaves.
LEMMA TurnsLess ==
    ASSUME NEW u \in Nat, u >= 1
    PROVE  WheelSize + WheelSize * (u - 1) = WheelSize * u
<1> DEFINE w == WheelSize
<1>1. w \in Nat
  BY WheelSizes
<1> HIDE DEF w
<1>2. w + w * (u - 1) = w * u
  BY <1>1
<1> QED BY <1>2 DEF w

\* The timers timer_tick() leaves in the spoke have a turn less to go, and the
\* other spokes are a tick nearer.
LEMMA EndSpokeInv ==
    ASSUME WheelInv, EndSpoke
    PROVE  WheelInv'
<1> USE DEF EndSpoke
<1>1. PICK sp, ps, len, up : Lists(sp, ps, len, up)
  BY DEF WheelInv
<1>2. t # Null => /\ t \in held /\ sp[t] = curr /\ ps[t] = 1 /\ delta[t] = up[t]
                  /\ up[t] # 0
  BY <1>1, ExpiredFirst DEF Expired
<1>3. /\ \A x \in held : /\ x \in Timers /\ sp[x] \in Spokes /\ ps[x] \in Nat
                         /\ ps[x] >= 1 /\ ps[x] <= len[sp[x]] /\ up[x] \in Nat
                         /\ len[sp[x]] \in Nat
      /\ \A s \in Spokes : len[s] \in Nat
      /\ \A x, y \in held : sp[x] = sp[y] /\ ps[x] = ps[y] => x = y
  BY <1>1, Places
<1>4. held' = held /\ Freed' = Freed /\ Freed \subseteq Timers
  BY DEF held, Active, Freed
<1>5. curr \in Spokes /\ curr' \in Spokes /\ Head(curr) \in Cells
      /\ \A x \in Timers : x # Head(curr) /\ x \in Cells
  BY NextSpoke, CellsApart DEF WheelInv, WheelTyped
<1>6. /\ nxt' \in [Cells -> Timers \cup {Null}] /\ prv' \in [Cells -> Cells \cup {Null}]
      /\ delta' \in [Timers -> Int]
      /\ nxt'[Head(curr)] = t /\ \A c \in Cells : c # Head(curr) => nxt'[c] = nxt[c]
      /\ \A c \in Cells : prv'[c] = IF c = t THEN Head(curr) ELSE prv[c]
      /\ \A x \in Timers : delta'[x] = IF x = t THEN delta[x] - 1 ELSE delta[x]
  <2>1. t \in Timers \cup {Null} /\ Null \notin Cells /\ Null \notin Timers
    BY CellsApart DEF WheelInv, WheelTyped
  <2>2. /\ nxt \in [Cells -> Timers \cup {Null}] /\ prv \in [Cells -> Cells \cup {Null}]
        /\ delta \in [Timers -> Int]
    BY DEF WheelInv, WheelTyped
  <2>3. CASE t = Null
    BY <1>5, <2>1, <2>2, <2>3
  <2>4. CASE t # Null
    <3>1. t \in Timers /\ t \in Cells /\ delta[t] - 1 \in Int
      BY <1>5, <2>1, <2>2, <2>4
    <3> QED BY <1>5, <2>1, <2>2, <2>4, <3>1
  <2> QED BY <2>3, <2>4
<1>7. WheelTyped' /\ InTick'
  <2>1. nextTick' \in 1 .. now' + 1
    BY DEF WheelInv, WheelTyped, InTick
  <2> QED BY <1>5, <1>6, <2>1 DEF WheelInv, WheelTyped, InTick
<1>8. ASSUME NEW s \in Spokes PROVE First(s)' = First(s)
  <2>1. First(s)' = nxt'[Head(s)]
    BY DEF First
  <2>2. CASE s = curr
    BY <1>6, <2>1, <2>2 DEF First
  <2>3. CASE s # curr
    <3>1. Head(s) # Head(curr) /\ Head(s) \in Cells
      BY <1>5, <2>3, CellsApart
    <3> QED BY <1>6, <2>1, <2>3, <3>1 DEF First
  <2> QED BY <2>2, <2>3
<1>9. ASSUME NEW x \in held, sp[x] = curr PROVE up[x] >= 1 /\ (ps[x] = 1 => x = t)
  <2>1. len[curr] # 0
    BY <1>3, <1>9
  <2>2. First(curr) = t
    BY DEF First
  <2>3. t \in held /\ sp[t] = curr /\ ps[t] = 1
    BY <1>1, <1>5, <2>1, <2>2 DEF Lists, Linked
  <2>4. up[t] # 0
    BY <1>2, <2>3, <1>3, CellsApart
  <2>5. up[t] <= up[x] /\ up[t] \in Nat
    BY <1>1, <1>3, <1>9, <2>3 DEF Lists, Turned
  <2> QED BY <1>3, <1>9, <2>3, <2>4, <2>5
<1>10. PICK us : us = [x \in Timers |-> IF x \in held /\ sp[x] = curr
                                        THEN up[x] - 1 ELSE up[x]]
  OBVIOUS
<1>11. \A x \in held : us[x] = IF sp[x] = curr THEN up[x] - 1 ELSE up[x]
  BY <1>3, <1>10
<1>12. us \in [Timers -> Nat]
  <2>1. up \in [Timers -> Nat]
    BY <1>1 DEF Lists, Turned
  <2>2. ASSUME NEW x \in Timers PROVE us[x] \in Nat
    <3>1. up[x] \in Nat
      BY <2>1
    <3>2. CASE x \in held /\ sp[x] = curr
      BY <1>9, <1>11, <3>1, <3>2
    <3>3. CASE ~(x \in held /\ sp[x] = curr)
      BY <1>10, <3>1, <3>3
    <3> QED BY <3>2, <3>3
  <2>3. us = [x \in Timers |-> us[x]]
    BY <1>10
  <2> QED BY <2>2, <2>3
<1>13. Placed(sp, ps, len)'
  BY <1>1, <1>4 DEF Lists, Placed
<1>14. Linked(sp, ps, len)'
  <2>1. \A x \in held : nxt'[x] = nxt[x]
    BY <1>3, <1>5, <1>6
  <2> QED BY <1>1, <1>4, <1>8, <2>1 DEF Lists, Linked
<1>15. BackLinked(sp, ps)'
  <2> SUFFICES ASSUME NEW x \in held
               PROVE  IF ps[x] = 1 THEN prv'[x] = Head(sp[x])
                      ELSE prv'[x] \in held /\ sp[prv'[x]] = sp[x]
                             /\ ps[prv'[x]] = ps[x] - 1
    BY <1>4 DEF BackLinked, Front
  <2>1. x \in Timers /\ x \in Cells
    BY <1>3, <1>5
  <2>2. CASE x = t
    <3>1. x # Null
      BY <2>1, CellsApart
    <3> QED BY <1>2, <1>6, <2>1, <2>2, <3>1
  <2>3. CASE x # t
    <3>1. prv'[x] = prv[x]
      BY <1>6, <2>1, <2>3
    <3>2. ps[x] = 1 => sp[x] # curr
      BY <1>9, <2>3
    <3> QED BY <1>1, <3>1, <3>2 DEF Lists, BackLinked, Front
  <2> QED BY <2>2, <2>3
<1>16. Turned(sp, ps, us)'
  <2>1. ASSUME NEW x \in held, ps[x] = 1 PROVE delta'[x] = us[x]
    <3>1. delta[x] = up[x] /\ x \in Timers /\ up[x] \in Nat
      BY <1>1, <1>3, <2>1 DEF Lists, Turned
    <3>2. CASE sp[x] = curr
      BY <1>6, <1>9, <1>11, <2>1, <3>1, <3>2
    <3>3. CASE sp[x] # curr
      <4>1. x # t
        BY <1>2, <3>1, <3>3, CellsApart
      <4> QED BY <1>6, <1>11, <3>1, <3>3, <4>1
    <3> QED BY <3>2, <3>3
  <2>2. ASSUME NEW x \in held, NEW y \in held, sp[x] = sp[y]
        PROVE  /\ ps[y] = ps[x] + 1 => delta'[y] = us[y] - us[x]
               /\ ps[x] <= ps[y] => us[x] <= us[y]
    <3>1. /\ ps[y] = ps[x] + 1 => delta[y] = up[y] - up[x]
          /\ ps[x] <= ps[y] => up[x] <= up[y]
      BY <1>1, <2>2 DEF Lists, Turned
    <3>2. us[x] \in Nat /\ us[y] \in Nat /\ up[x] \in Nat /\ up[y] \in Nat
          /\ us[y] - us[x] = up[y] - up[x] /\ (us[x] <= us[y] <=> up[x] <= up[y])
      BY <1>3, <1>11, <1>12, <2>2
    <3>3. ps[y] = ps[x] + 1 => y # t
      BY <1>2, <1>3, CellsApart
    <3>4. y # t => delta'[y] = delta[y]
      BY <1>3, <1>6
    <3> QED BY <3>1, <3>2, <3>3, <3>4
  <2> QED BY <1>4, <1>12, <2>1, <2>2 DEF Turned
<1>17. OnTime(sp, us)'
  <2> SUFFICES ASSUME NEW x \in held
               PROVE  CalledAt(x, sp, us)' = CalledAt(x, sp, up)
    BY <1>1, <1>4 DEF Lists, OnTime
  <2>1. /\ sp[x] \in Spokes /\ up[x] \in Nat /\ nextTick \in Int /\ nextTick' = nextTick + 1
        /\ WheelSize \in Nat
    BY <1>3, WheelSizes DEF WheelInv, WheelTyped
  <2>2. /\ Distance(sp[x])' = IF sp[x] = curr THEN WheelSize - 1 ELSE Distance(sp[x]) - 1
        /\ Distance(sp[x]) \in Int /\ (sp[x] = curr => Distance(sp[x]) = 0)
    <3> DEFINE r == (sp[x] - curr) % WheelSize
               e == (curr + 1) % WheelSize
               d == (sp[x] - e) % WheelSize
    <3>1. d = (IF sp[x] = curr THEN WheelSize - 1 ELSE r - 1)
          /\ r \in 0 .. WheelSize - 1 /\ (r = 0 <=> sp[x] = curr)
      BY <1>5, <2>1, NextSpoke
    <3>2. curr' = e
      OBVIOUS
    <3>3. Distance(sp[x]) = r /\ Distance(sp[x])' = d
      BY <3>2 DEF Distance
    <3> HIDE DEF r, e, d
    <3> QED BY <2>1, <3>1, <3>3
  <2>3. CASE sp[x] = curr
    <3>1. up[x] >= 1 /\ us[x] = up[x] - 1
      BY <1>9, <1>11, <2>3
    <3>2. WheelSize + WheelSize * us[x] = WheelSize * up[x]
      BY <2>1, <3>1, TurnsLess
    <3>3. WheelSize * us[x] \in Int
      <4> DEFINE w == WheelSize
                 u == us[x]
      <4>1. w \in Nat /\ u \in Nat
        BY <1>3, <1>12, <2>1
      <4> HIDE DEF w, u
      <4>2. w * u \in Int
        BY <4>1
      <4> QED BY <4>2 DEF w, u
    <3>4. CalledAt(x, sp, us)' = (nextTick + 1) + (WheelSize - 1) + WheelSize * us[x]
      BY <2>1, <2>2, <2>3 DEF CalledAt
    <3>5. CalledAt(x, sp, up) = nextTick + 0 + WheelSize * up[x]
      BY <2>2, <2>3 DEF CalledAt
    <3> DEFINE mult == WheelSize * us[x]
    <3> HIDE DEF mult
    <3> QED BY <2>1, <3>2, <3>3, <3>4, <3>5 DEF mult
  <2>4. CASE sp[x] # curr
    <3>1. us[x] = up[x]
      BY <1>11, <2>4
    <3> QED BY <2>1, <2>2, <2>4, <3>1 DEF CalledAt
  <2> QED BY <2>3, <2>4
<1>18. \A x \in Freed : nxt'[x] = nxt[x]
  BY <1>4, <1>5, <1>6
<1>19. \E fp, m : FreeList(fp, m)'
  BY <1>4, <1>18, FreeListSame
<1> QED BY <1>7, <1>13, <1>14, <1>15, <1>16, <1>17, <1>19 DEF WheelInv, Lists

-----------------------------------------------------------------------------
(* timer_cancel() and timer_schedule() keep them *)

\* Between callbacks' instructions, q.next of the cell in front of a list is
\* its first timer.
LEMMA Fronts ==
    ASSUME WheelInv, tpc \in {"idle", "callback"}
    PROVE  /\ \A r \in Spokes : /\ Front(r) \in Cells /\ First(r) = nxt[Front(r)]
                                /\ Front(r) \notin held /\ Front(r) \notin Freed
                                /\ Front(r) \notin fresh /\ Front(r) # Null
           /\ \A r, s \in Spokes : Front(r) = Front(s) => r = s
<1>1. \A r \in Spokes : Head(r) \in Cells /\ Head(r) \notin Timers
  BY CellsApart
<1>2. tpc = "callback" => t \in Timers /\ t \in Cells /\ t \notin held
                            /\ t \notin Freed /\ t \notin fresh
  BY CellsApart DEF WheelInv, InTick, held, Freed, Active
<1>3. held \subseteq Timers /\ Freed \subseteq Timers /\ fresh \subseteq Timers
  BY DEF held, Freed, WheelInv, WheelTyped
<1> QED BY <1>1, <1>2, <1>3, CellsApart DEF Front, First

\* A cancelled timer leaves its list: those after it move up, and the next one
\* gets its turns.
LEMMA CancelInv ==
    ASSUME WheelInv, tpc \in {"idle", "callback"}, NEW x \in Timers, timer_cancel(x)
    PROVE  WheelInv'
<1> USE DEF timer_cancel
<1>1. PICK sp, ps, len, up : Lists(sp, ps, len, up)
  BY DEF WheelInv
<1> DEFINE s == sp[x]
           j == ps[x]
           c0 == prv[x]
<1>2. /\ \A y \in held : /\ y \in Timers /\ sp[y] \in Spokes /\ ps[y] \in Nat
                         /\ ps[y] >= 1 /\ ps[y] <= len[sp[y]] /\ up[y] \in Nat
                         /\ len[sp[y]] \in Nat
      /\ \A r \in Spokes : len[r] \in Nat
      /\ \A y, z \in held : sp[y] = sp[z] /\ ps[y] = ps[z] => y = z
  BY <1>1, Places
<1>3. /\ \A r \in Spokes : /\ Front(r) \in Cells /\ First(r) = nxt[Front(r)]
                           /\ Front(r) \notin held /\ Front(r) \notin Freed
      /\ \A r, q \in Spokes : Front(r) = Front(q) => r = q
  BY Fronts
<1>4. x \in held /\ x \in Cells /\ s \in Spokes /\ j \in Nat /\ j >= 1
      /\ x \notin Freed /\ x \notin fresh /\ x \notin Active
  BY <1>2, CellsApart DEF Freed, WheelInv, InTick, held, Active
<1>5. IF j = 1 THEN c0 = Front(s) ELSE c0 \in held /\ sp[c0] = s /\ ps[c0] = j - 1
  BY <1>1, <1>4 DEF Lists, BackLinked
<1>6. c0 \in Cells /\ c0 # x /\ c0 \notin Freed
  <2>1. \A y \in held : y \notin Freed /\ y \in Cells
    BY <1>2, CellsApart DEF Freed
  <2>2. CASE j = 1
    BY <1>3, <1>4, <1>5, <2>2
  <2>3. CASE j # 1
    BY <1>4, <1>5, <2>1, <2>3
  <2> QED BY <2>2, <2>3
<1>7. /\ held' = held \ {x} /\ due' \in [Timers -> Nat]
      /\ \A y \in Timers : y # x => due'[y] = due[y]
      /\ due'[x] = Null
  BY <1>4 DEF held, WheelInv, WheelTyped, Null
<1>8. Freed' = Freed \cup {x} /\ Freed \subseteq Timers
  BY <1>4, <1>7 DEF Freed, Active
<1>9. /\ nxt' \in [Cells -> Timers \cup {Null}] /\ prv' \in [Cells -> Cells \cup {Null}]
      /\ delta' \in [Timers -> Int]
      /\ \A c \in Cells : nxt'[c] = IF c = x THEN free ELSE IF c = c0 THEN nxt[x] ELSE nxt[c]
  <2>1. /\ nxt \in [Cells -> Timers \cup {Null}] /\ prv \in [Cells -> Cells \cup {Null}]
        /\ delta \in [Timers -> Int] /\ free \in Timers \cup {Null}
    BY DEF WheelInv, WheelTyped
  <2>2. nxt' \in [Cells -> Timers \cup {Null}]
    BY <1>4, <1>6, <2>1
  <2>3. prv' \in [Cells -> Cells \cup {Null}]
    BY <1>4, <1>6, <2>1
  <2>4. delta' \in [Timers -> Int]
    BY <1>4, <2>1
  <2>5. \A c \in Cells : nxt'[c] = IF c = x THEN free ELSE IF c = c0 THEN nxt[x] ELSE nxt[c]
    BY <1>4, <1>6, <2>1
  <2> QED BY <2>2, <2>3, <2>4, <2>5
<1>10. WheelTyped' /\ InTick'
  <2>1. tpc = "callback" => delta'[t] = delta[t]
    <3> SUFFICES ASSUME tpc = "callback" PROVE t # nxt[x] /\ t \in Timers
      BY DEF WheelInv, WheelTyped
    <3>1. t \in Timers /\ t \notin held /\ t # Null
      BY <1>2, CellsApart DEF WheelInv, InTick, held
    <3>2. nxt[x] = Null \/ nxt[x] \in held
      BY <1>1, <1>4 DEF Lists, Linked
    <3> QED BY <3>1, <3>2
  <2>2. InTick'
    <3>1. tpc = "callback" => t \in Timers /\ due'[t] = Null /\ t \notin fresh
                                /\ delta'[t] = 0
      BY <1>7, <2>1 DEF WheelInv, InTick
    <3>2. \A y \in fresh : due'[y] = Null
      BY <1>4, <1>7 DEF WheelInv, WheelTyped, InTick
    <3> QED BY <3>1, <3>2 DEF WheelInv, InTick
  <2> QED BY <1>7, <1>9, <2>2 DEF WheelInv, WheelTyped
<1>11. PICK ls : ls = [len EXCEPT ![s] = @ - 1]
  OBVIOUS
<1>12. PICK qs : qs = [y \in Timers |-> IF y \in held' /\ sp[y] = s /\ ps[y] > j
                                        THEN ps[y] - 1 ELSE ps[y]]
  OBVIOUS
<1>13. \A y \in held' : /\ y \in held /\ y # x /\ (sp[y] = s => ps[y] # j)
                        /\ qs[y] = IF sp[y] = s /\ ps[y] > j THEN ps[y] - 1 ELSE ps[y]
  BY <1>2, <1>4, <1>7, <1>12
<1>14. \A r \in Spokes : ls[r] = IF r = s THEN len[r] - 1 ELSE len[r]
  BY <1>1, <1>4, <1>11 DEF Lists, Placed
<1>15. sp \in [Timers -> Spokes] /\ qs \in [Timers -> Nat] /\ ls \in [Spokes -> Nat]
  <2>1. sp \in [Timers -> Spokes] /\ ps \in [Timers -> Nat] /\ len \in [Spokes -> Nat]
    BY <1>1 DEF Lists, Placed
  <2>2. ASSUME NEW y \in Timers PROVE qs[y] \in Nat
    <3>1. ps[y] \in Nat
      BY <2>1
    <3>2. CASE y \in held' /\ sp[y] = s /\ ps[y] > j
      <4>1. qs[y] = ps[y] - 1
        BY <1>13, <3>2
      <4> QED BY <1>4, <3>1, <3>2, <4>1
    <3>3. CASE ~(y \in held' /\ sp[y] = s /\ ps[y] > j)
      <4>1. qs[y] = ps[y]
        BY <1>12, <3>3
      <4> QED BY <3>1, <4>1
    <3> QED BY <3>2, <3>3
  <2>3. \A r \in Spokes : ls[r] \in Nat
    BY <1>2, <1>4, <1>14
  <2>4. qs \in [Timers -> Nat]
    <3>1. qs = [y \in Timers |-> qs[y]]
      BY <1>12
    <3> QED BY <2>2, <3>1
  <2>5. ls \in [Spokes -> Nat]
    <3>1. ls = [r \in Spokes |-> ls[r]]
      BY <1>11, <2>1
    <3> QED BY <2>3, <3>1
  <2> QED BY <2>1, <2>4, <2>5
<1> HIDE DEF s, j, c0
<1>16. Placed(sp, qs, ls)'
  <2>1. ASSUME NEW y \in held' PROVE qs[y] \in 1 .. ls[sp[y]]
    <3>1. /\ ps[y] \in Nat /\ ps[y] >= 1 /\ ps[y] <= len[sp[y]] /\ len[sp[y]] \in Nat
          /\ ps[x] <= len[s]
      BY <1>2, <1>4, <1>13 DEF s
    <3> QED BY <1>2, <1>4, <1>13, <1>14, <3>1 DEF j
  <2>2. \A y, z \in held' : sp[y] = sp[z] /\ qs[y] = qs[z] => y = z
    BY <1>2, <1>4, <1>13
  <2> QED BY <1>15, <2>1, <2>2 DEF Placed
<1>17. \A y \in held' : nxt'[y] = IF y = c0 THEN nxt[x] ELSE nxt[y]
  BY <1>2, <1>9, <1>13, CellsApart
<1>18. IF j = len[s] THEN nxt[x] = Null
       ELSE nxt[x] \in held' /\ sp[nxt[x]] = s /\ ps[nxt[x]] = j + 1
              /\ qs[nxt[x]] = j
  <2>1. IF j = len[s] THEN nxt[x] = Null
        ELSE nxt[x] \in held /\ sp[nxt[x]] = s /\ ps[nxt[x]] = j + 1
    BY <1>1, <1>4 DEF Lists, Linked, s, j
  <2>2. j # len[s] => nxt[x] \in held'
    BY <1>4, <1>7, <2>1 DEF j
  <2> QED BY <1>4, <1>13, <2>1, <2>2
<1>19. Linked(sp, qs, ls)'
  <2>1. ASSUME NEW y \in held'
        PROVE  IF qs[y] = ls[sp[y]] THEN nxt'[y] = Null
               ELSE nxt'[y] \in held' /\ sp[nxt'[y]] = sp[y] /\ qs[nxt'[y]] = qs[y] + 1
    <3>1. y \in held /\ y # x /\ ps[y] \in Nat /\ len[s] \in Nat /\ len[sp[y]] \in Nat
          /\ sp[y] \in Spokes
      BY <1>2, <1>4, <1>13
    <3>2. CASE y = c0
      <4>1. sp[y] = s /\ ps[y] = j - 1 /\ qs[y] = j - 1
        BY <1>3, <1>4, <1>5, <1>13, <3>1, <3>2
      <4>2. nxt'[y] = nxt[x] /\ ls[s] = len[s] - 1
        BY <1>4, <1>14, <1>17, <3>2
      <4> QED BY <1>4, <1>18, <3>1, <4>1, <4>2
    <3>3. CASE y # c0
      <4>1. nxt'[y] = nxt[y]
        BY <1>17, <3>3
      <4>2. ~(sp[y] = s /\ ps[y] = j - 1)
        BY <1>2, <1>3, <1>4, <1>5, <3>1, <3>3
      <4>3. CASE ps[y] = len[sp[y]]
        <5>1. nxt[y] = Null
          BY <1>1, <3>1, <4>3 DEF Lists, Linked
        <5>2. sp[y] = s => ps[y] > j
          <6>1. sp[y] = s => ps[y] # j /\ j <= len[s]
            BY <1>2, <1>4, <1>13 DEF j, s
          <6> QED BY <1>4, <3>1, <4>3, <6>1
        <5>3. qs[y] = ls[sp[y]]
          BY <1>13, <1>14, <3>1, <4>3, <5>2
        <5> QED BY <4>1, <5>1, <5>3
      <4>4. CASE ps[y] # len[sp[y]]
        <5>1. nxt[y] \in held /\ sp[nxt[y]] = sp[y] /\ ps[nxt[y]] = ps[y] + 1
          BY <1>1, <3>1, <4>4 DEF Lists, Linked
        <5>2. nxt[y] # x
          BY <1>4, <3>1, <4>2, <5>1 DEF s, j
        <5>3. nxt[y] \in held'
          BY <1>7, <5>1, <5>2
        <5>4. sp[y] = s => ps[y] # j /\ ps[y] + 1 # j /\ ps[nxt[y]] # j
          BY <1>13, <5>1, <5>3
        <5>5. qs[nxt[y]] = qs[y] + 1
          BY <1>4, <1>13, <3>1, <5>1, <5>3, <5>4
        <5>6. qs[y] # ls[sp[y]]
          <6>1. qs[nxt[y]] \in 1 .. ls[sp[y]] /\ ls[sp[y]] \in Nat /\ qs[y] \in Nat
            BY <1>15, <1>16, <3>1, <5>1, <5>3, <1>2 DEF Placed
          <6> QED BY <5>5, <6>1
        <5> QED BY <4>1, <5>1, <5>3, <5>5, <5>6
      <4> QED BY <4>3, <4>4
    <3> QED BY <3>2, <3>3
  <2>2. ASSUME NEW r \in Spokes
        PROVE  IF ls[r] = 0 THEN First(r)' = Null
               ELSE First(r)' \in held' /\ sp[First(r)'] = r /\ qs[First(r)'] = 1
    <3>1. First(r)' = nxt'[Front(r)] /\ Front(r) \in Cells /\ Front(r) # x
      BY <1>3, <1>4 DEF First, Front
    <3>2. CASE r = s /\ j = 1
      <4>1. First(r)' = nxt[x] /\ ls[r] = len[s] - 1 /\ len[s] \in Nat
        BY <1>2, <1>5, <1>9, <1>14, <3>1, <3>2
      <4> QED BY <1>4, <1>18, <3>2, <4>1
    <3>3. CASE ~(r = s /\ j = 1)
      <4>1. Front(r) # c0
        BY <1>3, <1>4, <1>5, <3>3
      <4>2. First(r)' = First(r)
        BY <1>3, <1>9, <3>1, <4>1
      <4>3. CASE len[r] = 0
        <5>1. r # s
          BY <1>2, <1>4, <4>3 DEF s, j
        <5> QED BY <1>1, <1>14, <4>2, <4>3, <5>1 DEF Lists, Linked
      <4>4. CASE len[r] # 0
        <5>1. First(r) \in held /\ sp[First(r)] = r /\ ps[First(r)] = 1
          BY <1>1, <4>4 DEF Lists, Linked
        <5>2. First(r) # x
          BY <3>3, <5>1 DEF s, j
        <5>3. First(r) \in held' /\ qs[First(r)] = 1
          BY <1>4, <1>7, <1>13, <5>1, <5>2
        <5>4. ls[r] # 0
          <6>1. r = s => len[r] # 1
            BY <1>2, <1>4, <3>3 DEF s, j
          <6> QED BY <1>2, <1>14, <4>4, <6>1
        <5> QED BY <4>2, <5>1, <5>3, <5>4
      <4> QED BY <4>3, <4>4
    <3> QED BY <3>2, <3>3
  <2> QED BY <2>1, <2>2 DEF Linked
<1>20. BackLinked(sp, qs)'
  <2> SUFFICES ASSUME NEW y \in held'
               PROVE  IF qs[y] = 1 THEN prv'[y] = Front(sp[y])
                      ELSE prv'[y] \in held' /\ sp[prv'[y]] = sp[y]
                             /\ qs[prv'[y]] = qs[y] - 1
    BY DEF BackLinked, Front
  <2>1. y \in held /\ y # x /\ y \in Cells /\ y # Null /\ ps[y] \in Nat /\ ps[y] >= 1
    BY <1>2, <1>13, CellsApart
  <2>2. prv'[y] = IF y = nxt[x] THEN c0 ELSE prv[y]
    BY <2>1 DEF c0
  <2>3. CASE y = nxt[x]
    <3>1. sp[y] = s /\ ps[y] = j + 1 /\ qs[y] = j /\ prv'[y] = c0
      BY <1>18, <2>1, <2>2, <2>3
    <3>2. CASE j = 1
      BY <1>5, <3>1, <3>2
    <3>3. CASE j # 1
      <4>1. c0 \in held' /\ sp[c0] = s /\ ps[c0] = j - 1
        BY <1>5, <1>6, <1>7, <3>3 DEF c0
      <4>2. qs[c0] = j - 1
        BY <1>4, <1>13, <4>1
      <4> QED BY <3>1, <3>3, <4>1, <4>2
    <3> QED BY <3>2, <3>3
  <2>4. CASE y # nxt[x]
    <3>1. ~(sp[y] = s /\ ps[y] = j + 1)
      <4> SUFFICES ASSUME sp[y] = s, ps[y] = j + 1 PROVE FALSE
        OBVIOUS
      <4>1. j # len[s]
        BY <1>2, <1>4, <2>1
      <4>2. nxt[x] \in held /\ sp[nxt[x]] = s /\ ps[nxt[x]] = j + 1
        BY <1>13, <1>18, <4>1
      <4> QED BY <1>2, <2>1, <2>4, <4>2
    <3>2. CASE ps[y] = 1
      <4>1. prv[y] = Front(sp[y])
        BY <1>1, <2>1, <3>2 DEF Lists, BackLinked
      <4>2. qs[y] = 1
        BY <1>4, <1>13, <3>2
      <4> QED BY <2>2, <2>4, <4>1, <4>2
    <3>3. CASE ps[y] # 1
      <4>1. prv[y] \in held /\ sp[prv[y]] = sp[y] /\ ps[prv[y]] = ps[y] - 1
        BY <1>1, <2>1, <3>3 DEF Lists, BackLinked
      <4>2. prv[y] # x
        BY <2>1, <3>1, <4>1 DEF s, j
      <4>3. prv[y] \in held'
        BY <1>7, <4>1, <4>2
      <4>4. sp[y] = s => ps[y] # j /\ ps[prv[y]] # j
        BY <1>13, <4>1, <4>3
      <4>5. qs[prv[y]] = qs[y] - 1 /\ qs[y] # 1
        BY <1>4, <1>13, <2>1, <3>1, <3>3, <4>1, <4>3, <4>4
      <4> QED BY <2>2, <2>4, <4>1, <4>3, <4>5
    <3> QED BY <3>2, <3>3
  <2> QED BY <2>3, <2>4
<1>21. Turned(sp, qs, up)'
  <2>1. up \in [Timers -> Nat]
    BY <1>1 DEF Lists, Turned
  <2>2. ASSUME NEW y \in held'
        PROVE  /\ delta'[y] = IF y = nxt[x] THEN delta[y] + delta[x] ELSE delta[y]
               /\ y \in held /\ ps[y] \in Nat /\ up[y] \in Nat /\ ps[y] >= 1 /\ y # x
    BY <1>2, <1>13
  <2>3. up[x] \in Nat
    BY <1>2, <1>4
  <2>4. ASSUME NEW y \in held', qs[y] = 1 PROVE delta'[y] = up[y]
    <3>1. CASE y = nxt[x]
      <4>1. sp[y] = s /\ ps[y] = j + 1 /\ j = 1
        BY <1>18, <2>2, <2>4, <3>1, CellsApart, <1>2
      <4>2. delta[x] = up[x] /\ delta[y] = up[y] - up[x]
        BY <1>1, <1>4, <2>2, <4>1 DEF Lists, Turned, s, j
      <4> QED BY <2>2, <2>3, <3>1, <4>2
    <3>2. CASE y # nxt[x]
      <4>1. ps[y] = 1
        <5> SUFFICES ASSUME ps[y] # 1 PROVE FALSE
          OBVIOUS
        <5>1. sp[y] = s /\ ps[y] = 2 /\ j = 1
          BY <1>4, <1>13, <2>2, <2>4
        <5>2. j # len[s]
          BY <1>2, <1>4, <2>2, <5>1
        <5>3. nxt[x] \in held /\ sp[nxt[x]] = s /\ ps[nxt[x]] = 2
          BY <1>13, <1>18, <5>1, <5>2
        <5> QED BY <1>2, <2>2, <3>2, <5>1, <5>3
      <4> QED BY <1>1, <2>2, <3>2, <4>1 DEF Lists, Turned
    <3> QED BY <3>1, <3>2
  <2>5. ASSUME NEW y \in held', NEW z \in held', sp[y] = sp[z], qs[z] = qs[y] + 1
        PROVE  delta'[z] = up[z] - up[y]
    <3>1. CASE z = nxt[x]
      <4>1. sp[z] = s /\ ps[z] = j + 1 /\ qs[z] = j
        BY <1>18, <2>2, <3>1, CellsApart, <1>2
      <4>2. ps[y] = j - 1
        BY <1>4, <1>13, <2>2, <2>5, <4>1
      <4>3. delta[x] = up[x] - up[y] /\ delta[z] = up[z] - up[x]
        <5>1. ps[x] = ps[y] + 1 /\ ps[z] = ps[x] + 1 /\ sp[x] = sp[y] /\ sp[x] = sp[z]
          BY <1>4, <2>2, <2>5, <4>1, <4>2 DEF s, j
        <5> QED BY <1>1, <1>4, <2>2, <5>1 DEF Lists, Turned
      <4> QED BY <2>2, <2>3, <3>1, <4>3
    <3>2. CASE z # nxt[x]
      <4>1. ~(sp[z] = s /\ ps[z] = j + 1)
        <5> SUFFICES ASSUME sp[z] = s, ps[z] = j + 1 PROVE FALSE
          OBVIOUS
        <5>1. j # len[s]
          BY <1>2, <1>4, <2>2
        <5>2. nxt[x] \in held /\ sp[nxt[x]] = s /\ ps[nxt[x]] = j + 1
          BY <1>13, <1>18, <5>1
        <5> QED BY <1>2, <2>2, <3>2, <5>2
      <4>2. ps[z] = ps[y] + 1
        BY <1>4, <1>13, <2>2, <2>5, <4>1
      <4> QED BY <1>1, <2>2, <2>5, <3>2, <4>2 DEF Lists, Turned
    <3> QED BY <3>1, <3>2
  <2>6. ASSUME NEW y \in held', NEW z \in held', sp[y] = sp[z], qs[y] <= qs[z]
        PROVE  up[y] <= up[z]
    <3>1. ps[y] <= ps[z]
      BY <1>4, <1>13, <2>2, <2>6
    <3> QED BY <1>1, <2>2, <2>6, <3>1 DEF Lists, Turned
  <2> QED BY <2>1, <2>4, <2>5, <2>6 DEF Turned
<1>22. OnTime(sp, up)'
  BY <1>1, <1>2, <1>7, <1>13 DEF Lists, OnTime, CalledAt, Distance
<1>23. \A y \in Freed : nxt'[y] = nxt[y]
  BY <1>4, <1>6, <1>8, <1>9, CellsApart
<1>24. \E fp, m : FreeList(fp, m)'
  <2>1. nxt'[x] = free
    BY <1>4, <1>9
  <2> QED BY <1>4, <1>8, <1>23, <2>1, FreeListPush
<1> QED BY <1>10, <1>16, <1>19, <1>20, <1>21, <1>22, <1>24 DEF WheelInv, Lists

\* A walk as in Place(): along cell[0], cell[1], ... with left[0], left[1], ...
\* turns left, which ends at cell[m].
Walk(h, turns, next, turnsAt, m, cell, left) ==
    /\ m \in 0 .. NumTimers /\ cell[0] = h /\ left[0] = turns
    /\ \A k \in 0 .. m - 1 :
          /\ next[cell[k]] = cell[k + 1] /\ cell[k + 1] # Null
          /\ left[k] > turnsAt[cell[k + 1]]
          /\ left[k + 1] = left[k] - turnsAt[cell[k + 1]]
    /\ next[cell[m]] = Null \/ ~(left[m] > turnsAt[next[cell[m]]])

\* Place() finds where such a walk ends.
LEMMA PlaceWalk ==
    ASSUME NEW h, NEW turns, NEW next, NEW turnsAt, NEW m, NEW cell, NEW left,
           Walk(h, turns, next, turnsAt, m, cell, left)
    PROVE  Place(h, turns, next, turnsAt) = [p |-> cell[m], d |-> left[m]]
<1> USE DEF Walk
<1> DEFINE D == 0 .. NumTimers
           start == [p |-> h, d |-> turns]
           rest(w) == IF next[w.p] # Null /\ w.d > turnsAt[next[w.p]]
                      THEN [p |-> next[w.p], d |-> w.d - turnsAt[next[w.p]]] ELSE w
           at(k) == IF k <= m THEN k ELSE m
           g == [k \in D |-> [p |-> cell[at(k)], d |-> left[at(k)]]]
<1>1. NumTimers \in Nat /\ m \in Nat /\ m <= NumTimers
  BY WheelSizes
<1>2. ASSUME NEW k \in D, k # 0
      PROVE  k - 1 \in D /\ g[k] = rest(g[k - 1])
  <2>1. k \in Nat /\ k - 1 \in D /\ k - 1 \in Nat
    BY <1>1, <1>2
  <2>2. CASE k <= m
    <3>1. at(k) = k /\ at(k - 1) = k - 1 /\ k - 1 \in 0 .. m - 1 /\ (k - 1) + 1 = k
      BY <1>1, <2>1, <2>2
    <3>2. g[k] = [p |-> cell[k], d |-> left[k]]
          /\ g[k - 1] = [p |-> cell[k - 1], d |-> left[k - 1]]
      BY <2>1, <3>1
    <3>3. /\ next[cell[k - 1]] = cell[k] /\ cell[k] # Null
          /\ left[k - 1] > turnsAt[cell[k]]
          /\ left[k] = left[k - 1] - turnsAt[cell[k]]
      BY <3>1
    <3> HIDE DEF g
    <3>4. g[k - 1].p = cell[k - 1] /\ g[k - 1].d = left[k - 1]
      BY <3>2
    <3>5. rest(g[k - 1]) = [p |-> cell[k], d |-> left[k]]
      BY <3>3, <3>4
    <3> QED BY <2>1, <3>2, <3>5
  <2>3. CASE k > m
    <3>1. at(k) = m /\ at(k - 1) = m
      BY <1>1, <2>1, <2>3
    <3>2. g[k] = [p |-> cell[m], d |-> left[m]] /\ g[k - 1] = g[k]
      BY <2>1, <3>1
    <3> HIDE DEF g
    <3>3. g[k].p = cell[m] /\ g[k].d = left[m]
      BY <3>2
    <3>4. rest(g[k]) = g[k]
      BY <3>3
    <3> QED BY <2>1, <3>2, <3>4
  <2> QED BY <1>1, <2>1, <2>2, <2>3
<1>3. g[0] = start /\ 0 \in D
  BY <1>1
<1>4. g = [k \in D |-> g[k]]
  OBVIOUS
<1>5. g[NumTimers] = [p |-> cell[m], d |-> left[m]]
  BY <1>1
<1> HIDE DEF g, start
<1>6. g = [k \in D |-> IF k = 0 THEN start ELSE rest(g[k - 1])]
  <2> HIDE DEF D, rest
  <2> QED BY <1>2, <1>3, <1>4
<1>7. ASSUME NEW f, f = [k \in D |-> IF k = 0 THEN start ELSE rest(f[k - 1])]
       PROVE  f = g
  <2> DEFINE Bad == {k \in D : f[k] # g[k]}
  <2>1. Bad \subseteq Nat
    BY <1>1
  <2>2. ASSUME Bad # {} PROVE FALSE
    <3>1. PICK k \in Bad : \A j \in Bad : k <= j
      <4> HIDE DEF Bad
      <4> QED BY <2>1, <2>2, LeastNat
    <3>2. k \in D /\ f[k] # g[k]
      OBVIOUS
    <3>3. k # 0
      <4> HIDE DEF D, rest
      <4> QED BY <1>3, <1>7, <3>2
    <3>4. k - 1 \in D /\ g[k] = rest(g[k - 1])
      BY <1>2, <3>2, <3>3
    <3>5. f[k - 1] = g[k - 1]
      <4>1. ~(k <= k - 1)
        BY <3>2
      <4> QED BY <3>1, <3>4, <4>1
    <3>6. f[k] = rest(f[k - 1])
      <4> HIDE DEF D, rest
      <4> QED BY <1>7, <3>2, <3>3
    <3> HIDE DEF rest
    <3> QED BY <3>2, <3>4, <3>5, <3>6
  <2> HIDE DEF D, rest
  <2>3. \A k \in D : f[k] = g[k]
    BY <2>2
  <2>4. f = [k \in D |-> f[k]]
    BY <1>7
  <2> QED BY <1>4, <2>3, <2>4
<1> DEFINE F == CHOOSE f : f = [k \in D |-> IF k = 0 THEN start ELSE rest(f[k - 1])]
<1>8. F = g
  <2> HIDE DEF D, rest
  <2> QED BY <1>6, <1>7
<1>9. Place(h, turns, next, turnsAt) = F[NumTimers]
  BY DEF Place, start
<1> HIDE DEF F
<1> QED BY <1>5, <1>8, <1>9

\* Where timer_schedule() puts a timer: after the k timers of the spoke that
\* have fewer turns to go, that is after cell p, d turns later.
Spot(sp, ps, up, s, turns, k, p, d) ==
    /\ IF k = 0 THEN p = Front(s) /\ d = turns
       ELSE p \in held /\ sp[p] = s /\ ps[p] = k /\ d = turns - up[p]
    /\ \A y \in held : sp[y] = s => /\ ps[y] <= k => up[y] < turns
                                    /\ ps[y] > k => up[y] >= turns

\* Place() finds that spot, in an idle wheel and from a callback.
LEMMA WhereTo ==
    ASSUME WheelInv, tpc \in {"idle", "callback"},
           NEW sp, NEW ps, NEW len, NEW up, Lists(sp, ps, len, up),
           NEW x \in Timers, x \notin held, tpc = "callback" => x # t,
           NEW s \in Spokes, NEW turns \in Nat,
           tpc = "callback" /\ s = curr => nxt[Head(curr)] = t /\ turns >= 1
    PROVE  \E k \in 0 .. len[s], p \in Cells, d \in Nat :
              /\ Place(Head(s), turns, [nxt EXCEPT ![x] = Null],
                       [delta EXCEPT ![x] = 0]) = [p |-> p, d |-> d]
              /\ Spot(sp, ps, up, s, turns, k, p, d)
<1> DEFINE next == [nxt EXCEPT ![x] = Null]
           turnsAt == [delta EXCEPT ![x] = 0]
<1>1. PICK ord \in [1 .. len[s] -> held] :
              /\ \A j \in 1 .. len[s] : sp[ord[j]] = s /\ ps[ord[j]] = j
              /\ \A y \in held : sp[y] = s => ps[y] \in 1 .. len[s] /\ ord[ps[y]] = y
  BY InOrder DEF Lists
<1>2. /\ \A y \in held : /\ y \in Timers /\ sp[y] \in Spokes /\ ps[y] \in Nat
                         /\ ps[y] >= 1 /\ ps[y] <= len[sp[y]] /\ up[y] \in Nat
                         /\ len[sp[y]] \in Nat
      /\ \A r \in Spokes : len[r] \in Nat
      /\ \A y, z \in held : sp[y] = sp[z] /\ ps[y] = ps[z] => y = z
  BY Places
<1>3. len[s] \in Nat /\ len[s] + 1 <= NumTimers /\ NumTimers \in Nat
  <2> DEFINE ext == [i \in 1 .. len[s] + 1 |-> IF i <= len[s] THEN ord[i] ELSE x]
  <2>1. len[s] \in Nat /\ len[s] + 1 \in Nat
    BY <1>2
  <2>2. \A i \in 1 .. len[s] + 1 : i \in Nat /\ (i <= len[s] => i \in 1 .. len[s])
    BY <2>1
  <2>3. \A i \in 1 .. len[s] : ord[i] \in Timers /\ ord[i] # x
    BY <1>1, <1>2
  <2>4. ext \in [1 .. len[s] + 1 -> Timers]
    BY <2>2, <2>3
  <2>5. ASSUME NEW i \in 1 .. len[s] + 1, NEW j \in 1 .. len[s] + 1, ext[i] = ext[j]
        PROVE  i = j
    <3>1. CASE i <= len[s] /\ j <= len[s]
      BY <1>1, <2>2, <2>5, <3>1
    <3>2. CASE i > len[s] /\ j > len[s]
      BY <2>1, <3>2
    <3>3. CASE i <= len[s] /\ j > len[s]
      BY <2>1, <2>2, <2>3, <2>5, <3>3
    <3>4. CASE i > len[s] /\ j <= len[s]
      BY <2>1, <2>2, <2>3, <2>5, <3>4
    <3> QED BY <2>1, <3>1, <3>2, <3>3, <3>4
  <2> HIDE DEF ext
  <2> QED BY <2>1, <2>4, <2>5, NotTooLong, WheelSizes
<1>4. PICK k \in 0 .. len[s] :
         \A j \in 1 .. len[s] : (j <= k => up[ord[j]] < turns)
                                  /\ (j > k => up[ord[j]] >= turns)
  <2> DEFINE Late == {j \in 1 .. len[s] + 1 : j <= len[s] => up[ord[j]] >= turns}
  <2>1. Late \subseteq Nat /\ len[s] + 1 \in Late
    BY <1>3
  <2>2. PICK i \in Late : \A j \in Late : i <= j
    <3> HIDE DEF Late
    <3> QED BY <2>1, LeastNat
  <2>3. i \in 1 .. len[s] + 1 /\ i - 1 \in 0 .. len[s]
        /\ (i <= len[s] => up[ord[i]] >= turns)
    BY <1>3
  <2>4. ASSUME NEW j \in 1 .. len[s] PROVE up[ord[j]] \in Nat
    BY <1>1, <1>2
  <2>5. ASSUME NEW j \in 1 .. len[s], j <= i - 1 PROVE up[ord[j]] < turns
    <3>1. j \notin Late
      <4> HIDE DEF Late
      <4> QED BY <1>3, <2>2, <2>3, <2>5
    <3> QED BY <1>3, <2>4, <3>1
  <2>6. ASSUME NEW j \in 1 .. len[s], j > i - 1 PROVE up[ord[j]] >= turns
    <3>1. i \in 1 .. len[s] /\ i <= j
      BY <1>3, <2>3, <2>6
    <3>2. up[ord[i]] <= up[ord[j]]
      BY <1>1, <3>1 DEF Lists, Turned
    <3> QED BY <2>3, <2>4, <3>1, <3>2
  <2> QED BY <2>3, <2>5, <2>6
<1>5. k \in Nat /\ k <= len[s]
  BY <1>3
<1> DEFINE off == IF tpc = "callback" /\ s = curr THEN 1 ELSE 0
           m == off + k
<1>6. off \in {0, 1} /\ m \in 0 .. NumTimers /\ m \in Nat /\ m - off = k
  BY <1>3, <1>5
<1> DEFINE cell == [i \in 0 .. m |-> IF i < off THEN Head(s)
                                     ELSE IF i = off THEN Front(s) ELSE ord[i - off]]
           left == [i \in 0 .. m |-> IF i <= off THEN turns ELSE turns - up[ord[i - off]]]
<1>7. /\ Front(s) \in Cells /\ First(s) = nxt[Front(s)] /\ Front(s) \notin held
      /\ Head(s) \in Cells /\ Head(s) # x /\ Front(s) # x
      /\ (off = 0 => Front(s) = Head(s))
      /\ (off = 1 => Front(s) = t /\ nxt[Head(s)] = t /\ t \in Timers /\ delta[t] = 0
                       /\ turns >= 1)
  BY Fronts, CellsApart DEF Front, WheelInv, InTick
<1>8. /\ \A c \in Cells : c # x => next[c] = nxt[c]
      /\ \A y \in Timers : y # x => turnsAt[y] = delta[y]
  BY DEF WheelInv, WheelTyped
<1> HIDE DEF next, turnsAt
<1>9. \A j \in 1 .. len[s] : ord[j] \in held /\ ord[j] # x /\ ord[j] \in Timers
                               /\ ord[j] \in Cells /\ ord[j] # Null /\ up[ord[j]] \in Nat
  BY <1>1, <1>2, CellsApart
<1>10. len[s] >= 1 => First(s) = ord[1] /\ delta[ord[1]] = up[ord[1]]
  <2> SUFFICES ASSUME len[s] >= 1
               PROVE  First(s) = ord[1] /\ delta[ord[1]] = up[ord[1]]
    OBVIOUS
  <2>1. First(s) \in held /\ sp[First(s)] = s /\ ps[First(s)] = 1
    BY <1>3 DEF Lists, Linked
  <2>2. First(s) = ord[1]
    BY <1>1, <2>1
  <2> QED BY <2>1, <2>2 DEF Lists, Turned
<1>11. \A j \in 1 .. len[s] : j # len[s] =>
           /\ j + 1 \in 1 .. len[s] /\ nxt[ord[j]] = ord[j + 1]
           /\ delta[ord[j + 1]] = up[ord[j + 1]] - up[ord[j]]
  <2> SUFFICES ASSUME NEW j \in 1 .. len[s], j # len[s]
               PROVE  /\ j + 1 \in 1 .. len[s] /\ nxt[ord[j]] = ord[j + 1]
                      /\ delta[ord[j + 1]] = up[ord[j + 1]] - up[ord[j]]
    OBVIOUS
  <2>1. j + 1 \in 1 .. len[s] /\ ord[j] \in held /\ sp[ord[j]] = s /\ ps[ord[j]] = j
    BY <1>1, <1>3
  <2>2. nxt[ord[j]] \in held /\ sp[nxt[ord[j]]] = s /\ ps[nxt[ord[j]]] = j + 1
    BY <2>1 DEF Lists, Linked
  <2>3. nxt[ord[j]] = ord[j + 1]
    BY <1>1, <2>2
  <2> QED BY <2>1, <2>2, <2>3 DEF Lists, Turned
<1>12. len[s] >= 1 => nxt[ord[len[s]]] = Null
  BY <1>1, <1>3 DEF Lists, Linked
<1>13. len[s] = 0 => First(s) = Null
  BY DEF Lists, Linked
<1>14. cell[0] = Head(s) /\ left[0] = turns
  BY <1>6, <1>7
<1>15. ASSUME NEW i \in 0 .. m - 1
       PROVE  /\ next[cell[i]] = cell[i + 1] /\ cell[i + 1] # Null
              /\ left[i] > turnsAt[cell[i + 1]]
              /\ left[i + 1] = left[i] - turnsAt[cell[i + 1]]
  <2>1. i \in 0 .. m /\ i + 1 \in 0 .. m /\ i \in Nat
    BY <1>6
  <2>2. CASE i < off
    <3>1. i = 0 /\ off = 1 /\ ~(i + 1 < off) /\ i + 1 = off
      BY <1>6, <2>1, <2>2
    <3>2. cell[i] = Head(s) /\ cell[i + 1] = Front(s) /\ left[i] = turns
          /\ left[i + 1] = turns
      BY <2>1, <2>2, <3>1
    <3> HIDE DEF cell, left
    <3>3. next[Head(s)] = nxt[Head(s)] /\ turnsAt[t] = 0 /\ t # Null
      BY <1>7, <1>8, <3>1, CellsApart
    <3> QED BY <1>7, <3>1, <3>2, <3>3
  <2>3. CASE i = off
    <3>1. i + 1 > off /\ (i + 1) - off = 1 /\ k >= 1
      BY <1>5, <1>6, <2>1, <2>3
    <3>2. cell[i] = Front(s) /\ cell[i + 1] = ord[1] /\ left[i] = turns
          /\ left[i + 1] = turns - up[ord[1]]
      BY <1>6, <2>1, <2>3, <3>1
    <3> HIDE DEF cell, left
    <3>5. 1 \in 1 .. len[s] /\ 1 <= k
      BY <1>3, <1>5, <3>1
    <3>3. 1 \in 1 .. len[s] /\ up[ord[1]] < turns
      BY <1>4, <3>5
    <3>4. next[Front(s)] = ord[1] /\ turnsAt[ord[1]] = up[ord[1]] /\ ord[1] # Null
      BY <1>3, <1>7, <1>8, <1>9, <1>10, <3>3
    <3> QED BY <1>9, <3>2, <3>3, <3>4
  <2>4. CASE i > off
    <3> DEFINE j == i - off
    <3>1. j \in 1 .. len[s] /\ j # len[s] /\ j + 1 = (i + 1) - off /\ i + 1 > off
          /\ j + 1 <= k /\ j + 1 \in 1 .. len[s]
      BY <1>3, <1>5, <1>6, <2>1, <2>4
    <3>6. /\ ~(i < off) /\ i # off /\ ~(i <= off)
          /\ ~(i + 1 < off) /\ i + 1 # off /\ ~(i + 1 <= off)
      BY <1>6, <2>1, <2>4
    <3>2. cell[i] = ord[j] /\ cell[i + 1] = ord[j + 1] /\ left[i] = turns - up[ord[j]]
          /\ left[i + 1] = turns - up[ord[j + 1]]
      <4> HIDE DEF m, off
      <4> QED BY <2>1, <3>1, <3>6
    <3> HIDE DEF cell, left, j
    <3>3. up[ord[j + 1]] < turns
      BY <1>4, <3>1
    <3>4. /\ next[ord[j]] = ord[j + 1] /\ ord[j + 1] # Null
          /\ turnsAt[ord[j + 1]] = up[ord[j + 1]] - up[ord[j]]
      BY <1>8, <1>9, <1>11, <3>1
    <3>5. up[ord[j]] \in Nat /\ up[ord[j + 1]] \in Nat
      BY <1>9, <3>1
    <3> QED BY <3>2, <3>3, <3>4, <3>5
  <2> QED BY <1>6, <2>1, <2>2, <2>3, <2>4
<1>16. /\ cell[m] = IF k = 0 THEN Front(s) ELSE ord[k]
       /\ left[m] = IF k = 0 THEN turns ELSE turns - up[ord[k]]
  <2>1. m \in 0 .. m /\ ~(m < off) /\ (m = off <=> k = 0) /\ (m <= off <=> k = 0)
    BY <1>5, <1>6
  <2> QED BY <1>6, <2>1
<1> HIDE DEF cell, left, m, off
<1>17. next[cell[m]] = Null \/ ~(left[m] > turnsAt[next[cell[m]]])
  <2>1. CASE k = len[s]
    <3>1. CASE k = 0
      BY <1>7, <1>8, <1>13, <1>16, <2>1, <3>1
    <3>2. CASE k # 0
      <4>1. k \in 1 .. len[s] /\ nxt[ord[k]] = Null /\ cell[m] = ord[k]
        BY <1>3, <1>5, <1>12, <1>16, <2>1, <3>2
      <4> QED BY <1>8, <1>9, <4>1
    <3> QED BY <3>1, <3>2
  <2>2. CASE k # len[s]
    <3>1. k + 1 \in 1 .. len[s] /\ k + 1 > k
      BY <1>3, <1>5, <2>2
    <3>2. up[ord[k + 1]] >= turns /\ ord[k + 1] \in held /\ ord[k + 1] # x
          /\ up[ord[k + 1]] \in Nat /\ turnsAt[ord[k + 1]] = delta[ord[k + 1]]
      BY <1>4, <1>8, <1>9, <3>1
    <3>3. CASE k = 0
      <4>1. next[cell[m]] = ord[1] /\ turnsAt[ord[1]] = up[ord[1]] /\ left[m] = turns
            /\ up[ord[1]] >= turns
        BY <1>3, <1>7, <1>8, <1>10, <1>16, <3>1, <3>2, <3>3
      <4> QED BY <3>2, <3>3, <4>1
    <3>4. CASE k # 0
      <4>1. k \in 1 .. len[s]
        BY <1>3, <1>5, <3>4
      <4>2. next[cell[m]] = ord[k + 1] /\ left[m] = turns - up[ord[k]]
            /\ turnsAt[ord[k + 1]] = up[ord[k + 1]] - up[ord[k]] /\ up[ord[k]] \in Nat
        BY <1>8, <1>9, <1>11, <1>16, <2>2, <3>2, <3>4, <4>1
      <4> QED BY <3>2, <4>2
    <3> QED BY <3>3, <3>4
  <2> QED BY <2>1, <2>2
<1>18. Place(Head(s), turns, next, turnsAt) = [p |-> cell[m], d |-> left[m]]
  <2>1. Walk(Head(s), turns, next, turnsAt, m, cell, left)
    BY <1>6, <1>14, <1>15, <1>17 DEF Walk
  <2> QED BY <2>1, PlaceWalk
<1>19. /\ cell[m] \in Cells /\ left[m] \in Nat
       /\ IF k = 0 THEN cell[m] = Front(s) /\ left[m] = turns
          ELSE cell[m] \in held /\ sp[cell[m]] = s /\ ps[cell[m]] = k
                 /\ left[m] = turns - up[cell[m]]
  <2>1. CASE k = 0
    BY <1>7, <1>16, <2>1
  <2>2. CASE k # 0
    <3>1. k \in 1 .. len[s] /\ cell[m] = ord[k] /\ left[m] = turns - up[ord[k]]
      BY <1>3, <1>5, <1>16, <2>2
    <3>2. up[ord[k]] < turns /\ up[ord[k]] \in Nat
      BY <1>4, <1>5, <1>9, <3>1
    <3> QED BY <1>1, <1>9, <2>2, <3>1, <3>2
  <2> QED BY <2>1, <2>2
<1>20. \A y \in held : sp[y] = s => /\ ps[y] <= k => up[y] < turns
                                    /\ ps[y] > k => up[y] >= turns
  BY <1>1, <1>4
<1>21. Spot(sp, ps, up, s, turns, k, cell[m], left[m])
  BY <1>19, <1>20 DEF Spot
<1> QED BY <1>18, <1>19, <1>21 DEF next, turnsAt

\* What timer_schedule() does when it links x in after cell p, d turns later.
LinkedIn(x, p, d) ==
    /\ UNCHANGED <<tpc, nextTick, curr, t>> /\ held' = held \cup {x}
    /\ \A c \in Cells : nxt'[c] = IF c = x THEN nxt[p] ELSE IF c = p THEN x ELSE nxt[c]
    /\ \A c \in Cells : prv'[c] = IF c = nxt[p] THEN x ELSE IF c = x THEN p ELSE prv[c]
    /\ \A y \in Timers : delta'[y] = (IF y = x THEN d ELSE delta[y])
                                        - (IF y = nxt[p] THEN d ELSE 0)
    /\ \A y \in held : due'[y] = due[y]

\* Linking timer x in after the k timers of spoke s that have fewer turns to go
\* keeps the lists.
LEMMA Inserted ==
    ASSUME WheelInv, tpc \in {"idle", "callback"},
           NEW sp, NEW ps, NEW len, NEW up, Lists(sp, ps, len, up),
           NEW x \in Timers, x \notin held, tpc = "callback" => x # t,
           NEW s \in Spokes, NEW turns \in Nat,
           NEW k \in 0 .. len[s], NEW p \in Cells, NEW d \in Nat,
           Spot(sp, ps, up, s, turns, k, p, d),
           LinkedIn(x, p, d),
           nextTick + Distance(s) + WheelSize * turns \in due'[x] .. due'[x] + 1
    PROVE  \E sq, qs, ls, us : Lists(sq, qs, ls, us)'
<1> SUFFICES
      ASSUME UNCHANGED <<tpc, nextTick, curr, t>>, held' = held \cup {x},
             \A c \in Cells : nxt'[c] = IF c = x THEN nxt[p] ELSE IF c = p THEN x ELSE nxt[c],
             \A c \in Cells : prv'[c] = IF c = nxt[p] THEN x ELSE IF c = x THEN p ELSE prv[c],
             \A y \in Timers : delta'[y] = (IF y = x THEN d ELSE delta[y])
                                             - (IF y = nxt[p] THEN d ELSE 0),
             \A y \in held : due'[y] = due[y]
      PROVE  \E sq, qs, ls, us : Lists(sq, qs, ls, us)'
  BY DEF LinkedIn
<1> USE DEF Spot
<1>1. /\ \A y \in held : /\ y \in Timers /\ sp[y] \in Spokes /\ ps[y] \in Nat
                         /\ ps[y] >= 1 /\ ps[y] <= len[sp[y]] /\ up[y] \in Nat
                         /\ len[sp[y]] \in Nat
      /\ \A r \in Spokes : len[r] \in Nat
      /\ \A y, z \in held : sp[y] = sp[z] /\ ps[y] = ps[z] => y = z
  BY Places
<1>2. /\ \A r \in Spokes : /\ Front(r) \in Cells /\ First(r) = nxt[Front(r)]
                           /\ Front(r) \notin held /\ Front(r) # x
                           /\ Front(r)' = Front(r)
      /\ \A r, q \in Spokes : Front(r) = Front(q) => r = q
  BY Fronts, CellsApart DEF Front
<1>3. /\ k \in Nat /\ k <= len[s] /\ len[s] \in Nat /\ p # x /\ x \in Cells /\ x # Null
      /\ \A y \in held : y # x /\ y \in Cells /\ y # Null
  BY <1>1, <1>2, CellsApart
<1>4. IF k = len[s] THEN nxt[p] = Null
      ELSE nxt[p] \in held /\ sp[nxt[p]] = s /\ ps[nxt[p]] = k + 1
  <2>1. CASE k = 0
    BY <1>2, <2>1 DEF Lists, Linked
  <2>2. CASE k # 0
    BY <2>2 DEF Lists, Linked
  <2> QED BY <2>1, <2>2
<1>5. nxt[p] # x
  BY <1>3, <1>4
<1>6. PICK sq : sq = [sp EXCEPT ![x] = s]
  OBVIOUS
<1>7. PICK ls : ls = [len EXCEPT ![s] = @ + 1]
  OBVIOUS
<1>8. PICK us : us = [up EXCEPT ![x] = turns]
  OBVIOUS
<1>9. PICK qs : qs = [y \in Timers |->
                        IF y = x THEN k + 1
                        ELSE IF y \in held /\ sp[y] = s /\ ps[y] > k
                             THEN ps[y] + 1 ELSE ps[y]]
  OBVIOUS
<1>10. /\ sq \in [Timers -> Spokes] /\ ls \in [Spokes -> Nat] /\ us \in [Timers -> Nat]
       /\ sq[x] = s /\ us[x] = turns /\ qs[x] = k + 1
       /\ \A y \in held : sq[y] = sp[y] /\ us[y] = up[y]
                            /\ qs[y] = IF sp[y] = s /\ ps[y] > k
                                       THEN ps[y] + 1 ELSE ps[y]
       /\ \A r \in Spokes : ls[r] = IF r = s THEN len[r] + 1 ELSE len[r]
  <2>1. sp \in [Timers -> Spokes] /\ len \in [Spokes -> Nat] /\ up \in [Timers -> Nat]
    BY DEF Lists, Placed, Turned
  <2>2. sq \in [Timers -> Spokes] /\ sq[x] = s /\ \A y \in held : sq[y] = sp[y]
    BY <1>1, <1>3, <1>6, <2>1
  <2>3. us \in [Timers -> Nat] /\ us[x] = turns /\ \A y \in held : us[y] = up[y]
    BY <1>1, <1>3, <1>8, <2>1
  <2>4. ls \in [Spokes -> Nat] /\ \A r \in Spokes : ls[r] = IF r = s THEN len[r] + 1 ELSE len[r]
    BY <1>7, <2>1
  <2>5. qs[x] = k + 1 /\ \A y \in held : qs[y] = IF sp[y] = s /\ ps[y] > k
                                                 THEN ps[y] + 1 ELSE ps[y]
    BY <1>1, <1>3, <1>9
  <2> QED BY <2>2, <2>3, <2>4, <2>5
<1>11. qs \in [Timers -> Nat]
  <2>1. \A y \in Timers : ps[y] \in Nat
    BY DEF Lists, Placed
  <2>2. ASSUME NEW y \in Timers PROVE qs[y] \in Nat
    BY <1>3, <1>9, <2>1
  <2>3. qs = [y \in Timers |-> qs[y]]
    BY <1>9
  <2> QED BY <2>2, <2>3
<1>12. \A y \in held' : y = x \/ y \in held
  OBVIOUS
<1>13. ASSUME NEW y \in held
       PROVE  /\ sp[y] = s /\ ps[y] = k + 1 <=> y = nxt[p]
              /\ sp[y] = s /\ ps[y] = k <=> y = p
              /\ qs[y] # 0 /\ (sp[y] = s => qs[y] # k + 1)
  <2>1. sp[y] = s /\ ps[y] = k + 1 => y = nxt[p]
    <3> SUFFICES ASSUME sp[y] = s, ps[y] = k + 1 PROVE y = nxt[p]
      OBVIOUS
    <3>1. k # len[s]
      BY <1>1, <1>3
    <3> QED BY <1>1, <1>4, <3>1
  <2>2. y = nxt[p] => sp[y] = s /\ ps[y] = k + 1
    BY <1>3, <1>4
  <2>3. sp[y] = s /\ ps[y] = k <=> y = p
    BY <1>1, <1>2
  <2>4. qs[y] # 0 /\ (sp[y] = s => qs[y] # k + 1)
    BY <1>1, <1>3, <1>10
  <2> QED BY <2>1, <2>2, <2>3, <2>4
<1>14. Placed(sq, qs, ls)'
  <2>1. \A y \in held' : qs[y] \in 1 .. ls[sq[y]]
    BY <1>1, <1>3, <1>10, <1>12
  <2>2. ASSUME NEW y \in held', NEW z \in held', sq[y] = sq[z], qs[y] = qs[z]
        PROVE  y = z
    <3>1. CASE y \in held /\ z \in held
      BY <1>1, <1>3, <1>10, <2>2, <3>1
    <3>2. CASE y = x /\ z \in held
      BY <1>10, <1>13, <2>2, <3>2
    <3>3. CASE y \in held /\ z = x
      BY <1>10, <1>13, <2>2, <3>3
    <3> QED BY <1>12, <3>1, <3>2, <3>3
  <2> QED BY <1>10, <1>11, <2>1, <2>2 DEF Placed
<1>15. Linked(sq, qs, ls)'
  <2>1. ASSUME NEW y \in held
        PROVE  IF qs[y] = ls[sq[y]] THEN nxt'[y] = Null
               ELSE nxt'[y] \in held' /\ sq[nxt'[y]] = sq[y] /\ qs[nxt'[y]] = qs[y] + 1
    <3>1. /\ y # x /\ y \in Cells /\ sq[y] = sp[y] /\ sp[y] \in Spokes /\ ps[y] \in Nat
          /\ len[sp[y]] \in Nat /\ ps[y] <= len[sp[y]] /\ ps[y] >= 1
      BY <1>1, <1>3, <1>10
    <3>2. CASE y = p
      <4>1. sp[y] = s /\ ps[y] = k /\ qs[y] = k /\ nxt'[y] = x /\ ls[s] = len[s] + 1
        BY <1>3, <1>10, <1>13, <3>1, <3>2
      <4> QED BY <1>3, <1>10, <3>1, <4>1
    <3>3. CASE y # p
      <4>1. nxt'[y] = nxt[y] /\ ~(sp[y] = s /\ ps[y] = k)
        BY <1>13, <3>1, <3>3
      <4>2. CASE ps[y] = len[sp[y]]
        <5>1. nxt[y] = Null
          BY <4>2 DEF Lists, Linked
        <5>2. sp[y] = s => ps[y] > k
          BY <1>3, <3>1, <4>1, <4>2
        <5>3. qs[y] = ls[sq[y]]
          BY <1>10, <3>1, <4>2, <5>2
        <5> QED BY <4>1, <5>1, <5>3
      <4>3. CASE ps[y] # len[sp[y]]
        <5>1. nxt[y] \in held /\ sp[nxt[y]] = sp[y] /\ ps[nxt[y]] = ps[y] + 1
          BY <4>3 DEF Lists, Linked
        <5>2. qs[nxt[y]] = qs[y] + 1
          BY <1>3, <1>10, <3>1, <4>1, <5>1
        <5>3. qs[nxt[y]] \in 1 .. ls[sq[y]] /\ ls[sq[y]] \in Nat /\ qs[y] \in Nat
          BY <1>10, <1>11, <1>14, <3>1, <5>1 DEF Placed
        <5>4. qs[y] # ls[sq[y]]
          BY <5>2, <5>3
        <5> QED BY <1>10, <3>1, <4>1, <5>1, <5>2, <5>4
      <4> QED BY <4>2, <4>3
    <3> QED BY <3>2, <3>3
  <2>2. IF qs[x] = ls[sq[x]] THEN nxt'[x] = Null
        ELSE nxt'[x] \in held' /\ sq[nxt'[x]] = sq[x] /\ qs[nxt'[x]] = qs[x] + 1
    <3>1. nxt'[x] = nxt[p] /\ qs[x] = k + 1 /\ sq[x] = s /\ ls[s] = len[s] + 1
      BY <1>3, <1>10
    <3>2. CASE k = len[s]
      BY <1>3, <1>4, <3>1, <3>2
    <3>3. CASE k # len[s]
      <4>1. nxt[p] \in held /\ sp[nxt[p]] = s /\ ps[nxt[p]] = k + 1
        BY <1>4, <3>3
      <4>2. qs[nxt[p]] = k + 2 /\ sq[nxt[p]] = s
        BY <1>3, <1>10, <4>1
      <4> QED BY <1>3, <3>1, <3>3, <4>1, <4>2
    <3> QED BY <3>2, <3>3
  <2>3. ASSUME NEW r \in Spokes
        PROVE  IF ls[r] = 0 THEN First(r)' = Null
               ELSE First(r)' \in held' /\ sq[First(r)'] = r /\ qs[First(r)'] = 1
    <3>1. First(r)' = nxt'[Front(r)] /\ Front(r) \in Cells /\ Front(r) # x
      BY <1>2 DEF First, Front
    <3>2. CASE Front(r) = p
      <4>1. r = s /\ k = 0
        BY <1>2, <3>2
      <4>2. First(r)' = x
        BY <3>1, <3>2
      <4> QED BY <1>3, <1>10, <4>1, <4>2
    <3>3. CASE Front(r) # p
      <4>1. First(r)' = First(r) /\ (r = s => k # 0)
        BY <1>2, <3>1, <3>3
      <4>2. CASE len[r] = 0
        <5>1. r # s
          BY <1>3, <4>1, <4>2
        <5> QED BY <1>10, <4>1, <4>2, <5>1 DEF Lists, Linked
      <4>3. CASE len[r] # 0
        <5>1. First(r) \in held /\ sp[First(r)] = r /\ ps[First(r)] = 1
          BY <4>3 DEF Lists, Linked
        <5>2. qs[First(r)] = 1 /\ sq[First(r)] = r
          BY <1>3, <1>10, <4>1, <5>1
        <5>3. ls[r] # 0
          BY <1>1, <1>10, <4>3
        <5> QED BY <4>1, <5>1, <5>2, <5>3
      <4> QED BY <4>2, <4>3
    <3> QED BY <3>2, <3>3
  <2> QED BY <1>12, <2>1, <2>2, <2>3 DEF Linked
<1>16. BackLinked(sq, qs)'
  <2> SUFFICES ASSUME NEW y \in held'
               PROVE  IF qs[y] = 1 THEN prv'[y] = Front(sq[y])
                      ELSE prv'[y] \in held' /\ sq[prv'[y]] = sq[y]
                             /\ qs[prv'[y]] = qs[y] - 1
    BY <1>2, <1>10, HeldTimers DEF BackLinked, Front, held
  <2>1. CASE y = x
    <3>1. prv'[y] = p /\ qs[y] = k + 1 /\ sq[y] = s
      BY <1>3, <1>5, <1>10, <2>1
    <3>2. CASE k = 0
      BY <3>1, <3>2
    <3>3. CASE k # 0
      <4>1. p \in held /\ sp[p] = s /\ ps[p] = k
        BY <3>3
      <4>2. qs[p] = k /\ sq[p] = s
        BY <1>3, <1>10, <4>1
      <4> QED BY <1>3, <3>1, <3>3, <4>1, <4>2
    <3> QED BY <3>2, <3>3
  <2>2. CASE y \in held
    <3>1. /\ y # x /\ y \in Cells /\ sq[y] = sp[y] /\ sp[y] \in Spokes /\ ps[y] \in Nat
          /\ ps[y] >= 1
      BY <1>1, <1>3, <1>10, <2>2
    <3>2. CASE y = nxt[p]
      <4>1. sp[y] = s /\ ps[y] = k + 1 /\ prv'[y] = x
        BY <1>13, <2>2, <3>1, <3>2
      <4>2. qs[y] = k + 2
        BY <1>3, <1>10, <2>2, <4>1
      <4> QED BY <1>3, <1>10, <3>1, <4>1, <4>2
    <3>3. CASE y # nxt[p]
      <4>1. prv'[y] = prv[y] /\ ~(sp[y] = s /\ ps[y] = k + 1)
        BY <1>13, <2>2, <3>1, <3>3
      <4>2. CASE ps[y] = 1
        <5>1. prv[y] = Front(sp[y])
          BY <2>2, <4>2 DEF Lists, BackLinked
        <5>2. qs[y] = 1
          BY <1>3, <1>10, <2>2, <3>1, <4>1, <4>2
        <5> QED BY <3>1, <4>1, <5>1, <5>2
      <4>3. CASE ps[y] # 1
        <5>1. prv[y] \in held /\ sp[prv[y]] = sp[y] /\ ps[prv[y]] = ps[y] - 1
          BY <2>2, <4>3 DEF Lists, BackLinked
        <5>2. qs[prv[y]] = qs[y] - 1 /\ qs[y] # 1
          BY <1>3, <1>10, <2>2, <3>1, <4>1, <4>3, <5>1
        <5> QED BY <1>10, <3>1, <4>1, <5>1, <5>2
      <4> QED BY <4>2, <4>3
    <3> QED BY <3>2, <3>3
  <2> QED BY <1>12, <2>1, <2>2
<1>17. \A y \in held : /\ y \in Timers /\ sp[y] \in Spokes /\ ps[y] \in Nat
                       /\ ps[y] >= 1 /\ up[y] \in Nat
                       /\ delta'[y] = IF y = nxt[p] THEN delta[y] - d ELSE delta[y]
                       /\ delta[y] \in Int
  <2>1. delta \in [Timers -> Int]
    BY DEF WheelInv, WheelTyped
  <2> QED BY <1>1, <1>3, <2>1
<1>18. delta'[x] = d
  BY <1>5
<1>19. k # 0 => p \in held /\ sp[p] = s /\ ps[p] = k /\ d = turns - up[p] /\ up[p] \in Nat
  BY <1>1
<1>20. Turned(sq, qs, us)'
  <2>1. ASSUME NEW y \in held', qs[y] = 1 PROVE delta'[y] = us[y]
    <3>1. CASE y = x
      BY <1>3, <1>10, <1>18, <2>1, <3>1
    <3>2. CASE y \in held
      <4>1. ps[y] = 1
        BY <1>3, <1>10, <1>17, <2>1, <3>2
      <4>2. delta[y] = up[y]
        BY <3>2, <4>1 DEF Lists, Turned
      <4>3. y # nxt[p]
        <5> SUFFICES ASSUME y = nxt[p] PROVE FALSE
          OBVIOUS
        <5>1. sp[y] = s /\ ps[y] = k + 1
          BY <1>13, <3>2
        <5> QED BY <1>3, <1>10, <2>1, <3>2, <4>1, <5>1
      <4> QED BY <1>10, <1>17, <3>2, <4>2, <4>3
    <3> QED BY <1>12, <3>1, <3>2
  <2>2. ASSUME NEW y \in held', NEW z \in held', sq[y] = sq[z], qs[z] = qs[y] + 1
        PROVE  delta'[z] = us[z] - us[y]
    <3>1. CASE z = x /\ y \in held
      <4>1. sp[y] = s /\ qs[y] = k
        BY <1>3, <1>10, <1>11, <1>17, <2>2, <3>1
      <4>2. y = p /\ k # 0
        BY <1>3, <1>10, <1>13, <1>17, <3>1, <4>1
      <4> QED BY <1>10, <1>18, <1>19, <3>1, <4>2
    <3>2. CASE y = x /\ z \in held
      <4>1. sp[z] = s /\ qs[z] = k + 2
        BY <1>3, <1>10, <1>17, <2>2, <3>2
      <4>2. ps[z] = k + 1
        BY <1>3, <1>10, <1>17, <3>2, <4>1
      <4>3. z = nxt[p] /\ delta'[z] = delta[z] - d
        BY <1>13, <1>17, <3>2, <4>1, <4>2
      <4>4. CASE k = 0
        <5>1. delta[z] = up[z]
          BY <3>2, <4>2, <4>4 DEF Lists, Turned
        <5> QED BY <1>10, <1>17, <3>2, <4>3, <4>4, <5>1
      <4>5. CASE k # 0
        <5>1. ps[z] = ps[p] + 1 /\ p \in held /\ sp[p] = sp[z]
          BY <1>19, <4>1, <4>2, <4>5
        <5>2. delta[z] = up[z] - up[p]
          BY <3>2, <5>1 DEF Lists, Turned
        <5> QED BY <1>10, <1>17, <1>19, <3>2, <4>3, <4>5, <5>2
      <4> QED BY <4>4, <4>5
    <3>3. CASE y \in held /\ z \in held
      <4>1. sp[y] = sp[z] /\ ps[z] = ps[y] + 1 /\ ~(sp[z] = s /\ ps[z] = k + 1)
        BY <1>3, <1>10, <1>17, <2>2, <3>3
      <4>2. z # nxt[p]
        BY <1>13, <3>3, <4>1
      <4>3. delta[z] = up[z] - up[y]
        BY <3>3, <4>1 DEF Lists, Turned
      <4> QED BY <1>10, <1>17, <3>3, <4>2, <4>3
    <3>4. ~(y = x /\ z = x)
      BY <1>3, <1>10, <2>2
    <3> QED BY <1>12, <3>1, <3>2, <3>3, <3>4
  <2>3. ASSUME NEW y \in held', NEW z \in held', sq[y] = sq[z], qs[y] <= qs[z]
        PROVE  us[y] <= us[z]
    <3>1. CASE z = x /\ y \in held
      <4>1. sp[y] = s /\ ps[y] <= k
        BY <1>3, <1>10, <1>17, <2>3, <3>1
      <4>2. up[y] < turns
        BY <3>1, <4>1
      <4> QED BY <1>10, <1>17, <3>1, <4>2
    <3>2. CASE y = x /\ z \in held
      <4>1. sp[z] = s /\ ps[z] > k
        BY <1>3, <1>10, <1>17, <2>3, <3>2
      <4>2. up[z] >= turns
        BY <3>2, <4>1
      <4> QED BY <1>10, <1>17, <3>2, <4>2
    <3>3. CASE y \in held /\ z \in held
      <4>1. sp[y] = sp[z] /\ ps[y] <= ps[z]
        BY <1>3, <1>10, <1>17, <2>3, <3>3
      <4>2. up[y] <= up[z]
        BY <3>3, <4>1 DEF Lists, Turned
      <4> QED BY <1>10, <3>3, <4>2
    <3>4. CASE y = x /\ z = x
      BY <1>10, <3>4
    <3> QED BY <1>12, <3>1, <3>2, <3>3, <3>4
  <2> QED BY <1>10, <2>1, <2>2, <2>3 DEF Turned
<1>21. OnTime(sq, us)'
  <2>1. CalledAt(x, sq, us)' \in due'[x] .. due'[x] + 1
    BY <1>10 DEF CalledAt, Distance
  <2>2. ASSUME NEW y \in held PROVE CalledAt(y, sq, us)' \in due'[y] .. due'[y] + 1
    <3>1. CalledAt(y, sp, up) \in due[y] .. due[y] + 1
      BY DEF Lists, OnTime
    <3>2. CalledAt(y, sq, us)' = CalledAt(y, sp, up)
      BY <1>10 DEF CalledAt, Distance
    <3> QED BY <3>1, <3>2
  <2> QED BY <1>12, <2>1, <2>2 DEF OnTime
<1> QED BY <1>14, <1>15, <1>16, <1>20, <1>21 DEF Lists

\* Max of a pair.
LEMMA MaxOfTwo ==
    ASSUME NEW a \in Int, NEW b \in Int
    PROVE  Max({a, b}) = IF a >= b THEN a ELSE b
<1>1. \A y \in {a, b} : (IF a >= b THEN a ELSE b) >= y
  OBVIOUS
<1>2. \A z \in {a, b} : (\A y \in {a, b} : z >= y) => z = IF a >= b THEN a ELSE b
  OBVIOUS
<1>3. \E z \in {a, b} : \A y \in {a, b} : z >= y
  BY <1>1
<1> DEFINE m == CHOOSE z \in {a, b} : \A y \in {a, b} : z >= y
<1>4. m \in {a, b} /\ \A y \in {a, b} : m >= y
  BY <1>3
<1> HIDE DEF m
<1>5. m = IF a >= b THEN a ELSE b
  BY <1>2, <1>4
<1> QED BY <1>5 DEF m, Max

\* A timer is at least a tick away, and is called when asked for or a tick
\* later.
LEMMA TicksAway ==
    ASSUME WheelInv, NEW d \in Int
    PROVE  /\ Ticks(d) \in Nat /\ Ticks(d) >= 1
           /\ Max({now + d, nextTick + 1}) \in Nat /\ Max({now + d, nextTick + 1}) # Null
           /\ nextTick + Ticks(d) \in Max({now + d, nextTick + 1})
                                        .. Max({now + d, nextTick + 1}) + 1
<1>1. now \in Nat /\ nextTick \in Nat /\ 1 <= nextTick /\ nextTick <= now + 1
  BY DEF WheelInv, WheelTyped
<1> DEFINE c == IF now > nextTick THEN d + now - nextTick ELSE d
           a == Max({1, c})
           b == Max({now + d, nextTick + 1})
<1>2. c \in Int
  BY <1>1
<1>3. Ticks(d) = a
  BY DEF Ticks
<1>4. a = IF 1 >= c THEN 1 ELSE c
  <2> HIDE DEF c
  <2> QED BY <1>2, MaxOfTwo
<1>5. b = IF now + d >= nextTick + 1 THEN now + d ELSE nextTick + 1
  <2>1. now + d \in Int /\ nextTick + 1 \in Int
    BY <1>1
  <2> QED BY <2>1, MaxOfTwo
<1> HIDE DEF a, b
<1>6. a \in Nat /\ a >= 1 /\ b \in Nat /\ b # 0 /\ nextTick + a \in b .. b + 1
  BY <1>1, <1>4, <1>5
<1> QED BY <1>3, <1>6 DEF a, b, Null

\* A new timer is in no list, and leaves the free list as it should be.
LEMMA Allocated ==
    ASSUME WheelInv, NEW x \in Timers, Alloc(x),
           UNCHANGED <<tpc, t>>, held' = held \cup {x},
           \A y \in Freed : y # x => nxt'[y] = nxt[y]
    PROVE  /\ x \notin held /\ (tpc = "callback" => x # t)
           /\ fresh' \subseteq fresh /\ free' \in Timers \cup {Null} /\ x \notin fresh'
           /\ \E fp, m : FreeList(fp, m)'
<1>1. PICK fp, m : FreeList(fp, m)
  BY DEF WheelInv
<1>2. m \in Nat /\ fp \in [Timers -> Nat]
  BY <1>1 DEF FreeList
<1>3. fresh \subseteq Timers /\ (\A y \in fresh : y \notin held)
      /\ (tpc = "callback" => t \notin fresh)
  BY DEF WheelInv, WheelTyped, InTick, held
<1>4. CASE free # Null /\ x = free /\ free' = nxt[x] /\ UNCHANGED fresh
  <2>1. m # 0 /\ x \in Freed /\ fp[x] = m
    BY <1>1, <1>4 DEF FreeList
  <2>2. x \notin held /\ x \notin fresh /\ (tpc = "callback" => x # t)
    BY <2>1 DEF Freed, Active
  <2>3. Freed' = Freed \ {x}
    BY <1>4, <2>1 DEF Freed, Active
  <2>4. free' \in Timers \cup {Null}
    BY <1>4, CellsApart DEF WheelInv, WheelTyped
  <2>5. IF m = 1 THEN nxt[x] = Null ELSE nxt[x] \in Freed' /\ fp[nxt[x]] = m - 1
    BY <1>1, <1>2, <2>1, <2>3 DEF FreeList
  <2>6. \A y \in Freed' : fp[y] \in 1 .. m - 1
    BY <1>1, <1>2, <2>1, <2>3 DEF FreeList
  <2>7. \A y \in Freed' : IF fp[y] = 1 THEN nxt'[y] = Null
                          ELSE nxt'[y] \in Freed' /\ fp[nxt'[y]] = fp[y] - 1
    <3> SUFFICES ASSUME NEW y \in Freed'
                 PROVE  IF fp[y] = 1 THEN nxt[y] = Null
                        ELSE nxt[y] \in Freed' /\ fp[nxt[y]] = fp[y] - 1
      BY <2>3
    <3>1. IF fp[y] = 1 THEN nxt[y] = Null
          ELSE nxt[y] \in Freed /\ fp[nxt[y]] = fp[y] - 1
      BY <1>1, <2>3 DEF FreeList
    <3>2. fp[y] # 1 => nxt[y] # x
      BY <1>2, <2>1, <2>6, <3>1
    <3> QED BY <2>3, <3>1, <3>2
  <2>8. FreeList(fp, m - 1)'
    <3>1. m - 1 \in Nat /\ (m - 1 = 0 <=> m = 1)
      BY <1>2, <2>1
    <3>2. \A y, z \in Freed' : fp[y] = fp[z] => y = z
      BY <1>1, <2>3 DEF FreeList
    <3> QED BY <1>2, <1>4, <2>5, <2>6, <2>7, <3>1, <3>2 DEF FreeList
  <2> QED BY <1>4, <2>2, <2>4, <2>8
<1>5. CASE /\ free = Null /\ fresh # {} /\ x = Min(fresh)
           /\ fresh' = fresh \ {x} /\ UNCHANGED free
  <2>1. x \in fresh
    <3>1. fresh \subseteq Nat
      BY <1>3, WheelSizes DEF Timers
    <3>2. \E z \in fresh : \A y \in fresh : z =< y
      BY <1>5, <3>1, LeastNat
    <3> QED BY <1>5, <3>2 DEF Min
  <2>2. x \notin held /\ (tpc = "callback" => x # t)
    BY <1>3, <2>1
  <2>3. Freed' = Freed
    BY <1>5, <2>1 DEF Freed, Active
  <2>4. \A y \in Freed : nxt'[y] = nxt[y]
    BY <2>1 DEF Freed
  <2>5. \E gp, j : FreeList(gp, j)'
    BY <1>5, <2>3, <2>4, FreeListSame
  <2> QED BY <1>5, <2>2, <2>5 DEF WheelInv, WheelTyped
<1> QED BY <1>4, <1>5 DEF Alloc

\* timer_schedule() keeps the lists, when the spoke is not the one timer_tick()
\* is walking or none of its timers was freed yet.
LEMMA ScheduleInv ==
    ASSUME WheelInv, tpc \in {"idle", "callback"}, NEW x \in Timers, NEW d \in Int,
           timer_schedule(x, d),
           tpc = "callback" => nxt[Head(curr)] = t \/ Ticks(d) % WheelSize # 0
    PROVE  WheelInv'
<1>1. PICK sp, ps, len, up : Lists(sp, ps, len, up)
  BY DEF WheelInv
<1> DEFINE ticks == Ticks(d)
           s == (curr + ticks) % WheelSize
           turns == ticks \div WheelSize
           D == Max({now + d, nextTick + 1})
<1>2. /\ ticks \in Nat /\ ticks >= 1 /\ D \in Nat /\ D # Null
      /\ nextTick + ticks \in D .. D + 1
  BY TicksAway
<1>3. curr \in Spokes
  BY DEF WheelInv, WheelTyped
<1> HIDE DEF ticks
<1>4. /\ s \in Spokes /\ turns \in Nat /\ Distance(s) = ticks % WheelSize
      /\ ticks = WheelSize * turns + Distance(s)
  <2>1. s \in Spokes /\ turns \in Nat /\ (s - curr) % WheelSize = ticks % WheelSize
        /\ ticks = WheelSize * turns + (ticks % WheelSize)
    BY <1>2, <1>3, SpokeAhead
  <2> QED BY <2>1 DEF Distance
<1>5. s = curr => ticks % WheelSize = 0 /\ turns >= 1
  <2>1. s = curr => Distance(s) = 0
    BY <1>3, NextSpoke DEF Distance
  <2>2. s = curr => turns # 0
    <3> SUFFICES ASSUME s = curr, turns = 0 PROVE FALSE
      OBVIOUS
    <3>1. ticks = WheelSize * 0 + 0
      BY <1>4, <2>1
    <3> HIDE DEF s, turns
    <3> QED BY <1>2, <3>1, WheelSizes
  <2> HIDE DEF s, turns
  <2> QED BY <1>4, <2>1, <2>2
<1>6. Alloc(x) /\ due' = [due EXCEPT ![x] = D]
      /\ UNCHANGED <<tpc, now, nextTick, curr, t>>
  BY DEF timer_schedule
<1>7. /\ held' = held \cup {x} /\ due' \in [Timers -> Nat] /\ due'[x] = D
      /\ \A y \in Timers : y # x => due'[y] = due[y]
  <2>1. due \in [Timers -> Nat]
    BY DEF WheelInv, WheelTyped
  <2> HIDE DEF D
  <2> QED BY <1>2, <1>6, <2>1 DEF held
<1>8. x \notin held /\ (tpc = "callback" => x # t)
  <2>1. PICK fp, m : FreeList(fp, m)
    BY DEF WheelInv
  <2>2. CASE free # Null /\ x = free
    <3>1. x \in Freed
      BY <2>1, <2>2 DEF FreeList
    <3> QED BY <3>1 DEF Freed, Active
  <2>3. CASE fresh # {} /\ x = Min(fresh)
    <3>1. fresh \subseteq Nat
      BY WheelSizes DEF Timers, WheelInv, WheelTyped
    <3>2. \E z \in fresh : \A y \in fresh : z =< y
      BY <2>3, <3>1, LeastNat
    <3>3. x \in fresh
      BY <2>3, <3>2 DEF Min
    <3> QED BY <3>3 DEF WheelInv, InTick, held
  <2> QED BY <1>6, <2>2, <2>3 DEF Alloc
<1>9. tpc = "callback" /\ s = curr => nxt[Head(curr)] = t /\ turns >= 1
  BY <1>5 DEF ticks
<1> DEFINE zeroed == [nxt EXCEPT ![x] = Null]
           at == Place(Head(s), turns, zeroed, [delta EXCEPT ![x] = 0])
<1>10. PICK k \in 0 .. len[s], p \in Cells, e \in Nat :
              /\ at = [p |-> p, d |-> e]
              /\ Spot(sp, ps, up, s, turns, k, p, e)
  <2> HIDE DEF s, turns
  <2> QED BY <1>1, <1>4, <1>8, <1>9, WhereTo
<1>11. p # x /\ x \in Cells /\ p \notin Freed
  <2>1. \A y \in held : y # x /\ y \notin Freed
    BY <1>8 DEF Freed
  <2>2. Front(s) # x /\ Front(s) \notin Freed
    <3>1. Front(s) \notin Freed
      BY <1>4, Fronts
    <3>2. Head(s) # x
      BY <1>4, CellsApart
    <3> QED BY <1>8, <3>1, <3>2 DEF Front
  <2> QED BY <1>10, <2>1, <2>2, CellsApart DEF Spot
<1> DEFINE linked == [zeroed EXCEPT ![x] = zeroed[at.p], ![at.p] = x]
<1>12. /\ nxt' = linked
       /\ prv' = [c \in Cells |-> IF c = linked[x] THEN x
                                  ELSE IF c = x THEN at.p ELSE prv[c]]
       /\ delta' = [c \in Timers |-> (IF c = x THEN at.d ELSE delta[c])
                                       - (IF c = linked[x] THEN at.d ELSE 0)]
  BY DEF timer_schedule, ticks
<1>13. at.p = p /\ at.d = e
  BY <1>10
<1> HIDE DEF at
<1>14. nxt \in [Cells -> Timers \cup {Null}] /\ prv \in [Cells -> Cells \cup {Null}]
       /\ delta \in [Timers -> Int]
  BY DEF WheelInv, WheelTyped
<1>15. linked \in [Cells -> Timers \cup {Null}] /\ linked[x] = nxt[p]
       /\ \A c \in Cells : linked[c] = IF c = x THEN nxt[p]
                                       ELSE IF c = p THEN x ELSE nxt[c]
  <2>1. zeroed \in [Cells -> Timers \cup {Null}] /\ zeroed[p] = nxt[p]
        /\ \A c \in Cells : c # x => zeroed[c] = nxt[c]
    BY <1>11, <1>14
  <2> HIDE DEF zeroed
  <2> QED BY <1>11, <1>13, <2>1
<1> HIDE DEF linked
<1>16. /\ \A c \in Cells : nxt'[c] = IF c = x THEN nxt[p] ELSE IF c = p THEN x ELSE nxt[c]
       /\ \A c \in Cells : prv'[c] = IF c = nxt[p] THEN x ELSE IF c = x THEN p ELSE prv[c]
  BY <1>12, <1>13, <1>15
<1>17. \A y \in Timers : delta'[y] = (IF y = x THEN e ELSE delta[y])
                                       - (IF y = nxt[p] THEN e ELSE 0)
  BY <1>12, <1>13, <1>15
<1>18. nxt' \in [Cells -> Timers \cup {Null}] /\ prv' \in [Cells -> Cells \cup {Null}]
       /\ delta' \in [Timers -> Int]
  <2>1. prv' \in [Cells -> Cells \cup {Null}]
    BY <1>11, <1>12, <1>13, <1>14
  <2>2. \A y \in Timers : (IF y = x THEN e ELSE delta[y])
                            - (IF y = nxt[p] THEN e ELSE 0) \in Int
    BY <1>14
  <2>3. delta' \in [Timers -> Int]
    BY <1>12, <1>13, <1>15, <2>2
  <2> QED BY <1>12, <1>15, <2>1, <2>3
<1>19. \A y \in Freed : y # x => nxt'[y] = nxt[y]
  BY <1>11, <1>16, CellsApart DEF Freed
<1>20. /\ fresh' \subseteq fresh /\ free' \in Timers \cup {Null} /\ x \notin fresh'
       /\ \E fp, m : FreeList(fp, m)'
  BY <1>6, <1>7, <1>19, Allocated
<1>21. \E sq, qs, ls, us : Lists(sq, qs, ls, us)'
  <2>1. \A y \in held : due'[y] = due[y]
    BY <1>7, <1>8, HeldTimers
  <2>2. nextTick + Distance(s) + WheelSize * turns \in due'[x] .. due'[x] + 1
    <3> DEFINE mult == WheelSize * turns
               dist == Distance(s)
    <3>1. mult \in Int /\ dist \in Int
      <4>1. dist \in Int
        <5>1. ticks % WheelSize \in 0 .. WheelSize - 1
          BY <1>2, Division
        <5> QED BY <1>4, <5>1, WheelSizes
      <4>2. mult \in Int
        <5> HIDE DEF turns
        <5>1. WheelSize \in Nat /\ turns \in Nat
          BY <1>4, WheelSizes
        <5> QED BY <5>1
      <4> QED BY <4>1, <4>2
    <3>2. ticks = mult + dist
      BY <1>4
    <3>3. nextTick \in Int
      BY DEF WheelInv, WheelTyped
    <3> HIDE DEF mult, dist, D
    <3>4. nextTick + dist + mult = nextTick + ticks
      BY <3>1, <3>2, <3>3
    <3>5. nextTick + dist + mult \in due'[x] .. due'[x] + 1
      BY <1>2, <1>7, <3>4
    <3> QED BY <3>5 DEF mult, dist
  <2>3. LinkedIn(x, p, e)
    <3>1. UNCHANGED <<tpc, nextTick, curr, t>>
      BY <1>6
    <3> QED BY <1>7, <1>16, <1>17, <2>1, <3>1 DEF LinkedIn
  <2> HIDE DEF s, turns
  <2> QED BY <1>1, <1>4, <1>8, <1>10, <2>2, <2>3, Inserted
<1>22. InTick'
  <2>1. tpc = "callback" => delta'[t] = delta[t]
    <3> SUFFICES ASSUME tpc = "callback" PROVE delta'[t] = delta[t]
      OBVIOUS
    <3>1. t \in Timers /\ t \notin held /\ t # x /\ t # Null
      BY <1>8, CellsApart DEF WheelInv, InTick, held
    <3>2. nxt[p] # t
      <4>1. nxt[p] = Null \/ nxt[p] \in held
        <5>1. CASE k = 0
          <6>1. nxt[p] = First(s)
            BY <1>4, <1>10, <5>1, Fronts DEF Spot
          <6> QED BY <1>1, <1>4, <6>1 DEF Lists, Linked
        <5>2. CASE k # 0
          BY <1>1, <1>10, <5>2 DEF Lists, Linked, Spot
        <5> QED BY <5>1, <5>2
      <4> QED BY <3>1, <4>1
    <3> QED BY <1>14, <1>17, <3>1, <3>2
  <2>2. tpc = "callback" => t \in Timers /\ due'[t] = Null /\ t \notin fresh'
                              /\ delta'[t] = 0
    BY <1>7, <1>8, <1>20, <2>1 DEF WheelInv, InTick
  <2>3. \A y \in fresh' : due'[y] = Null
    BY <1>7, <1>20 DEF WheelInv, WheelTyped, InTick
  <2> QED BY <1>6, <2>2, <2>3 DEF WheelInv, InTick
<1>23. WheelTyped'
  BY <1>6, <1>7, <1>18, <1>20 DEF WheelInv, WheelTyped
<1> QED BY <1>20, <1>21, <1>22, <1>23 DEF WheelInv

\* Every step keeps the invariant, if no callback but the first of its tick
\* schedules a whole number of turns.
LEMMA WheelStep ==
    ASSUME WheelInv, [WheelNext]_wheelVars, ~FullTurns
    PROVE  WheelInv'
<1>1. CASE timer_tick
  BY <1>1, TickInv
<1>2. CASE BeginSpoke
  BY <1>2, BeginSpokeInv
<1>3. CASE Call
  BY <1>3, CallInv
<1>4. CASE CallReturns
  BY <1>4, CallReturnsInv
<1>5. CASE EndSpoke
  BY <1>5, EndSpokeInv
<1>6. CASE Caller
  <2>1. ASSUME tpc = "idle", NEW x \in Timers, NEW d \in Delays, timer_schedule(x, d)
        PROVE  WheelInv'
    BY <2>1, ScheduleInv, WheelSizes
  <2>2. ASSUME tpc = "callback", NEW x \in Timers, NEW d \in CallbackDelays,
               FullTurns \/ nxt[Head(curr)] = t \/ Ticks(d) % WheelSize # 0,
               timer_schedule(x, d)
        PROVE  WheelInv'
    BY <2>2, ScheduleInv, WheelSizes
  <2>3. ASSUME tpc \in {"idle", "callback"}, NEW x \in Timers, timer_cancel(x)
        PROVE  WheelInv'
    BY <2>3, CancelInv
  <2> QED BY <1>6, <2>1, <2>2, <2>3 DEF Caller
<1>7. CASE UNCHANGED wheelVars
  <2>1. PICK sp, ps, len, up : Lists(sp, ps, len, up)
    BY DEF WheelInv
  <2>2. PICK fp, m : FreeList(fp, m)
    BY DEF WheelInv
  <2> USE <1>7 DEF wheelVars
  <2>3. held' = held /\ Active' = Active
    BY DEF held, Active
  <2>4. Freed' = Freed /\ \A s \in Spokes : First(s)' = First(s) /\ Front(s)' = Front(s)
    BY <2>3 DEF Freed, First, Front
  <2>5. WheelTyped' /\ InTick'
    BY DEF WheelInv, WheelTyped, InTick
  <2>6. FreeList(fp, m)'
    BY <2>2, <2>4 DEF FreeList
  <2>7. Placed(sp, ps, len)' /\ Linked(sp, ps, len)' /\ Turned(sp, ps, up)'
    BY <2>1, <2>3, <2>4 DEF Lists, Placed, Linked, Turned
  <2>8. BackLinked(sp, ps)' /\ OnTime(sp, up)'
    BY <2>1, <2>3 DEF Lists, BackLinked, Front, OnTime, CalledAt, Distance
  <2> QED BY <2>5, <2>6, <2>7, <2>8 DEF WheelInv, Lists
<1> QED BY <1>1, <1>2, <1>3, <1>4, <1>5, <1>6, <1>7 DEF WheelNext

(***************************************************************************)
(* For a wheel of any size, any number of timers and any delays, the lists *)
(* of timer.c stay what the callers believe they are (WheelIntact): every  *)
(* timer a caller holds is in its spoke once, linked both ways, and will   *)
(* be called when it was asked for or a tick later; every other is free or *)
(* being called.  This is so while no callback but the first of its tick   *)
(* schedules a whole number of turns, the case NoneForgotten is about.     *)
(***************************************************************************)
THEOREM WheelStaysIntact == WheelSpec /\ ~FullTurns => []WheelIntact
<1>1. WheelInit => WheelInv
  BY InvInit
<1>2. ~FullTurns /\ WheelInv /\ [WheelNext]_wheelVars => WheelInv'
  BY WheelStep
<1>3. WheelInv => WheelIntact
  BY InvIntact
<1>4. ~FullTurns => [](~FullTurns)
  OBVIOUS
<1> QED BY <1>1, <1>2, <1>3, <1>4, PTL DEF WheelSpec

-----------------------------------------------------------------------------
(* The wheel implements TimerQueue. *)

\* The timer whose function runs, as TimerQueue's called.
Called == IF tpc = "callback" THEN t ELSE Null

\* A timer that the wheel will call later is due no earlier than this tick.
LEMMA NotYetDue ==
    ASSUME WheelInv, EndSpoke, NEW x \in held
    PROVE  due[x] >= nextTick
<1>1. PICK sp, ps, len, up : Lists(sp, ps, len, up)
  BY DEF WheelInv
<1>2. /\ x \in Timers /\ sp[x] \in Spokes /\ up[x] \in Nat /\ ps[x] \in Nat /\ ps[x] >= 1
      /\ ps[x] <= len[sp[x]]
  BY <1>1, Places
<1>3. curr \in Spokes /\ nextTick \in Nat /\ due[x] \in Nat
  BY <1>2 DEF WheelInv, WheelTyped
<1>4. CalledAt(x, sp, up) \in due[x] .. due[x] + 1
  BY <1>1 DEF Lists, OnTime
<1> DEFINE dist == Distance(sp[x])
           mult == WheelSize * up[x]
<1>5. dist \in Nat /\ (dist = 0 <=> sp[x] = curr)
  <2> DEFINE r == (sp[x] - curr) % WheelSize
  <2>1. r \in 0 .. WheelSize - 1 /\ (r = 0 <=> sp[x] = curr)
    BY <1>2, <1>3, NextSpoke
  <2> HIDE DEF r
  <2>2. r \in Nat
    BY <2>1, WheelSizes
  <2> QED BY <2>1, <2>2 DEF Distance, r
<1>6. mult \in Nat /\ (up[x] >= 1 => mult >= 1)
  <2> DEFINE w == WheelSize
             u == up[x]
  <2>1. w \in Nat /\ w >= 1 /\ u \in Nat
    BY <1>2, WheelSizes
  <2> HIDE DEF w, u
  <2>2. w * u \in Nat /\ (u >= 1 => w * u >= 1)
    BY <2>1
  <2> QED BY <2>2 DEF w, u
<1>7. sp[x] = curr => up[x] >= 1
  <2> SUFFICES ASSUME sp[x] = curr PROVE up[x] >= 1
    OBVIOUS
  <2>1. len[curr] # 0 /\ First(curr) = t
    BY <1>1, <1>2 DEF EndSpoke, First, Lists, Placed
  <2>2. t \in held /\ sp[t] = curr /\ ps[t] = 1
    BY <1>1, <1>3, <2>1 DEF Lists, Linked
  <2>3. t # Null
    BY <2>2, HeldTimers, CellsApart
  <2>4. delta[t] = up[t] /\ delta[t] # 0 /\ up[t] \in Nat
    BY <1>1, <2>2, <2>3, Places DEF Lists, Turned, EndSpoke, Expired
  <2>5. up[t] <= up[x]
    BY <1>1, <1>2, <2>2 DEF Lists, Turned
  <2> QED BY <1>2, <2>4, <2>5
<1>8. dist + mult >= 1
  <2> HIDE DEF dist, mult
  <2> QED BY <1>5, <1>6, <1>7
<1>9. CalledAt(x, sp, up) = nextTick + dist + mult
  BY DEF CalledAt
<1> HIDE DEF dist, mult
<1> QED BY <1>3, <1>4, <1>5, <1>6, <1>8, <1>9

\* The timer that is called is due at this tick or the one before.
LEMMA DueNow ==
    ASSUME WheelInv, Call
    PROVE  t \in Timers /\ due[t] \in {nextTick - 1, nextTick} /\ nextTick <= now
<1>1. PICK sp, ps, len, up : Lists(sp, ps, len, up)
  BY DEF WheelInv
<1>2. t \in held /\ sp[t] = curr /\ up[t] = 0 /\ curr \in Spokes
  BY <1>1, ExpiredFirst DEF Call, Expired
<1>3. t \in Timers /\ nextTick \in Nat /\ due[t] \in Nat
  BY <1>2, HeldTimers DEF WheelInv, WheelTyped
<1>4. Distance(sp[t]) = 0
  BY <1>2, NextSpoke DEF Distance
<1>5. CalledAt(t, sp, up) = nextTick + 0 + WheelSize * 0
  BY <1>2, <1>4 DEF CalledAt
<1>6. CalledAt(t, sp, up) = nextTick
  BY <1>3, <1>5, WheelSizes
<1>7. CalledAt(t, sp, up) \in due[t] .. due[t] + 1
  BY <1>1, <1>2 DEF Lists, OnTime
<1> QED BY <1>3, <1>6, <1>7 DEF Call, WheelInv, InTick

\* A new timer was in nobody's hands.
LEMMA NewTimer ==
    ASSUME WheelInv, NEW x \in Timers, Alloc(x)
    PROVE  due[x] = Null /\ x # Called
<1>1. PICK fp, m : FreeList(fp, m)
  BY DEF WheelInv
<1>2. CASE free # Null /\ x = free
  <2>1. x \in Freed
    BY <1>1, <1>2 DEF FreeList
  <2> QED BY <2>1, CellsApart DEF Freed, Active, held, Called
<1>3. CASE fresh # {} /\ x = Min(fresh)
  <2>1. fresh \subseteq Nat
    BY WheelSizes DEF Timers, WheelInv, WheelTyped
  <2>2. \E z \in fresh : \A y \in fresh : z =< y
    BY <1>3, <2>1, LeastNat
  <2>3. x \in fresh
    BY <1>3, <2>2 DEF Min
  <2> QED BY <2>3, CellsApart DEF WheelInv, InTick, Called
<1> QED BY <1>2, <1>3 DEF Alloc

\* Max is the same in both modules.
LEMMA SameMax == \A S : TQ!Max(S) = Max(S)
  BY DEF TQ!Max, Max

\* An empty wheel has no timers pending.
LEMMA TimersInit ==
    ASSUME WheelInit
    PROVE  TQ!Init
  BY DEF WheelInit, TQ!Init

\* timer_tick() passes time, Call fires a timer, CallReturns returns, EndSpoke
\* advances the clock, and a caller's step is its own; BeginSpoke is a stutter.
LEMMA TimersStep ==
    ASSUME WheelInv, [WheelNext]_wheelVars
    PROVE  [TQ!Next]_(TQ!vars)
<1>1. CASE timer_tick
  <2>1. now' > now
    BY <1>1 DEF timer_tick, WheelInv, WheelTyped
  <2>2. TQ!Pass
    BY <1>1, <2>1 DEF timer_tick, TQ!Pass
  <2> QED BY <2>2 DEF TQ!Next
<1>2. CASE BeginSpoke
  BY <1>2 DEF BeginSpoke, TQ!vars
<1>3. CASE Call
  <2>1. t \in Timers /\ due[t] \in {nextTick - 1, nextTick} /\ nextTick <= now
    BY <1>3, DueNow
  <2>2. TQ!Fire(t)
    BY <1>3, <2>1 DEF Call, TQ!Fire
  <2> QED BY <2>1, <2>2 DEF TQ!Next
<1>4. CASE CallReturns
  <2>1. t # Null
    BY <1>4, CellsApart DEF CallReturns, WheelInv, InTick
  <2>2. TQ!Return
    BY <1>4, <2>1 DEF CallReturns, TQ!Return
  <2> QED BY <2>2 DEF TQ!Next
<1>5. CASE EndSpoke
  <2>1. \A x \in held : due[x] >= nextTick
    BY <1>5, NotYetDue
  <2>2. nextTick <= now
    BY <1>5 DEF EndSpoke, WheelInv, InTick
  <2>3. TQ!Advance
    BY <1>5, <2>1, <2>2 DEF EndSpoke, TQ!Advance, TQ!Pending, held
  <2> QED BY <2>3 DEF TQ!Next
<1>6. ASSUME NEW x \in Timers, NEW d \in Delays \cup CallbackDelays, timer_schedule(x, d)
      PROVE  TQ!Next
  <2>1. Alloc(x) /\ due' = [due EXCEPT ![x] = Max({now + d, nextTick + 1})]
        /\ UNCHANGED <<tpc, now, nextTick, curr, t>>
    BY <1>6 DEF timer_schedule
  <2>2. due[x] = Null /\ x # Called
    BY <2>1, NewTimer
  <2>3. TQ!Schedule(x)
    BY <2>1, <2>2, SameMax DEF TQ!Schedule, Called
  <2> QED BY <2>3 DEF TQ!Next
<1>7. ASSUME NEW x \in Timers, timer_cancel(x)
      PROVE  TQ!Next
  <2>1. TQ!Cancel(x)
    BY <1>7 DEF timer_cancel, TQ!Cancel, held
  <2> QED BY <2>1 DEF TQ!Next
<1>8. CASE Caller
  BY <1>6, <1>7, <1>8 DEF Caller
<1>9. CASE UNCHANGED wheelVars
  BY <1>9 DEF wheelVars, TQ!vars
<1> QED BY <1>1, <1>2, <1>3, <1>4, <1>5, <1>8, <1>9 DEF WheelNext

(***************************************************************************)
(* Under the same condition the wheel implements TimerQueue: timer_tick()  *)
(* calls each timer once, at the tick its delay amounts to or the next,    *)
(* unless it is cancelled, and no tick is passed with a timer still due.   *)
(***************************************************************************)
THEOREM WheelImplementsTimers == WheelSpec /\ ~FullTurns => ImplementsTimers
<1>1. WheelInit => WheelInv /\ TQ!Init
  BY InvInit, TimersInit
<1>2. ~FullTurns /\ WheelInv /\ [WheelNext]_wheelVars => WheelInv'
  BY WheelStep
<1>3. WheelInv /\ [WheelNext]_wheelVars => [TQ!Next]_(TQ!vars)
  BY TimersStep
<1>4. ~FullTurns => [](~FullTurns)
  OBVIOUS
<1> QED BY <1>1, <1>2, <1>3, <1>4, PTL DEF WheelSpec, ImplementsTimers, TQ!Spec
==============================================================================
