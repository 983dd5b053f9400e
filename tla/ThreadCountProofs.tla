------------------------- MODULE ThreadCountProofs -------------------------
(***************************************************************************)
(* thread_sNum counts the threads main waits for, and main leaves after    *)
(* the last transfer: for any number of sessions, any configuration and    *)
(* any number of signals.                                                  *)
(***************************************************************************)
EXTENDS ThreadCount, FiniteSetTheorems, SequenceTheorems, TLAPS

\* The three parts of the count.
Waited == {"connect", "run", "dec"}
Counted == {t \in Threads \ {L} : stage[t] \in Waited}
ListenerCounts == IF stage[L] \in {"register", "dec"} THEN 1
                  ELSE IF stage[L] \in Registered THEN nonterm
                  ELSE 0
Twice == IF stopped /\ nonterm = 0 THEN 1 ELSE 0

\* What kind of thread can be where.
Places ==
    /\ \A t \in Transfers : stage[t] \in Waited \cup {"none", "next", "gone"}
    /\ \A t \in Transfers : stage[t] = "next" => HasNext(t)
    /\ stage[R] \in {"none", "run", "idle"}
    /\ stage[L] \in Registered \cup {"none", "register", "dec", "gone"}

\* Nobody has started what main is still to start.
Pending ==
    \E n \in 1 .. Len(cfg.start) + 1 :
        /\ todo = SubSeq(cfg.start, n, Len(cfg.start))
        /\ \A k \in n .. Len(cfg.start) : stage[cfg.start[k]] = "none"
        /\ main = "start" => n <= Len(cfg.start)

\* The listener starts what has not been started: the server of the session
\* it has accepted, and no speaker that a server starts at its end.
Unstarted ==
    /\ stage[L] \in {"release", "spawn"} =>
          accepted \in Sessions /\ stage[Server(accepted)] = "none"
    /\ ~cfg.runNow => \A i \in Sessions :
          stage[Speaker(i)] # "none" => stage[Server(i)] = "gone"

\* nonterminating_num belongs to the listener, or is left by one that failed.
Nonterm ==
    /\ nonterm = 1 => stage[L] \in Registered \/ (stage[L] = "gone" /\ stopped)
    /\ stopped => stage[L] = "gone"

IndInv == TypeOK /\ CountAccurate /\ Places /\ Pending /\ Unstarted /\ Nonterm

-----------------------------------------------------------------------------
(* Threads and the count *)

\* The threads are different.
LEMMA ThreadKinds ==
    /\ L \in Threads /\ R \in Threads /\ L # R /\ L \notin Transfers /\ R \notin Transfers
    /\ \A t \in Threads : t = L \/ t = R \/ t \in Transfers
    /\ \A i \in Sessions : /\ Server(i) \in Transfers /\ Speaker(i) \in Transfers
                           /\ Server(i) # Speaker(i)
    /\ \A i, j \in Sessions : /\ Server(i) # Speaker(j)
                              /\ Server(i) = Server(j) => i = j
                              /\ Speaker(i) = Speaker(j) => i = j
    /\ \A t \in Transfers : HasNext(t) => t[2] \in Sessions /\ t = Server(t[2])
  BY DEF L, R, Threads, Transfers, Server, Speaker, HasNext

\* Which thread starts where, and which has a runNext.
LEMMA Stepping ==
    /\ ~HasNext(L)
    /\ FirstStage(L) = "register" /\ FirstStage(R) = "run"
    /\ \A t \in {"client", "speaker"} \X Sessions : FirstStage(t) = "connect"
    /\ \A i \in Sessions : FirstStage(Speaker(i)) = "connect" /\ FirstStage(Server(i)) = "run"
  BY DEF HasNext, FirstStage, L, R, Speaker, Server

\* There are finitely many threads.
LEMMA ThreadsFinite == IsFiniteSet(Threads)
<1>1. IsFiniteSet({"client", "server", "speaker"})
  <2>1. IsFiniteSet({"client"}) /\ IsFiniteSet({"server"}) /\ IsFiniteSet({"speaker"})
    BY FS_Singleton
  <2>2. IsFiniteSet({"client"} \cup {"server"})
    BY <2>1, FS_Union
  <2>3. IsFiniteSet(({"client"} \cup {"server"}) \cup {"speaker"})
    BY <2>1, <2>2, FS_Union
  <2>4. ({"client"} \cup {"server"}) \cup {"speaker"} = {"client", "server", "speaker"}
    OBVIOUS
  <2> QED BY <2>3, <2>4
<1>2. IsFiniteSet(Transfers)
  BY <1>1, CountAssumption, FS_Product DEF Transfers
<1>3. IsFiniteSet({L} \cup {R})
  BY FS_Singleton, FS_Union
<1>4. Threads = ({L} \cup {R}) \cup Transfers
  BY DEF Threads
<1> QED BY <1>2, <1>3, <1>4, FS_Union

\* So those main waits for can be counted; the listener is not among them.
LEMMA CountedFinite ==
    /\ IsFiniteSet(Counted) /\ Cardinality(Counted) \in Nat
    /\ Cardinality(Counted) <= Cardinality(Threads) - 1
    /\ Cardinality(Threads) \in Nat
<1>1. IsFiniteSet(Threads \ {L}) /\ Cardinality(Threads \ {L}) = Cardinality(Threads) - 1
  BY ThreadsFinite, ThreadKinds, FS_RemoveElement
<1>2. Counted \in SUBSET (Threads \ {L})
  BY DEF Counted
<1>3. IsFiniteSet(Counted) /\ Cardinality(Counted) <= Cardinality(Threads) - 1
  BY <1>1, <1>2, FS_Subset
<1> QED BY <1>3, ThreadsFinite, FS_CardinalityType

\* One more thread to wait for.
LEMMA CountedEnters ==
    ASSUME NEW t \in Threads \ {L}, stage[t] \notin Waited, stage'[t] \in Waited,
           \A u \in Threads \ {L, t} : stage'[u] \in Waited <=> stage[u] \in Waited
    PROVE  Cardinality(Counted)' = Cardinality(Counted) + 1
<1>1. Counted' = Counted \cup {t} /\ t \notin Counted
  BY DEF Counted
<1> QED BY <1>1, CountedFinite, FS_AddElement

\* One thread less to wait for.
LEMMA CountedLeaves ==
    ASSUME NEW t \in Threads \ {L}, stage[t] \in Waited, stage'[t] \notin Waited,
           \A u \in Threads \ {L, t} : stage'[u] \in Waited <=> stage[u] \in Waited
    PROVE  Cardinality(Counted)' = Cardinality(Counted) - 1
<1>1. Counted' = Counted \ {t} /\ t \in Counted
  BY DEF Counted
<1> QED BY <1>1, CountedFinite, FS_RemoveElement

\* The threads to wait for are the same.
LEMMA CountedStays ==
    ASSUME \A u \in Threads \ {L} : stage'[u] \in Waited <=> stage[u] \in Waited
    PROVE  Cardinality(Counted)' = Cardinality(Counted)
<1>1. Counted' = Counted
  BY DEF Counted
<1> QED BY <1>1

\* CountAccurate with its parts named.
LEMMA CountParts ==
    CountAccurate <=> TypeOK /\ sNum = Cardinality(Counted) + ListenerCounts - Twice
  BY DEF CountAccurate, Counted, Waited, ListenerCounts, Twice

\* The range of thread_sNum follows from what it counts.
LEMMA CountInRange ==
    ASSUME sNum = Cardinality(Counted) + ListenerCounts - Twice, nonterm \in 0 .. 1
    PROVE  sNum \in -1 .. Cardinality(Threads)
<1>1. ListenerCounts \in 0 .. 1 /\ Twice \in 0 .. 1
  BY DEF ListenerCounts, Twice
<1>2. /\ Cardinality(Counted) \in Nat /\ Cardinality(Counted) <= Cardinality(Threads) - 1
      /\ Cardinality(Threads) \in Nat
  BY CountedFinite
<1> QED BY <1>1, <1>2

-----------------------------------------------------------------------------
\* main is about to start its first thread.
LEMMA InitInv == Init => IndInv
<1> SUFFICES ASSUME Init PROVE IndInv
  OBVIOUS
<1>1. cfg \in Config /\ cfg.start \in Seq(Threads) /\ cfg.mThreads \in Nat /\ cfg.start # <<>>
  BY CountAssumption DEF Init, Config
<1>2. \A t \in Threads : stage[t] = "none"
  BY DEF Init
<1>3. Pending
  <2>1. SubSeq(cfg.start, 1, Len(cfg.start)) = cfg.start /\ Len(cfg.start) \in Nat
    BY <1>1
  <2>2. Len(cfg.start) >= 1
    BY <1>1, EmptySeq, <2>1
  <2>3. \A k \in 1 .. Len(cfg.start) : cfg.start[k] \in Threads
    BY <1>1
  <2> QED BY <1>2, <2>1, <2>2, <2>3 DEF Init, Pending
<1>4. Cardinality(Counted) = 0
  <2>1. Counted = {}
    BY <1>2 DEF Counted, Waited
  <2> QED BY <2>1, FS_EmptySet
<1>5. ListenerCounts = 0 /\ Twice = 0 /\ sNum = 0 /\ nonterm = 0
  BY <1>2, ThreadKinds DEF Init, ListenerCounts, Twice, Registered
<1>6. TypeOK
  <2>1. sNum \in -1 .. Cardinality(Threads)
    BY <1>4, <1>5, CountInRange
  <2>2. \E n \in 1 .. Len(cfg.start) + 1 : todo = SubSeq(cfg.start, n, Len(cfg.start))
    BY <1>3 DEF Pending
  <2>3. stage \in [Threads -> Stages]
    BY DEF Init, Stages
  <2>4. nonterm \in 0 .. 1 /\ signals \in 0 .. MaxSignals /\ mClients \in Int
    BY <1>1, <1>5, CountAssumption DEF Init
  <2> QED BY <2>1, <2>2, <2>3, <2>4 DEF Init, TypeOK
<1>7. CountAccurate
  BY <1>4, <1>5, <1>6, CountParts
<1>8. Places /\ Unstarted /\ Nonterm
  <2>1. /\ stage[L] = "none" /\ stage[R] = "none" /\ ~stopped
        /\ \A t \in Transfers : stage[t] = "none"
    BY <1>2, ThreadKinds DEF Init, Threads
  <2> QED BY <1>5, <2>1, ThreadKinds DEF Places, Unstarted, Nonterm
<1> QED BY <1>3, <1>6, <1>7, <1>8 DEF IndInv

-----------------------------------------------------------------------------
(* What the steps have in common *)

\* All of TypeOK but the range of the count.
TypeRest ==
    /\ cfg \in Configs /\ main \in {"start", "join", "exited", "killed"}
    /\ stage \in [Threads -> Stages] /\ accepted \in Sessions \cup {0}
    /\ nonterm \in 0 .. 1 /\ mClients \in Int /\ sInterupted \in BOOLEAN
    /\ sThread \in Threads \cup {Main, NoThread} /\ timer \in BOOLEAN
    /\ signals \in 0 .. MaxSignals /\ stopped \in BOOLEAN

\* The invariant follows from its parts; the range of thread_sNum from the
\* count.
LEMMA Assemble ==
    ASSUME TypeRest', sNum' = Cardinality(Counted)' + ListenerCounts' - Twice',
           Places', Pending', Unstarted', Nonterm'
    PROVE  IndInv'
<1>1. sNum' \in -1 .. Cardinality(Threads)
  <2>1. nonterm' \in 0 .. 1
    BY DEF TypeRest
  <2>2. ListenerCounts' \in 0 .. 1 /\ Twice' \in 0 .. 1
    BY <2>1 DEF ListenerCounts, Twice
  <2>3. IsFiniteSet(Threads \ {L}) /\ Cardinality(Threads \ {L}) = Cardinality(Threads) - 1
    BY ThreadsFinite, ThreadKinds, FS_RemoveElement
  <2>4. Counted' \in SUBSET (Threads \ {L})
    BY DEF Counted
  <2>5. IsFiniteSet(Counted') /\ Cardinality(Counted') <= Cardinality(Threads) - 1
    BY <2>3, <2>4, FS_Subset
  <2>6. Cardinality(Counted') \in Nat /\ Cardinality(Threads) \in Nat
    BY <2>5, ThreadsFinite, FS_CardinalityType
  <2> QED BY <2>2, <2>5, <2>6
<1>2. \E n \in 1 .. Len(cfg'.start) + 1 : todo' = SubSeq(cfg'.start, n, Len(cfg'.start))
  BY DEF Pending
<1>3. TypeOK'
  BY <1>1, <1>2 DEF TypeOK, TypeRest
<1>4. CountAccurate'
  BY <1>3 DEF CountAccurate, Counted, Waited, ListenerCounts, Twice
<1> QED BY <1>3, <1>4 DEF IndInv

\* And its parts from the invariant.
LEMMA Disassemble ==
    ASSUME IndInv
    PROVE  /\ TypeRest /\ sNum = Cardinality(Counted) + ListenerCounts - Twice
           /\ Cardinality(Counted) \in Nat /\ ListenerCounts \in 0 .. 1 /\ Twice \in 0 .. 1
           /\ Places /\ Pending /\ Unstarted /\ Nonterm
<1>1. TypeRest
  BY DEF IndInv, TypeOK, TypeRest
<1>2. nonterm \in 0 .. 1
  BY <1>1 DEF TypeRest
<1> QED BY <1>1, <1>2, CountParts, CountedFinite DEF IndInv, ListenerCounts, Twice

\* What main has still to start is not started by anybody else.
LEMMA PendingKept ==
    ASSUME Pending, TypeRest, cfg' = cfg, todo' = todo, main' = "start" => main = "start",
           \A t \in {L, R} \cup ({"client"} \X Sessions) : stage[t] = "none" => stage'[t] = "none"
    PROVE  Pending'
<1>1. \A k \in 1 .. Len(cfg.start) : cfg.start[k] \in {L, R} \cup ({"client"} \X Sessions)
  <2>1. cfg.start \in Seq(Threads) /\ DOMAIN cfg.start = 1 .. Len(cfg.start)
    BY CountAssumption DEF TypeRest, Config
  <2> QED BY <2>1, CountAssumption DEF TypeRest
<1>2. Len(cfg.start) \in Nat
  BY CountAssumption DEF TypeRest, Config
<1>3. PICK n \in 1 .. Len(cfg.start) + 1 :
        /\ todo = SubSeq(cfg.start, n, Len(cfg.start))
        /\ \A k \in n .. Len(cfg.start) : stage[cfg.start[k]] = "none"
        /\ main = "start" => n <= Len(cfg.start)
  BY DEF Pending
<1>4. \A k \in n .. Len(cfg.start) : stage'[cfg.start[k]] = "none"
  BY <1>1, <1>2, <1>3
<1> QED BY <1>3, <1>4 DEF Pending

\* A transfer that main waits for goes on or ends.
LEMMA TransferStep ==
    ASSUME IndInv, NEW t \in Transfers, stage[t] \in Waited,
           NEW x \in Waited \cup {"next", "gone"}, x = "next" => HasNext(t),
           stage' = [stage EXCEPT ![t] = x],
           sNum' = IF x \in Waited THEN sNum ELSE sNum - 1,
           UNCHANGED <<proc, sInterupted, sThread, signals, nonterm, stopped>>, timer' \in BOOLEAN
    PROVE  IndInv'
<1> USE Disassemble, ThreadKinds
<1>1. /\ stage'[t] = x /\ \A u \in Threads : u # t => stage'[u] = stage[u]
      /\ stage' \in [Threads -> Stages] /\ t \in Threads /\ t # L /\ t # R
  BY DEF TypeRest, Stages, Waited, Threads
<1>2. UNCHANGED <<cfg, main, todo, accepted, mClients, nonterm, stopped>>
  BY DEF proc
<1>3. TypeRest'
  BY <1>1, <1>2 DEF TypeRest
<1>4. sNum' = Cardinality(Counted)' + ListenerCounts' - Twice'
  <2>1. ListenerCounts' = ListenerCounts /\ Twice' = Twice
    BY <1>1, <1>2 DEF ListenerCounts, Twice
  <2>2. Cardinality(Counted)' = IF x \in Waited THEN Cardinality(Counted)
                                               ELSE Cardinality(Counted) - 1
    BY <1>1, CountedStays, CountedLeaves
  <2> QED BY <2>1, <2>2
<1>5. Places'
  BY <1>1, <1>2 DEF Places, HasNext, Threads
<1>6. Pending'
  <2>1. \A u \in {L, R} \cup ({"client"} \X Sessions) : u \in Threads
    BY DEF Threads, Transfers
  <2> QED BY <1>1, <1>2, <2>1, PendingKept DEF Waited
<1>7. Unstarted'
  <2>1. \A i \in Sessions : stage[Server(i)] = "none" => stage'[Server(i)] = "none"
    BY <1>1 DEF Waited, Threads
  <2>2. \A i \in Sessions : stage'[Speaker(i)] # "none" => stage[Speaker(i)] # "none"
    BY <1>1 DEF Waited, Threads
  <2>3. \A i \in Sessions : stage[Server(i)] = "gone" => stage'[Server(i)] = "gone"
    BY <1>1 DEF Waited, Threads
  <2> QED BY <1>1, <1>2, <2>1, <2>2, <2>3 DEF Unstarted
<1>8. Nonterm'
  BY <1>1, <1>2 DEF Nonterm
<1> QED BY <1>3, <1>4, <1>5, <1>6, <1>7, <1>8, Assemble

\* The listener changes its stage, and perhaps the counters.
LEMMA ListenerStep ==
    ASSUME IndInv, stage[L] \notin {"none", "gone"},
           NEW x \in Registered \cup {"dec", "gone"}, stage' = [stage EXCEPT ![L] = x],
           UNCHANGED <<cfg, main, todo, sig>>, nonterm' \in 0 .. 1, mClients' \in Int,
           accepted' \in Sessions \cup {0}, stopped' \in BOOLEAN,
           sNum' - ListenerCounts' + Twice' = sNum - ListenerCounts + Twice, sNum' \in Int,
           Nonterm',
           x \in {"release", "spawn"} =>
              accepted' \in Sessions /\ stage[Server(accepted')] = "none"
    PROVE  IndInv'
<1> USE Disassemble, ThreadKinds
<1>1. /\ stage'[L] = x /\ \A u \in Threads : u # L => stage'[u] = stage[u]
      /\ stage' \in [Threads -> Stages]
  BY DEF TypeRest, Stages, Registered
<1>2. TypeRest'
  BY <1>1 DEF TypeRest, sig
<1>3. sNum' = Cardinality(Counted)' + ListenerCounts' - Twice'
  <2>1. Cardinality(Counted)' = Cardinality(Counted)
    BY <1>1, CountedStays
  <2>2. ListenerCounts' \in 0 .. 1 /\ Twice' \in 0 .. 1
    BY DEF ListenerCounts, Twice
  <2> QED BY <2>1, <2>2
<1>4. Places'
  BY <1>1 DEF Places, HasNext, Threads
<1>5. Pending'
  <2>1. \A u \in {L, R} \cup ({"client"} \X Sessions) : u \in Threads
    BY DEF Threads, Transfers
  <2> QED BY <1>1, <2>1, PendingKept
<1>6. Unstarted'
  <2>1. \A i \in Sessions : /\ stage'[Server(i)] = stage[Server(i)]
                             /\ stage'[Speaker(i)] = stage[Speaker(i)]
    BY <1>1 DEF Threads
  <2> QED BY <1>1, <2>1 DEF Unstarted
<1> QED BY <1>2, <1>3, <1>4, <1>5, <1>6, Assemble

\* The reporter goes to sleep or wakes up.
LEMMA ReporterStep ==
    ASSUME IndInv, UNCHANGED <<proc, sig, nonterm, stopped>>,
           \/ stage[R] = "run" /\ stage' = [stage EXCEPT ![R] = "idle"] /\ sNum' = sNum - 1
           \/ stage[R] = "idle" /\ stage' = [stage EXCEPT ![R] = "run"] /\ sNum' = sNum + 1
    PROVE  IndInv'
<1> USE Disassemble, ThreadKinds
<1>1. /\ stage'[R] \in {"run", "idle"} /\ \A u \in Threads : u # R => stage'[u] = stage[u]
      /\ stage' \in [Threads -> Stages]
  BY DEF TypeRest, Stages
<1>2. UNCHANGED <<cfg, main, todo, accepted, mClients, nonterm, stopped>>
  BY DEF proc
<1>3. TypeRest'
  BY <1>1, <1>2 DEF TypeRest, sig
<1>4. sNum' = Cardinality(Counted)' + ListenerCounts' - Twice'
  <2>1. ListenerCounts' = ListenerCounts /\ Twice' = Twice
    BY <1>1, <1>2 DEF ListenerCounts, Twice
  <2>2. stage[R] = "run" => Cardinality(Counted)' = Cardinality(Counted) - 1
    BY <1>1, CountedLeaves DEF TypeRest, Waited
  <2>3. stage[R] = "idle" => Cardinality(Counted)' = Cardinality(Counted) + 1
    BY <1>1, CountedEnters DEF TypeRest, Waited
  <2> QED BY <2>1, <2>2, <2>3
<1>5. Places'
  BY <1>1, <1>2 DEF Places, HasNext, Threads
<1>6. Pending'
  <2>1. \A u \in {L, R} \cup ({"client"} \X Sessions) : u \in Threads
    BY DEF Threads, Transfers
  <2> QED BY <1>1, <1>2, <2>1, PendingKept
<1>7. Unstarted'
  <2>1. \A i \in Sessions : /\ stage'[Server(i)] = stage[Server(i)]
                             /\ stage'[Speaker(i)] = stage[Speaker(i)]
    BY <1>1 DEF Threads
  <2> QED BY <1>1, <1>2, <2>1 DEF Unstarted
<1>8. Nonterm'
  BY <1>1, <1>2 DEF Nonterm
<1> QED BY <1>3, <1>4, <1>5, <1>6, <1>7, <1>8, Assemble

-----------------------------------------------------------------------------
(* One lemma per action *)

\* thread_start counts the thread before it runs.
LEMMA MainStartInv ==
    ASSUME IndInv, MainStart
    PROVE  IndInv'
<1> USE Disassemble, ThreadKinds
<1>1. cfg.start \in Seq(Threads) /\ Len(cfg.start) \in Nat /\ DOMAIN cfg.start = 1 .. Len(cfg.start)
  BY CountAssumption DEF TypeRest, Config
<1>2. PICK n \in 1 .. Len(cfg.start) :
        /\ todo = SubSeq(cfg.start, n, Len(cfg.start))
        /\ \A k \in n .. Len(cfg.start) : stage[cfg.start[k]] = "none"
  BY <1>1 DEF Pending, MainStart
<1> DEFINE t == cfg.start[n]
<1>3. Head(todo) = t /\ Tail(todo) = SubSeq(cfg.start, n + 1, Len(cfg.start))
  BY <1>1, <1>2
<1>4. t \in {L, R} \cup ({"client"} \X Sessions) /\ t \in Threads /\ stage[t] = "none"
  BY <1>1, <1>2, CountAssumption DEF TypeRest
<1>5. FirstStage(t) = IF t = L THEN "register" ELSE IF t = R THEN "run" ELSE "connect"
  BY <1>4, Stepping
<1>6. /\ stage' = [stage EXCEPT ![t] = FirstStage(t)] /\ sNum' = sNum + 1
      /\ UNCHANGED <<cfg, accepted, mClients, sig, nonterm, stopped>>
      /\ todo' = Tail(todo) /\ main' = IF Tail(todo) = <<>> THEN "join" ELSE "start"
  <2> HIDE DEF t
  <2>1. stage' = [stage EXCEPT ![t] = FirstStage(t), ![t] = FirstStage(t)] /\ sNum' = sNum + 1
    BY <1>3 DEF MainStart, thread_start
  <2>2. stage \in [Threads -> Stages]
    BY DEF TypeRest
  <2>3. stage' = [stage EXCEPT ![t] = FirstStage(t)]
    BY <1>4, <2>1, <2>2
  <2>4. UNCHANGED nonterm
    BY DEF MainStart, thread_start
  <2> QED BY <2>1, <2>3, <2>4 DEF MainStart
<1> HIDE DEF t
<1>7. /\ stage'[t] = FirstStage(t) /\ \A u \in Threads : u # t => stage'[u] = stage[u]
      /\ stage' \in [Threads -> Stages]
  BY <1>4, <1>5, <1>6 DEF TypeRest, Stages
<1>8. TypeRest'
  BY <1>6, <1>7 DEF TypeRest, sig
<1>9. sNum' = Cardinality(Counted)' + ListenerCounts' - Twice'
  <2>1. CASE t = L
    <3>1. ListenerCounts = 0 /\ ListenerCounts' = 1 /\ ~stopped /\ Twice' = Twice
      BY <1>4, <1>5, <1>6, <1>7, <2>1 DEF ListenerCounts, Registered, Nonterm, Twice
    <3>2. Cardinality(Counted)' = Cardinality(Counted)
      BY <1>7, <2>1, CountedStays
    <3> QED BY <1>6, <3>1, <3>2
  <2>2. CASE t # L
    <3>1. ListenerCounts' = ListenerCounts /\ Twice' = Twice
      BY <1>6, <1>7, <2>2 DEF ListenerCounts, Twice
    <3>2. Cardinality(Counted)' = Cardinality(Counted) + 1
      BY <1>4, <1>5, <1>7, <2>2, CountedEnters DEF Waited
    <3> QED BY <1>6, <3>1, <3>2
  <2> QED BY <2>1, <2>2
<1>10. Places'
  <2>1. t \in Transfers => FirstStage(t) = "connect"
    BY <1>5
  <2>2. UNCHANGED cfg /\ \A u \in Transfers : u \in Threads
    BY <1>6 DEF Threads
  <2>3. \A u \in Transfers : stage'[u] \in Waited \cup {"none", "next", "gone"}
                              /\ (stage'[u] = "next" => HasNext(u)')
    BY <1>7, <2>1, <2>2 DEF Places, HasNext, Waited
  <2>4. stage'[R] \in {"none", "run", "idle"}
    BY <1>5, <1>7 DEF Places
  <2>5. stage'[L] \in Registered \cup {"none", "register", "dec", "gone"}
    BY <1>5, <1>7 DEF Places
  <2> QED BY <2>3, <2>4, <2>5 DEF Places
<1>11. Pending'
  <2>1. \A k \in n + 1 .. Len(cfg.start) : cfg.start[k] # t /\ cfg.start[k] \in Threads
    BY <1>1, CountAssumption DEF TypeRest, t
  <2>2. \A k \in n + 1 .. Len(cfg.start) : stage'[cfg.start[k]] = "none"
    <3>1. \A k \in n + 1 .. Len(cfg.start) : k \in n .. Len(cfg.start)
      BY <1>1
    <3> QED BY <1>2, <1>7, <2>1, <3>1
  <2>3. n + 1 > Len(cfg.start) => Tail(todo) = <<>>
    BY <1>1, <1>3
  <2>4. main' = "start" => n + 1 <= Len(cfg.start)
    BY <1>1, <1>6, <2>3
  <2>5. n + 1 \in 1 .. Len(cfg.start) + 1
    BY <1>1
  <2>6. cfg' = cfg /\ todo' = SubSeq(cfg.start, n + 1, Len(cfg.start))
    BY <1>3, <1>6
  <2> QED BY <2>2, <2>4, <2>5, <2>6 DEF Pending
<1>12. Unstarted'
  <2>1. \A i \in Sessions : Server(i) # t /\ Speaker(i) # t
    BY <1>4 DEF Server, Speaker, L, R
  <2>2. \A i \in Sessions : /\ stage'[Server(i)] = stage[Server(i)]
                             /\ stage'[Speaker(i)] = stage[Speaker(i)]
    BY <1>7, <2>1 DEF Threads
  <2>3. stage'[L] \in {"release", "spawn"} => stage[L] = stage'[L]
    BY <1>5, <1>7
  <2> QED BY <1>6, <2>2, <2>3 DEF Unstarted
<1>13. Nonterm'
  BY <1>4, <1>6, <1>7 DEF Nonterm, Registered
<1> QED BY <1>8, <1>9, <1>10, <1>11, <1>12, <1>13, Assemble

\* main and the signal handler, which leave all threads where they are.
LEMMA MainStep ==
    ASSUME IndInv, UNCHANGED <<cfg, todo, accepted, mClients, stage, stopped>>,
           main' = main \/ main' \in {"exited", "killed"},
           \/ UNCHANGED <<sNum, nonterm>>
           \/ thread_release_nonterm,
           sInterupted' \in BOOLEAN, timer' \in BOOLEAN, signals' \in 0 .. MaxSignals,
           sThread' \in Threads \cup {Main, NoThread}
    PROVE  IndInv'
<1> USE Disassemble, ThreadKinds
<1>1. TypeRest'
  BY DEF TypeRest, thread_release_nonterm
<1>2. Cardinality(Counted)' = Cardinality(Counted)
  BY CountedStays
<1>3. sNum' = Cardinality(Counted)' + ListenerCounts' - Twice'
  <2>1. CASE UNCHANGED <<sNum, nonterm>>
    BY <1>2, <2>1 DEF ListenerCounts, Twice
  <2>2. CASE thread_release_nonterm /\ nonterm = 0
    BY <1>2, <2>2 DEF ListenerCounts, Twice, thread_release_nonterm
  <2>3. CASE thread_release_nonterm /\ nonterm = 1
    <3>1. \/ stage[L] \in Registered /\ ~stopped
          \/ stage[L] = "gone" /\ stopped
      BY <2>3 DEF Nonterm, Registered
    <3>2. ListenerCounts' - Twice' = ListenerCounts - Twice - 1
      BY <2>3, <3>1 DEF ListenerCounts, Twice, thread_release_nonterm, Registered
    <3>3. ListenerCounts' \in 0 .. 1 /\ Twice' \in 0 .. 1
      BY <1>1 DEF ListenerCounts, Twice, TypeRest
    <3> QED BY <1>2, <2>3, <3>2, <3>3 DEF thread_release_nonterm
  <2> QED BY <2>1, <2>2, <2>3 DEF TypeRest
<1>4. Places' /\ Unstarted' /\ Nonterm'
  BY DEF Places, HasNext, Unstarted, Nonterm, thread_release_nonterm, TypeRest
<1>5. Pending'
  BY PendingKept
<1> QED BY <1>1, <1>3, <1>4, <1>5, Assemble

\* Sig_Interupt and the alarm of a timed transfer take the listener off the
\* count at most once.
LEMMA SignalInv ==
    ASSUME IndInv, NEW t \in Threads \cup {Main}, Interrupt(t) \/ Alarm(t)
    PROVE  IndInv'
<1>1. signals' \in 0 .. MaxSignals /\ timer' \in BOOLEAN /\ Sig_Interupt(t)
  <2>1. signals \in 0 .. MaxSignals /\ timer \in BOOLEAN /\ MaxSignals \in Nat
    BY CountAssumption DEF IndInv, TypeOK
  <2>2. CASE Interrupt(t)
    BY <2>1, <2>2 DEF Interrupt
  <2>3. CASE Alarm(t)
    BY <2>1, <2>3 DEF Alarm
  <2> QED BY <2>2, <2>3
<1>2. sThread' \in Threads \cup {Main, NoThread}
  BY <1>1 DEF IndInv, TypeOK, Sig_Interupt
<1>3. sInterupted' \in BOOLEAN
  BY <1>1 DEF IndInv, TypeOK, Sig_Interupt
<1>4. /\ UNCHANGED <<cfg, todo, accepted, mClients, stage, stopped>>
      /\ main' = main \/ main' \in {"exited", "killed"}
      /\ UNCHANGED <<sNum, nonterm>> \/ thread_release_nonterm
  BY <1>1 DEF Sig_Interupt
<1> QED BY <1>1, <1>2, <1>3, <1>4, MainStep

\* A transfer that ends is taken off the count once.
LEMMA TransferInv ==
    ASSUME IndInv, NEW t \in Transfers,
           ConnectFails(t) \/ Connect(t) \/ TransferEnd(t) \/ Dec(t)
    PROVE  IndInv'
<1> USE DEF Waited
<1>1. timer \in BOOLEAN
  BY DEF IndInv, TypeOK
<1>2. CASE ConnectFails(t)
  BY <1>1, <1>2, TransferStep DEF ConnectFails, sig
<1>3. CASE Connect(t)
  <2>1. timer' \in BOOLEAN
    BY <1>1, <1>3 DEF Connect
  <2> QED BY <1>3, <2>1, TransferStep DEF Connect
<1>4. CASE TransferEnd(t)
  BY <1>1, <1>4, TransferStep DEF TransferEnd, sig
<1>5. CASE Dec(t)
  <2>1. CASE HasNext(t)
    BY <1>1, <1>5, <2>1, TransferStep DEF Dec, sig
  <2>2. CASE ~HasNext(t)
    BY <1>1, <1>5, <2>2, TransferStep DEF Dec, sig
  <2> QED BY <2>1, <2>2
<1> QED BY <1>2, <1>3, <1>4, <1>5

\* A server or a speaker is started by the listener or by a server that ends.
LEMMA StartStep ==
    ASSUME IndInv, NEW i \in Sessions, NEW t \in {Server(i), Speaker(i)}, stage[t] = "none",
           NEW u \in Threads, u # t, u # R, NEW x \in Stages,
           stage' = [stage EXCEPT ![t] = FirstStage(t), ![u] = x],
           sNum' = sNum + 1, UNCHANGED <<proc, sig, nonterm, stopped>>,
           \/ u = L /\ stage[L] = "spawn" /\ t = Server(i) /\ x = "loop"
           \/ u = L /\ stage[L] = "spawn" /\ t = Speaker(i) /\ x = "spawn" /\ cfg.runNow
           \/ u = Server(i) /\ t = Speaker(i) /\ stage[u] = "next" /\ x = "gone"
    PROVE  IndInv'
<1> USE Disassemble, ThreadKinds
<1>1. /\ t \in Transfers /\ t \in Threads /\ t # L /\ t # R
      /\ FirstStage(t) \in {"run", "connect"} /\ stage \in [Threads -> Stages]
  BY Stepping DEF Threads, TypeRest
<1>2. /\ stage'[t] \in {"run", "connect"} /\ stage'[u] = x
      /\ \A v \in Threads : v # t /\ v # u => stage'[v] = stage[v]
  BY <1>1
<1>3. stage' \in [Threads -> Stages]
  BY <1>1 DEF Stages
<1>4. UNCHANGED <<cfg, main, todo, accepted, mClients, nonterm, stopped>>
  BY DEF proc
<1>5. TypeRest'
  BY <1>3, <1>4 DEF TypeRest, sig
<1>6. sNum' = Cardinality(Counted)' + ListenerCounts' - Twice'
  <2>1. Cardinality(Counted)' = Cardinality(Counted) + 1
    BY <1>1, <1>2, CountedEnters DEF Waited
  <2>2. ListenerCounts' = ListenerCounts
    BY <1>1, <1>2, <1>4 DEF ListenerCounts, Registered
  <2>3. Twice' = Twice
    BY <1>4 DEF Twice
  <2> QED BY <2>1, <2>2, <2>3
<1>7. Places'
  <2>1. \A v \in Transfers : v \in Threads
    BY DEF Threads
  <2>2. \A v \in Transfers : stage'[v] \in Waited \cup {"none", "next", "gone"}
                              /\ (stage'[v] = "next" => HasNext(v)')
    BY <1>2, <1>4, <2>1 DEF Places, HasNext, Waited
  <2>3. stage'[R] = stage[R]
    BY <1>1, <1>2
  <2>4. stage'[L] \in Registered \cup {"none", "register", "dec", "gone"}
    BY <1>1, <1>2 DEF Places, Registered
  <2> QED BY <2>2, <2>3, <2>4 DEF Places
<1>8. Pending'
  <2>1. \A v \in {L, R} \cup ({"client"} \X Sessions) : v \in Threads /\ v # t
    BY DEF Threads, Transfers, Server, Speaker, L, R
  <2>2. stage[u] # "none"
    OBVIOUS
  <2> QED BY <1>2, <1>4, <2>1, <2>2, PendingKept
<1>9. Unstarted'
  <2>1. stage'[L] \in {"release", "spawn"} =>
          accepted' \in Sessions /\ stage'[Server(accepted')] = "none"
    BY <1>1, <1>2, <1>4 DEF Unstarted, Threads
  <2>2. ASSUME ~cfg.runNow, NEW j \in Sessions, stage'[Speaker(j)] # "none"
        PROVE  stage'[Server(j)] = "gone"
    BY <1>1, <1>2, <1>4, <2>2 DEF Unstarted, Threads
  <2> QED BY <1>4, <2>1, <2>2 DEF Unstarted
<1>10. Nonterm'
  BY <1>1, <1>2, <1>4 DEF Nonterm, Registered
<1> QED BY <1>5, <1>6, <1>7, <1>8, <1>9, <1>10, Assemble

\* Its runNext is counted when it starts.
LEMMA StartNextInv ==
    ASSUME IndInv, NEW t \in Transfers, StartNext(t)
    PROVE  IndInv'
<1> USE Disassemble, ThreadKinds
<1>1. HasNext(t) /\ t[2] \in Sessions /\ t = Server(t[2])
  BY DEF StartNext, Places
<1>2. stage[Speaker(t[2])] = "none"
  BY <1>1 DEF StartNext, HasNext, Unstarted
<1>3. t \in Threads /\ "gone" \in Stages
  BY DEF Threads, Stages
<1> QED BY <1>1, <1>2, <1>3, StartStep DEF StartNext, thread_start

\* The listener starts a server, with a speaker before or after it.
LEMMA SpawnInv ==
    ASSUME IndInv, Spawn
    PROVE  IndInv'
<1> USE Disassemble, ThreadKinds DEF Stages
<1>1. accepted \in Sessions /\ stage[Server(accepted)] = "none" /\ stage[L] = "spawn"
  BY DEF Spawn, Unstarted
<1>2. CASE /\ accepted \in cfg.speakers /\ cfg.runNow
           /\ stage[Speaker(accepted)] = "none"
  <2>1. Speaker(accepted) # L
    BY <1>1
  <2> QED BY <1>1, <1>2, <2>1, StartStep DEF Spawn, thread_start
<1>3. CASE ~(/\ accepted \in cfg.speakers /\ cfg.runNow
             /\ stage[Speaker(accepted)] = "none")
  <2>1. Server(accepted) # L
    BY <1>1
  <2> QED BY <1>1, <1>3, <2>1, StartStep DEF Spawn, thread_start
<1> QED BY <1>2, <1>3

\* The listener registers as nonterminating, and is released or ends by itself.
LEMMA ListeningInv ==
    ASSUME IndInv, \/ Register \/ Release \/ Loop \/ Unregister \/ Dec(L) \/ AcceptFails
                   \/ \E i \in Sessions : Accept(i)
    PROVE  IndInv'
<1> USE Disassemble, ThreadKinds
<1>1. /\ nonterm \in 0 .. 1 /\ mClients \in Int /\ accepted \in Sessions \cup {0}
      /\ stopped \in BOOLEAN /\ stage \in [Threads -> Stages] /\ sNum \in Int
  BY DEF TypeRest
<1>2. stage[L] # "gone" => ~stopped /\ Twice = 0
  BY DEF Nonterm, Twice
<1>3. CASE Register
  <2>1. nonterm = 0
    BY <1>1, <1>3 DEF Register, Nonterm, Registered
  <2>2. stage'[L] = "accept" /\ nonterm' = 1 /\ UNCHANGED stopped /\ sNum' = sNum
    BY <1>1, <1>3, <2>1 DEF Register
  <2>3. ListenerCounts = 1 /\ ListenerCounts' = 1 /\ Twice' = 0 /\ Nonterm'
    BY <1>2, <1>3, <2>2 DEF Register, ListenerCounts, Twice, Nonterm, Registered
  <2>4. "accept" \in Registered \cup {"dec", "gone"} /\ UNCHANGED <<cfg, main, todo, sig, accepted, mClients>>
    BY <1>3 DEF Register, Registered, proc
  <2> QED BY <1>1, <1>2, <1>3, <2>2, <2>3, <2>4, ListenerStep DEF Register
<1>4. CASE Release
  <2>1. stage'[L] = "spawn" /\ nonterm' = 0 /\ UNCHANGED stopped /\ sNum' = sNum - nonterm
    BY <1>1, <1>4 DEF Release, thread_release_nonterm
  <2>2. ListenerCounts = nonterm /\ ListenerCounts' = 0 /\ Twice' = 0 /\ Nonterm'
    BY <1>2, <1>4, <2>1 DEF Release, ListenerCounts, Twice, Nonterm, Registered
  <2>3. "spawn" \in Registered \cup {"dec", "gone"} /\ UNCHANGED <<cfg, main, todo, sig, accepted>>
    BY <1>4 DEF Release, Registered
  <2>4. accepted \in Sessions /\ stage[Server(accepted)] = "none"
    BY <1>4 DEF Release, Unstarted
  <2>5. /\ stage[L] = "release" /\ stage' = [stage EXCEPT ![L] = "spawn"] /\ mClients' = 1
    BY <1>4 DEF Release
  <2>6. sNum' - ListenerCounts' + Twice' = sNum - ListenerCounts + Twice /\ sNum' \in Int
    BY <1>1, <1>2, <2>1, <2>2, <2>3, <2>4, <2>5
  <2>7. /\ nonterm' \in 0 .. 1 /\ mClients' \in Int /\ accepted' \in Sessions
        /\ stopped' \in BOOLEAN /\ stage[Server(accepted')] = "none"
    BY <1>1, <2>1, <2>3, <2>4, <2>5
  <2> QED BY <2>2, <2>3, <2>5, <2>6, <2>7, ListenerStep
<1>5. CASE Loop
  <2>1. PICK x \in {"accept", "unregister"} : stage' = [stage EXCEPT ![L] = x]
    BY <1>5 DEF Loop
  <2>2. stage'[L] = x /\ UNCHANGED <<stopped, sNum, nonterm>>
    BY <1>1, <1>5, <2>1 DEF Loop
  <2>3. ListenerCounts = nonterm /\ ListenerCounts' = nonterm /\ Twice' = 0 /\ Nonterm'
    BY <1>2, <1>5, <2>2 DEF Loop, ListenerCounts, Twice, Nonterm, Registered
  <2>4. x \in Registered \cup {"dec", "gone"} /\ UNCHANGED <<cfg, main, todo, sig, accepted>>
    BY <1>5 DEF Loop, Registered
  <2>5. mClients' \in Int
    BY <1>1, <1>5 DEF Loop
  <2> QED BY <1>1, <1>2, <1>5, <2>1, <2>2, <2>3, <2>4, <2>5, ListenerStep DEF Loop
<1>6. CASE Unregister
  <2>1. /\ stage'[L] = "dec" /\ nonterm' = 0 /\ UNCHANGED stopped
        /\ sNum' = IF nonterm = 0 THEN sNum + 1 ELSE sNum
    BY <1>1, <1>6 DEF Unregister
  <2>2. ListenerCounts = nonterm /\ ListenerCounts' = 1 /\ Twice' = 0 /\ Nonterm'
    BY <1>2, <1>6, <2>1 DEF Unregister, ListenerCounts, Twice, Nonterm, Registered
  <2>3. "dec" \in Registered \cup {"dec", "gone"} /\ UNCHANGED <<cfg, main, todo, sig, accepted, mClients>>
    BY <1>6 DEF Unregister, proc
  <2>4. /\ stage[L] = "unregister" /\ stage' = [stage EXCEPT ![L] = "dec"]
    BY <1>6 DEF Unregister
  <2>5. sNum' - ListenerCounts' + Twice' = sNum - ListenerCounts + Twice /\ sNum' \in Int
    BY <1>1, <1>2, <2>1, <2>2, <2>3, <2>4
  <2>6. /\ nonterm' \in 0 .. 1 /\ mClients' \in Int /\ accepted' \in Sessions \cup {0}
        /\ stopped' \in BOOLEAN
    BY <1>1, <2>1, <2>3
  <2> QED BY <2>2, <2>3, <2>4, <2>5, <2>6, ListenerStep
<1>7. CASE Dec(L)
  <2>1. stage' = [stage EXCEPT ![L] = "gone"] /\ sNum' = sNum - 1
    BY <1>7, Stepping DEF Dec
  <2>2. nonterm = 0
    BY <1>1, <1>7 DEF Dec, Nonterm, Registered
  <2>3. stage'[L] = "gone" /\ UNCHANGED <<stopped, nonterm>>
    BY <1>1, <1>7, <2>1 DEF Dec
  <2>4. ListenerCounts = 1 /\ ListenerCounts' = 0 /\ Twice' = 0 /\ Nonterm'
    BY <1>2, <1>7, <2>2, <2>3 DEF Dec, ListenerCounts, Twice, Nonterm, Registered
  <2>5. UNCHANGED <<cfg, main, todo, sig, accepted, mClients>>
    BY <1>7 DEF Dec, proc
  <2>6. /\ stage[L] = "dec" /\ stage' = [stage EXCEPT ![L] = "gone"]
    BY <1>7, Stepping DEF Dec
  <2>7. sNum' - ListenerCounts' + Twice' = sNum - ListenerCounts + Twice /\ sNum' \in Int
    BY <1>1, <1>2, <2>1, <2>3, <2>4, <2>5, <2>6
  <2> QED BY <1>1, <2>1, <2>3, <2>4, <2>5, <2>6, <2>7, ListenerStep
<1>8. CASE AcceptFails
  <2>1. stage'[L] = "gone" /\ stopped' /\ stopped' \in BOOLEAN /\ UNCHANGED nonterm /\ sNum' = sNum - 1
    BY <1>1, <1>8 DEF AcceptFails
  <2>2. /\ ListenerCounts = nonterm /\ ListenerCounts' = 0
        /\ Twice' = 1 - nonterm /\ Nonterm'
    BY <1>1, <1>2, <1>8, <2>1 DEF AcceptFails, ListenerCounts, Twice, Nonterm, Registered
  <2>3. UNCHANGED <<cfg, main, todo, sig, accepted, mClients>>
    BY <1>8 DEF AcceptFails, proc
  <2>4. /\ stage[L] = "accept" /\ stage' = [stage EXCEPT ![L] = "gone"]
    BY <1>8 DEF AcceptFails
  <2>5. sNum' - ListenerCounts' + Twice' = sNum - ListenerCounts + Twice /\ sNum' \in Int
    BY <1>1, <1>2, <2>1, <2>2, <2>3, <2>4
  <2> QED BY <1>1, <2>1, <2>2, <2>3, <2>4, <2>5, ListenerStep
<1>9. ASSUME NEW i \in Sessions, Accept(i)
      PROVE  IndInv'
  <2>1. PICK x \in {"unregister", "release", "spawn"} : stage' = [stage EXCEPT ![L] = x]
    BY <1>9 DEF Accept
  <2>2. stage'[L] = x /\ UNCHANGED <<stopped, sNum, nonterm>>
    BY <1>1, <1>9, <2>1 DEF Accept
  <2>3. ListenerCounts = nonterm /\ ListenerCounts' = nonterm /\ Twice' = 0 /\ Nonterm'
    BY <1>2, <1>9, <2>2 DEF Accept, ListenerCounts, Twice, Nonterm, Registered
  <2>4. x \in Registered \cup {"dec", "gone"} /\ UNCHANGED <<cfg, main, todo, sig>>
    BY <1>9 DEF Accept, Registered
  <2>5. mClients' \in Int /\ accepted' = i /\ stage[Server(i)] = "none"
    BY <1>1, <1>9 DEF Accept
  <2>6. stage[L] = "accept"
    BY <1>9 DEF Accept
  <2>7. sNum' - ListenerCounts' + Twice' = sNum - ListenerCounts + Twice /\ sNum' \in Int
    BY <1>1, <1>2, <2>2, <2>3, <2>6
  <2> QED BY <1>1, <2>1, <2>2, <2>3, <2>4, <2>5, <2>6, <2>7, ListenerStep
<1> QED BY <1>3, <1>4, <1>5, <1>6, <1>7, <1>8, <1>9

-----------------------------------------------------------------------------
\* Every step keeps the invariant.
LEMMA NextInv == IndInv /\ [Next]_vars => IndInv'
<1> SUFFICES ASSUME IndInv, [Next]_vars PROVE IndInv'
  OBVIOUS
<1>1. CASE MainStart
  BY <1>1, MainStartInv
<1>2. CASE MainExit
  <2>1. /\ sInterupted \in BOOLEAN /\ timer \in BOOLEAN /\ signals \in 0 .. MaxSignals
        /\ sThread \in Threads \cup {Main, NoThread}
    BY DEF IndInv, TypeOK
  <2> QED BY <1>2, <2>1, MainStep DEF MainExit, sig
<1>3. ASSUME NEW t \in Transfers, Transfer(t)
      PROVE  IndInv'
  BY <1>3, TransferInv, StartNextInv DEF Transfer
<1>4. CASE ReporterIdle \/ ReporterWake
  BY <1>4, ReporterStep DEF ReporterIdle, ReporterWake
<1>5. CASE Listening \/ AcceptFails \/ \E i \in Sessions : Accept(i)
  BY <1>5, ListeningInv, SpawnInv DEF Listening
<1>6. ASSUME NEW t \in Threads \cup {Main}, Interrupt(t) \/ Alarm(t)
      PROVE  IndInv'
  BY <1>6, SignalInv
<1>7. CASE UNCHANGED vars
  <2>1. UNCHANGED <<cfg, main, todo, stage, accepted, sNum, nonterm, mClients, sInterupted,
                    sThread, timer, signals, stopped>>
    BY <1>7 DEF vars, proc, sig
  <2>2. /\ sInterupted \in BOOLEAN /\ timer \in BOOLEAN /\ signals \in 0 .. MaxSignals
        /\ sThread \in Threads \cup {Main, NoThread}
    BY DEF IndInv, TypeOK
  <2> QED BY <2>1, <2>2, MainStep
<1> QED BY <1>1, <1>2, <1>3, <1>4, <1>5, <1>6, <1>7 DEF Next

\* thread_sNum counts the threads that main has to wait for, in every state
\* of the process: for any number of sessions and any configuration, whatever
\* the order of signals, listener and reporter.
THEOREM CountIsAccurate == Spec => []CountAccurate
<1>1. IndInv => CountAccurate
  BY DEF IndInv
<1> QED BY <1>1, InitInv, NextInv, PTL DEF Spec, Safety

\* main leaves thread_joinall only when no transfer is on, unless the listener
\* has failed: thread_joinall's count covers every transfer.
THEOREM MainLeavesLast == Spec => []MainExitsLast
<1>1. IndInv /\ MainExitsLast /\ [Next]_vars => MainExitsLast'
  <2> SUFFICES ASSUME IndInv, MainExitsLast, [Next]_vars, main' = "exited", ~stopped',
                      NEW t \in Transfers
               PROVE  stage'[t] \notin {"connect", "run", "dec"}
    BY DEF MainExitsLast
  <2>1. CASE UNCHANGED vars
    BY <2>1 DEF MainExitsLast, vars, proc
  <2>2. CASE Next /\ main \in {"start", "join"}
    <3>1. MainExit
      BY <2>2 DEF Next, MainStart, Transfer, ConnectFails, Connect, TransferEnd, Dec, StartNext,
         ReporterIdle, ReporterWake, Listening, Register, Release, Spawn, Loop, Unregister,
         AcceptFails, Accept, Interrupt, Alarm, Sig_Interupt, proc
    <3>2. sNum \in Int /\ ~(sNum > 0) /\ ~stopped /\ stage' = stage
      BY <3>1 DEF MainExit, IndInv, TypeOK
    <3>3. Twice = 0 /\ Cardinality(Counted) = 0
      BY <3>2, Disassemble DEF Twice
    <3>4. Counted = {}
      BY <3>3, CountedFinite, FS_EmptySet
    <3> QED BY <3>2, <3>4, ThreadKinds DEF Counted, Waited, Threads
  <2> QED BY <2>1, <2>2 DEF Next
<1>2. Init => MainExitsLast
  BY DEF Init, MainExitsLast
<1> QED BY <1>1, <1>2, InitInv, NextInv, PTL DEF Spec, Safety
=============================================================================
