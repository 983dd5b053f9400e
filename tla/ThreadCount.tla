---------------------------- MODULE ThreadCount ----------------------------
(***************************************************************************)
(* When may main leave?  The thread accounting of an iperf process:        *)
(* thread_sNum and nonterminating_num (src/iperf/compat/Thread.c), main    *)
(* and its signal handler (main.cpp), and the accept loop of the listener  *)
(* (Listener.cpp), which starts a server per session and, for dual and     *)
(* trade-off tests, a client that sends back ("speaker").                  *)
(*                                                                         *)
(* The counters are only changed under the mutex of thread_sNum_cond, so   *)
(* each critical section is one step.  Thread creation succeeds, and all   *)
(* sessions come from a host that the listener admits.  Reports are        *)
(* abstract: the reporter is awake while a transfer is on, and a transfer  *)
(* ends (EndReport) only when the reporter has handled it.                 *)
(***************************************************************************)
EXTENDS Integers, Sequences, FiniteSets

CONSTANTS
    Sessions,   \* indices of clients, sessions and speakers
    Configs,    \* how the process was started, see Config
    MaxSignals  \* bound on the signals sent by the user

Main == <<"main", 0>>
L == <<"listener", 0>>
R == <<"reporter", 0>>
Server(i) == <<"server", i>>
Speaker(i) == <<"speaker", i>>
Transfers == {"client", "server", "speaker"} \X Sessions
Threads == {L, R} \cup Transfers

\* start: the threads main starts, in order (the runNow chain); mThreads: -P;
\* single: -1; proto: UDP, or TCP for an amount or for a time; speakers: the
\* sessions whose client asks for a test back, during the test if runNow is
\* set and after it if not.
Config == [start : Seq(Threads), mThreads : Nat, single : BOOLEAN,
           proto : {"udp", "tcp_amount", "tcp_time"},
           speakers : SUBSET Sessions, runNow : BOOLEAN]

\* main starts each of its threads once, the reporter at least; servers and
\* speakers are started by the listener.
ASSUME CountAssumption ==
    /\ Configs \subseteq Config /\ IsFiniteSet(Sessions)
    /\ MaxSignals \in Nat
    /\ \A c \in Configs :
          /\ c.start # <<>>
          /\ \A m \in DOMAIN c.start : c.start[m] \in {L, R} \cup ({"client"} \X Sessions)
          /\ \A m, n \in DOMAIN c.start : c.start[m] = c.start[n] => m = n

VARIABLES
    cfg,          \* the configuration of this process
    main,         \* where main is
    todo,         \* threads main has still to start
    stage,        \* where each thread is
    accepted,     \* the session the listener is about to start
    sNum,         \* thread_sNum
    nonterm,      \* nonterminating_num
    mClients,     \* Listener::mClients
    sInterupted,  \* the flag of the signal handler
    sThread,      \* the thread that handled the first signal, or NoThread
    timer,        \* ITIMER_REAL is armed
    signals,      \* signals the user has sent
    stopped       \* history: the listener was ended by thread_stop

proc == <<cfg, main, todo, accepted, mClients>>
sig == <<sInterupted, sThread, timer, signals>>
vars == <<proc, sig, stage, sNum, nonterm, stopped>>

NoThread == <<"none", 0>>

Stages == {"none", "connect", "run", "dec", "next", "gone", "idle", "register",
           "accept", "release", "spawn", "loop", "unregister"}

\* The stages in which the listener is registered as non-terminating.
Registered == {"accept", "release", "spawn", "loop", "unregister"}

\* Types; thread_sNum and nonterminating_num of Thread.c never go negative,
\* but for a listener that failed.
TypeOK ==
    /\ cfg \in Configs
    /\ main \in {"start", "join", "exited", "killed"}
    /\ \E n \in 1 .. Len(cfg.start) + 1 :
          todo = SubSeq(cfg.start, n, Len(cfg.start))
    /\ stage \in [Threads -> Stages]
    /\ accepted \in Sessions \cup {0}
    /\ sNum \in -1 .. Cardinality(Threads)
    /\ nonterm \in 0 .. 1
    /\ mClients \in Int
    /\ sInterupted \in BOOLEAN
    /\ sThread \in Threads \cup {Main, NoThread}
    /\ timer \in BOOLEAN
    /\ signals \in 0 .. MaxSignals
    /\ stopped \in BOOLEAN

Init ==
    /\ cfg \in Configs
    /\ main = "start"
    /\ todo = cfg.start
    /\ stage = [t \in Threads |-> "none"]
    /\ accepted = 0
    /\ sNum = 0
    /\ nonterm = 0
    /\ mClients = cfg.mThreads
    /\ sInterupted = FALSE
    /\ sThread = NoThread
    /\ timer = FALSE
    /\ signals = 0
    /\ stopped = FALSE

-----------------------------------------------------------------------------
(* Starting and ending threads. *)

FirstStage(t) == CASE t = L -> "register"
                   [] t[1] \in {"client", "speaker"} -> "connect"
                   [] OTHER -> "run"

\* thread_start, after it has started runNow: counts the thread and creates
\* it; the caller goes on to its stage next.
thread_start(t, caller, next) ==
    /\ stage' = [stage EXCEPT ![t] = FirstStage(t), ![caller] = next]
    /\ sNum' = sNum + 1
    /\ UNCHANGED nonterm

\* main starts the reporter with the client or listener chained before it ...
MainStart ==
    /\ main = "start"
    /\ thread_start(Head(todo), Head(todo), FirstStage(Head(todo)))
    /\ todo' = Tail(todo)
    /\ main' = IF Tail(todo) = <<>> THEN "join" ELSE "start"
    /\ UNCHANGED <<cfg, accepted, mClients, sig, stopped>>

\* Mutant: main takes one thread, the reporter, not to matter.
MainExitEarly ==
    /\ main = "join"
    /\ ~(sNum > 1)
    /\ main' = "exited"
    /\ UNCHANGED <<cfg, todo, accepted, mClients, sig, stage, sNum, nonterm,
                   stopped>>

\* ... and waits in thread_joinall.
MainExit ==
    /\ main = "join"
    /\ ~(sNum > 0)
    /\ main' = "exited"
    /\ UNCHANGED <<cfg, todo, accepted, mClients, sig, stage, sNum, nonterm,
                   stopped>>

\* Client::Connect, then RunTCP arms the interval timer of the process when
\* the transfer is to last a given time.
Connect(t) ==
    /\ stage[t] = "connect"
    /\ stage' = [stage EXCEPT ![t] = "run"]
    /\ timer' = (timer \/ cfg.proto = "tcp_time")
    /\ UNCHANGED <<proc, sInterupted, sThread, signals, sNum, nonterm, stopped>>

\* FAIL_errno in Client::Connect: thread_stop of the own thread.
ConnectFails(t) ==
    /\ stage[t] = "connect"
    /\ stage' = [stage EXCEPT ![t] = "gone"]
    /\ sNum' = sNum - 1
    /\ UNCHANGED <<proc, sig, nonterm, stopped>>

\* The transfer ends and its report with it.  A sender for a given time ends
\* when it is interrupted, by the timer or by the user.
TransferEnd(t) ==
    /\ t \in Transfers
    /\ stage[t] = "run"
    /\ stage[R] = "run"
    /\ t[1] # "server" /\ cfg.proto = "tcp_time" => sInterupted
    /\ stage' = [stage EXCEPT ![t] = "dec"]
    /\ UNCHANGED <<proc, sig, sNum, nonterm, stopped>>

HasNext(t) == t[1] = "server" /\ t[2] \in cfg.speakers /\ ~cfg.runNow

\* Mutant: the count is not changed when the thread has another to start.
DecUnlessNext(t) ==
    /\ stage[t] = "dec"
    /\ sNum' = IF HasNext(t) THEN sNum ELSE sNum - 1
    /\ stage' = [stage EXCEPT ![t] = IF HasNext(t) THEN "next" ELSE "gone"]
    /\ UNCHANGED <<proc, sig, nonterm, stopped>>

\* The end of thread_run_wrapper: the count first ...
Dec(t) ==
    /\ stage[t] = "dec"
    /\ sNum' = sNum - 1
    /\ stage' = [stage EXCEPT ![t] = IF HasNext(t) THEN "next" ELSE "gone"]
    /\ UNCHANGED <<proc, sig, nonterm, stopped>>

\* ... then runNext.
StartNext(t) ==
    /\ stage[t] = "next"
    /\ thread_start(Speaker(t[2]), t, "gone")
    /\ UNCHANGED <<proc, sig, stopped>>

TransferOn == \E t \in Transfers : stage[t] = "run"

\* The reporter has no reports: thread_setignore.
ReporterIdle ==
    /\ stage[R] = "run"
    /\ ~TransferOn
    /\ stage' = [stage EXCEPT ![R] = "idle"]
    /\ sNum' = sNum - 1
    /\ UNCHANGED <<proc, sig, nonterm, stopped>>

\* The reporter is woken: thread_unsetignore.
ReporterWake ==
    /\ stage[R] = "idle"
    /\ TransferOn
    /\ stage' = [stage EXCEPT ![R] = "run"]
    /\ sNum' = sNum + 1
    /\ UNCHANGED <<proc, sig, nonterm, stopped>>

-----------------------------------------------------------------------------
(* The listener. *)

\* thread_register_nonterm
Register ==
    /\ stage[L] = "register"
    /\ nonterm' = nonterm + 1
    /\ stage' = [stage EXCEPT ![L] = "accept"]
    /\ UNCHANGED <<proc, sig, sNum, stopped>>

\* The list of clients is empty: no server is between Iperf_pushback and
\* Iperf_delete.
NoClients == \A i \in Sessions : stage[Server(i)] # "run"

\* Accept returns.  With -1 the first stream of a client counts it, and the
\* last client makes the listener release itself.
Accept(i) ==
    /\ stage[L] = "accept"
    /\ stage[Server(i)] = "none"
    /\ LET counts == ~sInterupted /\ cfg.single /\ NoClients
       IN  /\ mClients' = IF counts THEN mClients - 1 ELSE mClients
           /\ stage' = [stage EXCEPT ![L] =
                          IF sInterupted THEN "unregister"
                          ELSE IF counts /\ mClients' = 0 THEN "release"
                          ELSE "spawn"]
    /\ accepted' = i
    /\ UNCHANGED <<cfg, main, todo, sig, sNum, nonterm, stopped>>

\* FAIL_errno after recvfrom: thread_stop of the listener's own thread.
AcceptFails ==
    /\ stage[L] = "accept"
    /\ cfg.proto = "udp"
    /\ stage' = [stage EXCEPT ![L] = "gone"]
    /\ sNum' = sNum - 1
    /\ stopped' = TRUE
    /\ UNCHANGED <<proc, sig, nonterm>>

\* thread_release_nonterm
thread_release_nonterm ==
    /\ sNum' = sNum - nonterm
    /\ nonterm' = 0

Release ==
    /\ stage[L] = "release"
    /\ thread_release_nonterm
    /\ mClients' = 1
    /\ stage' = [stage EXCEPT ![L] = "spawn"]
    /\ UNCHANGED <<cfg, main, todo, accepted, sig, stopped>>

\* thread_start( server ), which starts its runNow first.
Spawn ==
    /\ stage[L] = "spawn"
    /\ IF /\ accepted \in cfg.speakers
          /\ cfg.runNow
          /\ stage[Speaker(accepted)] = "none"
         THEN thread_start(Speaker(accepted), L, "spawn")
         ELSE thread_start(Server(accepted), L, "loop")
    /\ UNCHANGED <<proc, sig, stopped>>

\* The condition of the accept loop.
Loop ==
    /\ stage[L] = "loop"
    /\ mClients' = IF cfg.single THEN mClients ELSE mClients - 1
    /\ stage' = [stage EXCEPT ![L] =
                   IF ~sInterupted /\ (cfg.mThreads = 0 \/ mClients' > 0)
                     THEN "accept" ELSE "unregister"]
    /\ UNCHANGED <<cfg, main, todo, accepted, sig, sNum, nonterm, stopped>>

\* Mutant: the listener counts itself in even if it was never released.
UnregisterCounts ==
    /\ stage[L] = "unregister"
    /\ sNum' = sNum + 1
    /\ nonterm' = 0
    /\ stage' = [stage EXCEPT ![L] = "dec"]
    /\ UNCHANGED <<proc, sig, stopped>>

\* thread_unregister_nonterm: once released, the listener counts itself in
\* again before it ends.
Unregister ==
    /\ stage[L] = "unregister"
    /\ IF nonterm = 0
         THEN sNum' = sNum + 1 /\ UNCHANGED nonterm
         ELSE nonterm' = nonterm - 1 /\ UNCHANGED sNum
    /\ stage' = [stage EXCEPT ![L] = "dec"]
    /\ UNCHANGED <<proc, sig, stopped>>

-----------------------------------------------------------------------------
(* Signals. *)

\* Sig_Interupt on thread t: the second one on the same thread exits.
Sig_Interupt(t) ==
    /\ sThread' = IF sThread = NoThread THEN t ELSE sThread
    /\ IF sThread = t
         THEN /\ main' = "killed"
              /\ UNCHANGED <<sInterupted, sNum, nonterm>>
         ELSE /\ sInterupted' = TRUE
              /\ thread_release_nonterm
              /\ UNCHANGED main
    /\ UNCHANGED <<cfg, todo, accepted, mClients, stage, stopped>>

Running == {Main} \cup {t \in Threads : stage[t] \notin {"none", "gone"}}

\* SIGINT or SIGTERM; the system picks the thread.
Interrupt(t) ==
    /\ signals < MaxSignals
    /\ t \in Running
    /\ signals' = signals + 1
    /\ Sig_Interupt(t)
    /\ UNCHANGED timer

\* SIGALRM, for which the same handler is installed.
Alarm(t) ==
    /\ timer
    /\ t \in Running
    /\ timer' = FALSE
    /\ Sig_Interupt(t)
    /\ UNCHANGED signals

-----------------------------------------------------------------------------

Transfer(t) == ConnectFails(t) \/ Connect(t) \/ TransferEnd(t) \/ Dec(t)
                 \/ StartNext(t)

Listening == Register \/ Release \/ Spawn \/ Loop \/ Unregister \/ Dec(L)

Next ==
    /\ main \in {"start", "join"}
    /\ \/ MainStart \/ MainExit
       \/ \E t \in Transfers : Transfer(t)
       \/ ReporterIdle \/ ReporterWake
       \/ Listening \/ AcceptFails
       \/ \E i \in Sessions : Accept(i)
       \/ \E t \in Threads \cup {Main} : Interrupt(t) \/ Alarm(t)

\* Every thread that can run does, every transfer ends (its peer is done or
\* its connection breaks), and a timer goes off.  Nobody has to connect.
Alive == main \in {"start", "join"}
Safety == Init /\ [][Next]_vars
Spec ==
    /\ Safety
    /\ WF_vars(Alive /\ (MainStart \/ MainExit))
    /\ WF_vars(Alive /\ Listening)
    /\ WF_vars(Alive /\ (ReporterIdle \/ ReporterWake))
    /\ \A t \in Transfers : WF_vars(Alive /\ Transfer(t))
    /\ WF_vars(Alive /\ \E t \in Threads \cup {Main} : Alarm(t))

-----------------------------------------------------------------------------
(* Correctness. *)

\* "Depends on the thread count being accurate" (Thread.c:289): thread_sNum
\* stays in range and is the number of threads that main has to wait for, the
\* listener included until it is released, the reporter only when awake.  A
\* listener that thread_stop ended takes itself off the count and leaves
\* nonterminating_num behind, so it is taken off twice if it is released as
\* well.
CountAccurate ==
    LET counted == {t \in Threads \ {L} : stage[t] \in {"connect", "run", "dec"}}
        listener == IF stage[L] \in {"register", "dec"} THEN 1
                    ELSE IF stage[L] \in Registered THEN nonterm
                    ELSE 0
        twice == IF stopped /\ nonterm = 0 THEN 1 ELSE 0
    IN  TypeOK /\ sNum = Cardinality(counted) + listener - twice

\* main leaves thread_joinall only when no transfer is on, if the listener
\* did not fail.
MainExitsLast ==
    main = "exited" /\ ~stopped =>
        \A t \in Transfers : stage[t] \notin {"connect", "run", "dec"}

\* "waits for all threads to complete" (main.cpp:120), whatever happened to
\* the listener.  It is violated: a listener that FAIL_errno stopped has left
\* the count, and thread_release_nonterm takes it off once more, so that main
\* leaves while a transfer is on.
WaitsForAll ==
    main = "exited" => \A t \in Transfers : stage[t] \notin {"connect", "run", "dec"}

\* "when all terminating threads quit the joinall will complete"
\* (Thread.c:377): the process ends once the listener is released, by a
\* signal or by itself, though it may be blocked in accept for ever, once it
\* has taken all its sessions, and if there is none.
ProcessExits ==
    \/ stage[L] \in Registered /\ nonterm = 0
    \/ stage[L] = "gone"
    \/ \A k \in DOMAIN cfg.start : cfg.start[k] # L
  ~> main \in {"exited", "killed"}

=============================================================================
