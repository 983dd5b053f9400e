--------------------------- MODULE ClientBarrier ---------------------------
(***************************************************************************)
(* The start barrier of parallel iperf clients (-P n): BarrierClient in    *)
(* src/iperf/src/Reporter.c, which every client thread enters from         *)
(* InitReport once it is connected, on the MultiHeader that InitMulti made *)
(* for the group.                                                          *)
(*                                                                         *)
(* A client holds the barrier's mutex from its arrival until it waits or   *)
(* leaves, so each stay in the critical section is one step.               *)
(***************************************************************************)
EXTENDS Integers, FiniteSets

CONSTANT Group  \* the client threads

ASSUME BarrierAssumption ==
    /\ IsFiniteSet(Group)
    /\ Cardinality(Group) > 1

VARIABLES
    threads,    \* MultiHeader.threads
    startTime,  \* MultiHeader.startTime is set
    pc,         \* where each client thread is
    spurious    \* history: a wait returned without a broadcast

barrierVars == <<threads, startTime, pc, spurious>>

N == Cardinality(Group)

\* "connect": in the constructor of Client; "wait": in Condition_Wait;
\* "woken": about to take the mutex again; "go": transferring; "failed":
\* ended by thread_stop.
PCs == {"connect", "wait", "woken", "go", "failed"}

\* MultiHeader.threads never drops below 0 or exceeds the size of the group.
BarrierTypeOK ==
    /\ threads \in 0 .. N
    /\ startTime \in BOOLEAN
    /\ pc \in [Group -> PCs]
    /\ spurious \in BOOLEAN

\* InitMulti: threads = mThreads, the number of clients.
BarrierInit ==
    /\ threads = N
    /\ startTime = FALSE
    /\ pc = [c \in Group |-> "connect"]
    /\ spurious = FALSE

\* FAIL_errno in Client::Connect stops the thread; nobody tells the group.
Fail(c) ==
    /\ pc[c] = "connect"
    /\ pc' = [pc EXCEPT ![c] = "failed"]
    /\ UNCHANGED <<threads, startTime, spurious>>

\* Mutant: nobody is ever the last one (threads set one too high).
LastToArriveNever == threads = 0

\* Mutant: the test whether this client is the last one is off by one.
LastToArriveEarly == threads = 2

\* if ( threads == 0 ), after the decrement.
LastToArrive == threads = 1

\* "last one set time and wake up everyone"; it decrements and increments
\* threads.
ArriveLast(c) ==
    /\ pc[c] = "connect"
    /\ LastToArrive
    /\ startTime' = TRUE
    /\ pc' = [d \in Group |-> IF d = c THEN "go"
                              ELSE IF pc[d] = "wait" THEN "woken"
                              ELSE pc[d]]
    /\ UNCHANGED <<threads, spurious>>

ArriveAndWait(c) ==
    /\ pc[c] = "connect"
    /\ ~LastToArrive
    /\ threads' = threads - 1
    /\ pc' = [pc EXCEPT ![c] = "wait"]
    /\ UNCHANGED <<startTime, spurious>>

\* The wait is not in a loop that looks for the last arrival.
Spurious(c) ==
    /\ pc[c] = "wait"
    /\ spurious' = TRUE
    /\ pc' = [pc EXCEPT ![c] = "woken"]
    /\ UNCHANGED <<threads, startTime>>

\* Mutant: a client that leaves does not count itself in again.
LeaveUncounted(c) ==
    /\ pc[c] = "woken"
    /\ pc' = [pc EXCEPT ![c] = "go"]
    /\ UNCHANGED <<threads, startTime, spurious>>

Leave(c) ==
    /\ pc[c] = "woken"
    /\ threads' = threads + 1
    /\ pc' = [pc EXCEPT ![c] = "go"]
    /\ UNCHANGED <<startTime, spurious>>

BarrierNext == \E c \in Group : Fail(c) \/ ArriveLast(c) \/ ArriveAndWait(c)
                                  \/ Spurious(c) \/ Leave(c)

BarrierSafety == BarrierInit /\ [][BarrierNext]_barrierVars

\* Every client thread runs on: it connects (or fails) and, woken, takes the
\* mutex.
BarrierSpec ==
    /\ BarrierSafety
    /\ \A c \in Group :
          WF_barrierVars(Fail(c) \/ ArriveLast(c) \/ ArriveAndWait(c) \/ Leave(c))

-----------------------------------------------------------------------------
(* Correctness. *)

\* "BarrierClient allows for multiple stream clients to be syncronized"
\* (Reporter.c:186): no client transfers before every client of the group has
\* connected and the common start time is set, unless pthread_cond_wait
\* returned without a broadcast.
Synchronized ==
    ~spurious /\ (\E c \in Group : pc[c] = "go") =>
        startTime /\ \A d \in Group : pc[d] \in {"woken", "go"}

\* The same without the exception, as Reporter.c:186 has it.  It is violated:
\* the wait is not in a loop, so a client that pthread_cond_wait lets go early
\* starts on its own.
StartTogether ==
    (\E c \in Group : pc[c] = "go") =>
        startTime /\ \A d \in Group : pc[d] \in {"woken", "go"}

\* threads is short by exactly the clients inside the barrier, whatever wakes
\* them and whoever fails; once all have left it is the size of the group
\* again, with which reporter_handle_multiple_reports compares the number of
\* summands.
CountExact ==
    threads = N - Cardinality({c \in Group : pc[c] \in {"wait", "woken"}})

\* Nobody is left in the barrier of a group whose members all connect and
\* whose waits end only with the broadcast.
NoneLeftBehind ==
    \A c \in Group :
        <>(\/ pc[c] = "go"
           \/ spurious
           \/ \E d \in Group : pc[d] = "failed")

\* The inductive invariant: until the start time is set nobody has left, and
\* it is set only when everybody is there.
BarrierInv ==
    /\ BarrierTypeOK
    /\ CountExact
    /\ ~spurious /\ ~startTime =>
         \A c \in Group : pc[c] \in {"connect", "wait", "failed"}
    /\ ~spurious /\ startTime => \A c \in Group : pc[c] \in {"woken", "go"}

=============================================================================
