----------------------------- MODULE ReportDone -----------------------------
(***************************************************************************)
(* Several transfer agents that wait for room in their rings on the one    *)
(* condition ReportDoneCond (ReportPacket in src/iperf/src/Reporter.c).    *)
(*                                                                         *)
(* ReportPacket calls Condition_Wait without having locked the mutex of    *)
(* ReportDoneCond, and never unlocks it afterwards.  POSIX leaves this     *)
(* undefined; with the normal mutexes of glibc pthread_cond_wait unlocks   *)
(* the mutex whoever holds it, and on its way out locks it for the caller. *)
(* So an agent that has waited once keeps the mutex until some agent waits *)
(* again.                                                                  *)
(***************************************************************************)
EXTENDS Integers

CONSTANTS
    Agents,
    RingSize,    \* packets a ring can take before its agent has to wait
    MaxPackets,  \* packets each agent reports
    Nobody       \* no agent

VARIABLES
    room,   \* free slots of each agent's ring
    left,   \* packets each agent still has to report
    apc,    \* where each agent is
    owner,  \* who holds the mutex of ReportDoneCond
    rpc     \* where the reporter is

vars == <<room, left, apc, owner, rpc>>

Init ==
    /\ room = [a \in Agents |-> RingSize]
    /\ left = [a \in Agents |-> MaxPackets]
    /\ apc = [a \in Agents |-> "run"]
    /\ owner = Nobody
    /\ rpc = "drain"

\* ReportPacket finds room.
Report(a) ==
    /\ apc[a] = "run"
    /\ left[a] > 0
    /\ room[a] > 0
    /\ room' = [room EXCEPT ![a] = @ - 1]
    /\ left' = [left EXCEPT ![a] = @ - 1]
    /\ UNCHANGED <<apc, owner, rpc>>

\* ReportPacket finds the ring full: Condition_Wait( &ReportDoneCond ).
Wait(a) ==
    /\ apc[a] = "run"
    /\ left[a] > 0
    /\ room[a] = 0
    /\ owner' = Nobody
    /\ apc' = [apc EXCEPT ![a] = "wait"]
    /\ UNCHANGED <<room, left, rpc>>

\* pthread_cond_wait locks the mutex before it returns.
Relock(a) ==
    /\ apc[a] = "relock"
    /\ owner = Nobody
    /\ owner' = a
    /\ apc' = [apc EXCEPT ![a] = "run"]
    /\ UNCHANGED <<room, left, rpc>>

\* CloseReport and EndReport: the agent waits for its packets to be counted
\* and returns.
Finish(a) ==
    /\ apc[a] = "run"
    /\ left[a] = 0
    /\ room[a] = RingSize
    /\ apc' = [apc EXCEPT ![a] = "done"]
    /\ UNCHANGED <<room, left, owner, rpc>>

\* A pass of reporter_spawn empties the rings ...
Drain ==
    /\ rpc = "drain"
    /\ room' = [a \in Agents |-> RingSize]
    /\ rpc' = "signal"
    /\ UNCHANGED <<left, apc, owner>>

\* ... and ends with Condition_Signal( &ReportDoneCond ), which wakes one
\* waiting agent.
Signal ==
    /\ rpc = "signal"
    /\ rpc' = "drain"
    /\ \/ \E a \in Agents : /\ apc[a] = "wait"
                            /\ apc' = [apc EXCEPT ![a] = "relock"]
       \/ /\ \A a \in Agents : apc[a] # "wait"
          /\ UNCHANGED apc
    /\ UNCHANGED <<room, left, owner>>

Agent(a) == Report(a) \/ Wait(a) \/ Relock(a) \/ Finish(a)

Next == (\E a \in Agents : Agent(a)) \/ Drain \/ Signal

\* Every thread that can run does run.
Spec == /\ Init /\ [][Next]_vars
        /\ WF_vars(Drain \/ Signal)
        /\ \A a \in Agents : WF_vars(Agent(a))

-----------------------------------------------------------------------------
(* Correctness. *)

\* The agents finish, for which main waits ("waits for all threads to
\* complete", main.cpp:120).
AllFinish == <>(\A a \in Agents : apc[a] = "done")

=============================================================================
