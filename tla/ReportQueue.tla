---------------------------- MODULE ReportQueue ----------------------------
(***************************************************************************)
(* What iperf's Reporter promises a transfer agent (src/iperf/src/         *)
(* Reporter.c): the packets an agent hands to ReportPacket are counted by  *)
(* the reporter thread once each, in order, through a buffer of bounded    *)
(* capacity; the report is finished only after the closing packet of       *)
(* CloseReport; it is released only after the agent called EndReport.      *)
(*                                                                         *)
(* This is the abstract specification.  ReportRing, which follows the code *)
(* step by step, implements it.                                            *)
(***************************************************************************)
EXTENDS Integers

CONSTANT Capacity   \* packets that may be written and not yet counted

VARIABLES
    produced,   \* packets the agent has handed over
    consumed,   \* packets the reporter has counted
    latest,     \* number of the packet the reporter counted last
    stage       \* life cycle of the report

qvars == <<produced, consumed, latest, stage>>

Stages == {"open", "closed", "drained", "ended", "freed"}

QTypeOK ==
    /\ produced \in Nat
    /\ consumed \in Nat
    /\ latest \in Nat
    /\ stage \in Stages

QInit ==
    /\ produced = 0
    /\ consumed = 0
    /\ latest = 0
    /\ stage = "open"

\* ReportPacket, called with a data packet or, by CloseReport, with the
\* closing packet (next = "closed").
Put(next) ==
    /\ stage = "open"
    /\ produced - consumed < Capacity
    /\ produced' = produced + 1
    /\ stage' = next
    /\ UNCHANGED <<consumed, latest>>

\* reporter_handle_packet: the packet counted is the oldest one not counted.
Take ==
    /\ consumed < produced
    /\ consumed' = consumed + 1
    /\ latest' = consumed + 1
    /\ UNCHANGED <<produced, stage>>

\* The final report is printed and GetReport/EndReport may proceed.
Drain ==
    /\ stage = "closed"
    /\ consumed = produced
    /\ stage' = "drained"
    /\ UNCHANGED <<produced, consumed, latest>>

End ==
    /\ stage = "drained"
    /\ stage' = "ended"
    /\ UNCHANGED <<produced, consumed, latest>>

Free ==
    /\ stage = "ended"
    /\ stage' = "freed"
    /\ UNCHANGED <<produced, consumed, latest>>

QNext == Put("open") \/ Put("closed") \/ Take \/ Drain \/ End \/ Free

QSafety == QInit /\ [][QNext]_qvars

\* Whatever the agent has handed over is eventually counted, and a closed
\* report is eventually finished and released.
QFairness == /\ WF_qvars(Take)
             /\ WF_qvars(Drain)
             /\ WF_qvars(End)
             /\ WF_qvars(Free)

QSpec == QSafety /\ QFairness

=============================================================================
