----------------------------- MODULE ReportRing -----------------------------
(***************************************************************************)
(* The lock-free ring through which one transfer agent (a Client or Server *)
(* thread) hands its packets to the reporter thread, from                  *)
(* src/iperf/src/Reporter.c: ReportPacket, CloseReport, GetReport and      *)
(* EndReport on the agent's side; reporter_process_report and              *)
(* reporter_handle_packet, called from the loop of reporter_spawn, on the  *)
(* reporter's side.                                                        *)
(*                                                                         *)
(* The two threads share agentindex, reporterindex and the slots and take  *)
(* no lock, so every access to one of these is a step of its own.  The     *)
(* agent works with `index', a copy of reporterindex that may be stale.    *)
(* Each access is assumed to be atomic and sequentially consistent.        *)
(***************************************************************************)
EXTENDS Integers

CONSTANTS
    NUM_REPORT_STRUCTS,  \* slots of the ring
    MaxPackets           \* data packets of the transfer, at most

ASSUME RingAssumption ==
    /\ NUM_REPORT_STRUCTS \in Nat
    /\ NUM_REPORT_STRUCTS >= 3
    /\ MaxPackets \in Nat \ {0}

VARIABLES
    agentindex,     \* next slot the agent writes; -1 once it ended the report
    reporterindex,  \* slot the reporter handled last; -1 once it is finished
    data,           \* the slots
    index,          \* the agent's copy of reporterindex
    packet,         \* the packet ReportPacket was called with
    apc,            \* where the agent is
    sent,           \* packets published so far, the closing one included
    finID,          \* what CloseReport stores in packet->packetID
    ackStats,       \* datagram count GetReport returned (UDP server)
    rpc,            \* where the reporter is in its treatment of this report
    cntDatagrams,   \* packets the reporter has counted
    latest,         \* number of the packet the reporter counted last
    info            \* datagram count of the final report (report.info)

agentVars == <<agentindex, index, packet, apc, sent, finID, ackStats>>
reporterVars == <<reporterindex, rpc, cntDatagrams, latest, info>>
vars == <<agentVars, reporterVars, data>>

\* A packet is its place in the sequence of ReportPacket calls and its
\* packetID, of which only the sign matters to the ring: 0 stands for every
\* ID of a data packet.
ReportStruct == [seq : Nat, packetID : {0, -1}]

Slots == 0 .. NUM_REPORT_STRUCTS - 1
None == -1

WrapPCs == {"wrap", "wrapSignal", "wrapWait", "wrapRead"}
LapPCs == {"lap", "lapSignal", "lapWait", "lapRead"}
WaitPCs == {"wrapWait", "lapWait"}
\* The agent is past its last ReportPacket.
ClosedPCs == {"closeID", "end", "done"}
AgentPCs == {"run", "put", "publish"} \cup WrapPCs \cup LapPCs \cup ClosedPCs
ReporterPCs == {"scan", "check", "step", "handle", "print", "finish",
                "checkEnd", "signal", "gone"}

\* Neither index of the ring leaves the array, whatever ReportPacket and
\* reporter_process_report read of each other.
TypeOK ==
    /\ agentindex \in -1 .. NUM_REPORT_STRUCTS
    /\ reporterindex \in -1 .. NUM_REPORT_STRUCTS - 1
    /\ data \in [Slots -> ReportStruct]
    /\ index \in -1 .. NUM_REPORT_STRUCTS - 1
    /\ packet \in ReportStruct
    /\ apc \in AgentPCs
    /\ sent \in Nat
    /\ finID \in Nat \cup {None}
    /\ ackStats \in Nat \cup {None}
    /\ rpc \in ReporterPCs
    /\ cntDatagrams \in Nat
    /\ latest \in Nat
    /\ info \in Nat

\* InitReport: the header is cleared, the slots are not.  The initial content
\* of a slot has no meaning, which seq = 0 stands for.
Init ==
    /\ agentindex = 0
    /\ reporterindex = NUM_REPORT_STRUCTS - 1
    /\ data = [i \in Slots |-> [seq |-> 0, packetID |-> 0]]
    /\ index = NUM_REPORT_STRUCTS - 1
    /\ packet = [seq |-> 0, packetID |-> 0]
    /\ apc = "run"
    /\ sent = 0
    /\ finID = None
    /\ ackStats = None
    /\ rpc = "scan"
    /\ cntDatagrams = 0
    /\ latest = 0
    /\ info = 0

-----------------------------------------------------------------------------
(* The transfer agent. *)

\* Entry of ReportPacket: reporterindex is read once, before it is known
\* whether the write index has to wrap.
ReportPacket(p) ==
    /\ packet' = p
    /\ index' = reporterindex
    /\ apc' = IF agentindex = NUM_REPORT_STRUCTS THEN "wrap" ELSE "lap"
    /\ UNCHANGED <<agentindex, sent, finID, ackStats, reporterVars, data>>

\* The transfer loop of Client::Run, Client::RunTCP or Server::Run reports a
\* packet.
Transfer ==
    /\ apc = "run"
    /\ sent < MaxPackets
    /\ ReportPacket([seq |-> sent + 1, packetID |-> 0])

\* CloseReport: every transfer loop reports a packet before it closes.
CloseReport ==
    /\ apc = "run"
    /\ sent > 0
    /\ ReportPacket([seq |-> sent + 1, packetID |-> -1])

\* Mutant: the write index wraps although the reporter may be on slot 0.
WrapBlockedNever == FALSE

\* while ( index == 0 ) ...; agentindex = 0
WrapBlocked == index = 0
Wrap ==
    /\ apc = "wrap"
    /\ \/ /\ WrapBlocked
          /\ apc' = "wrapSignal"
          /\ UNCHANGED agentindex
       \/ /\ ~WrapBlocked
          /\ agentindex' = 0
          /\ apc' = "lap"
    /\ UNCHANGED <<index, packet, sent, finID, ackStats, reporterVars, data>>

\* Mutant: "about to be lapped" tested when the agent is past the reporter.
LapBlockedPast == index + 1 = agentindex

\* Mutant: only the wrap is guarded.
LapBlockedNever == FALSE

\* while ( index - 1 == agentindex ) ...
LapBlocked == index - 1 = agentindex
Lap ==
    /\ apc = "lap"
    /\ apc' = IF LapBlocked THEN "lapSignal" ELSE "put"
    /\ UNCHANGED <<agentindex, index, packet, sent, finID, ackStats,
                   reporterVars, data>>

\* Condition_Signal( &ReportCond ), then Condition_Wait( &ReportDoneCond ).
\* A signal of the reporter that comes before the wait is lost.
Block ==
    /\ apc \in {"wrapSignal", "lapSignal"}
    /\ apc' = IF apc = "wrapSignal" THEN "wrapWait" ELSE "lapWait"
    /\ UNCHANGED <<agentindex, index, packet, sent, finID, ackStats,
                   reporterVars, data>>

Woken == IF apc = "wrapWait" THEN "wrapRead" ELSE "lapRead"

\* pthread_cond_wait may also return without a signal.
SpuriousWakeup ==
    /\ apc \in WaitPCs
    /\ apc' = Woken
    /\ UNCHANGED <<agentindex, index, packet, sent, finID, ackStats,
                   reporterVars, data>>

\* index = agent->reporterindex, after the wait.
Reread ==
    /\ apc \in {"wrapRead", "lapRead"}
    /\ index' = reporterindex
    /\ apc' = IF apc = "wrapRead" THEN "wrap" ELSE "lap"
    /\ UNCHANGED <<agentindex, packet, sent, finID, ackStats, reporterVars, data>>

\* memcpy( agent->data + agent->agentindex, packet, ... )
Put ==
    /\ apc = "put"
    /\ data' = [data EXCEPT ![agentindex] = packet]
    /\ apc' = "publish"
    /\ UNCHANGED <<agentindex, index, packet, sent, finID, ackStats, reporterVars>>

\* agent->agentindex++, "the last thing done".
Publish ==
    /\ apc = "publish"
    /\ agentindex' = agentindex + 1
    /\ sent' = sent + 1
    /\ apc' = IF packet.packetID < 0 THEN "closeID" ELSE "run"
    /\ UNCHANGED <<index, packet, finID, ackStats, reporterVars, data>>

\* CloseReport, after ReportPacket: packet->packetID = cntDatagrams.  A UDP
\* client sends the negation of this value as the ID of its FIN datagram.
CloseReportID ==
    /\ apc = "closeID"
    /\ finID' = cntDatagrams
    /\ apc' = "end"
    /\ UNCHANGED <<agentindex, index, packet, sent, ackStats, reporterVars, data>>

\* Mutant: GetReport does not wait for the reporter.
GetReportAtOnce ==
    /\ apc = "end"
    /\ ackStats = None
    /\ ackStats' = info
    /\ UNCHANGED <<agentindex, index, packet, apc, sent, finID, reporterVars, data>>

\* GetReport spins until the report is finished, then hands out report.info.
\* Only a UDP server calls it (write_UDP_AckFIN).
GetReport ==
    /\ apc = "end"
    /\ reporterindex = -1
    /\ ackStats = None
    /\ ackStats' = info
    /\ UNCHANGED <<agentindex, index, packet, apc, sent, finID, reporterVars, data>>

\* EndReport spins until the report is finished, then gives it up.
EndReport ==
    /\ apc = "end"
    /\ reporterindex = -1
    /\ agentindex' = -1
    /\ apc' = "done"
    /\ UNCHANGED <<index, packet, sent, finID, ackStats, reporterVars, data>>

Agent ==
    \/ Transfer \/ CloseReport \/ Wrap \/ Lap \/ Block \/ Reread \/ Put
    \/ Publish \/ CloseReportID \/ GetReport \/ EndReport

-----------------------------------------------------------------------------
(* The reporter thread. *)

\* reporter_process_report reaches this report in its pass over the list.
Scan ==
    /\ rpc = "scan"
    /\ rpc' = IF reporterindex >= 0 THEN "check" ELSE "checkEnd"
    /\ UNCHANGED <<agentVars, reporterindex, cntDatagrams, latest, info, data>>

\* while ( reporterindex != agentindex - 1 )
Check ==
    /\ rpc = "check"
    /\ rpc' = IF reporterindex # agentindex - 1 THEN "step" ELSE "checkEnd"
    /\ UNCHANGED <<agentVars, reporterindex, cntDatagrams, latest, info, data>>

\* Mutant: the second look at agentindex is left out, so that the reporter
\* wraps to slot 0 before the agent has written it.
StepWithoutWrapTest ==
    /\ rpc = "step"
    /\ reporterindex' = IF reporterindex = NUM_REPORT_STRUCTS - 1
                           THEN 0 ELSE reporterindex + 1
    /\ rpc' = "handle"
    /\ UNCHANGED <<agentVars, cntDatagrams, latest, info, data>>

\* The body of that loop up to reporter_handle_packet: agentindex is read
\* again when the reporter is on the last slot.
Step ==
    /\ rpc = "step"
    /\ \/ /\ reporterindex = NUM_REPORT_STRUCTS - 1
          /\ agentindex = 0
          /\ rpc' = "checkEnd"
          /\ UNCHANGED reporterindex
       \/ /\ reporterindex = NUM_REPORT_STRUCTS - 1
          /\ agentindex # 0
          /\ reporterindex' = 0
          /\ rpc' = "handle"
       \/ /\ reporterindex # NUM_REPORT_STRUCTS - 1
          /\ reporterindex' = reporterindex + 1
          /\ rpc' = "handle"
    /\ UNCHANGED <<agentVars, cntDatagrams, latest, info, data>>

\* reporter_handle_packet on slot reporterindex.
HandlePacket ==
    /\ rpc = "handle"
    /\ cntDatagrams' = cntDatagrams + 1
    /\ latest' = data[reporterindex].seq
    /\ rpc' = IF data[reporterindex].packetID < 0 THEN "print" ELSE "check"
    /\ UNCHANGED <<agentVars, reporterindex, info, data>>

\* reporter_condprintstats( ..., force ) fills report.info.
PrintFinal ==
    /\ rpc = "print"
    /\ info' = cntDatagrams
    /\ rpc' = "finish"
    /\ UNCHANGED <<agentVars, reporterindex, cntDatagrams, latest, data>>

\* reporterindex = -1 releases the agent from GetReport and EndReport.
Finish ==
    /\ rpc = "finish"
    /\ reporterindex' = -1
    /\ rpc' = "checkEnd"
    /\ UNCHANGED <<agentVars, cntDatagrams, latest, info, data>>

\* The report is freed when the agent is done with it.
CheckEnd ==
    /\ rpc = "checkEnd"
    /\ rpc' = IF agentindex = -1 THEN "gone" ELSE "signal"
    /\ UNCHANGED <<agentVars, reporterindex, cntDatagrams, latest, info, data>>

\* Mutant: the signal is sent only when the reporter finished the report.
SignalDoneAtEnd ==
    /\ rpc = "signal"
    /\ rpc' = "scan"
    /\ apc' = IF apc \in WaitPCs /\ reporterindex = -1 THEN Woken ELSE apc
    /\ UNCHANGED <<agentindex, index, packet, sent, finID, ackStats,
                   reporterindex, cntDatagrams, latest, info, data>>

\* Condition_Signal( &ReportDoneCond ), then usleep and the next pass.
SignalDone ==
    /\ rpc = "signal"
    /\ rpc' = "scan"
    /\ apc' = IF apc \in WaitPCs THEN Woken ELSE apc
    /\ UNCHANGED <<agentindex, index, packet, sent, finID, ackStats,
                   reporterindex, cntDatagrams, latest, info, data>>

Reporter ==
    \/ Scan \/ Check \/ Step \/ HandlePacket \/ PrintFinal \/ Finish
    \/ CheckEnd \/ SignalDone

-----------------------------------------------------------------------------
Next == Agent \/ SpuriousWakeup \/ Reporter

Safety == Init /\ [][Next]_vars

\* Both threads keep running; wake-ups without a signal are not relied upon.
Fairness == WF_vars(Agent) /\ WF_vars(Reporter)

Spec == Safety /\ Fairness

-----------------------------------------------------------------------------
(* Correctness. *)

Closed == apc \in ClosedPCs

\* The slot reporter_handle_packet reads holds the packet that follows the
\* one counted last: nothing is lost, counted twice or overwritten, although
\* ReportPacket decides with a stale copy of reporterindex and the two
\* threads share no lock.
InOrder ==
    rpc = "handle" => data[reporterindex].seq = cntDatagrams + 1

\* ReportPacket's memcpy never writes the slot that reporter_handle_packet
\* is reading.
NoSlotRace ==
    ~(apc = "put" /\ rpc = "handle" /\ agentindex = reporterindex)

\* What GetReport returns, and what the report says when EndReport returns,
\* accounts for every packet of the transfer and the closing one.
ReportComplete ==
    /\ ackStats # None => ackStats = sent
    /\ apc = "done" => info = sent

\* The reporter frees the header only when the agent has made its last
\* access to it, the assignment of EndReport.
NoUseAfterFree == rpc = "gone" => apc = "done"

\* An agent that waits for room in the ring gets it, although its wake-up
\* may be sent before it waits: the reporter signals in every pass.
WaitEnds == apc \in WaitPCs ~> apc = "put"

\* The report as the abstract queue sees it.
Stage ==
    IF rpc = "gone" THEN "freed"
    ELSE IF agentindex = -1 THEN "ended"
    ELSE IF reporterindex = -1 THEN "drained"
    ELSE IF Closed THEN "closed" ELSE "open"

Queue == INSTANCE ReportQueue WITH
    Capacity <- NUM_REPORT_STRUCTS,
    produced <- sent,
    consumed <- cntDatagrams,
    latest   <- latest,
    stage    <- Stage

\* The ring is a FIFO queue of capacity NUM_REPORT_STRUCTS with the life
\* cycle ReportQueue describes, and everything put into it is counted and
\* every closed report freed, if both threads keep running.
ImplementsQueue == Queue!QSpec

-----------------------------------------------------------------------------
(* The inductive invariant. *)

\* Between advancing reporterindex and counting the packet the reporter has
\* taken one slot more than cntDatagrams says.
Taken == IF rpc = "handle" THEN 1 ELSE 0

\* The agent writes in the lap after the one the reporter reads.
Wrapped == agentindex <= reporterindex

\* Slot i holds a packet that is published and not counted yet ...
Pending(i) ==
    IF Wrapped THEN i > reporterindex - Taken \/ i < agentindex
               ELSE i > reporterindex - Taken /\ i < agentindex

\* ... namely this one.
SeqAt(i) ==
    IF i > reporterindex - Taken
      THEN cntDatagrams + Taken + i - reporterindex
      ELSE cntDatagrams + Taken + i - reporterindex + NUM_REPORT_STRUCTS

\* While the report is open: how far apart the two indices are ...
RingDistance ==
    reporterindex >= 0 =>
      /\ agentindex >= 0
      /\ Wrapped => agentindex < reporterindex
      /\ ~Wrapped => sent = cntDatagrams + Taken + agentindex - 1 - reporterindex
      /\ Wrapped => sent = cntDatagrams + Taken + agentindex - 1 - reporterindex
                           + NUM_REPORT_STRUCTS

\* ... and what the slots between them hold.
RingContents ==
    reporterindex >= 0 =>
      \A i \in Slots : Pending(i) =>
        /\ data[i].seq = SeqAt(i)
        /\ data[i].packetID = (IF Closed /\ data[i].seq = sent THEN -1 ELSE 0)

\* What the agent's program counter says about its index copy: it can be
\* stale, but only by an advance of the reporter.
AgentInv ==
    /\ apc \in WrapPCs => /\ agentindex = NUM_REPORT_STRUCTS
                          /\ index >= 0
                          /\ index <= reporterindex
    /\ apc \in LapPCs \cup {"put", "publish"} =>
          agentindex \in Slots /\ index >= 0
    /\ apc \in LapPCs /\ Wrapped =>
          agentindex < index /\ index <= reporterindex
    /\ apc \in {"put", "publish"} /\ Wrapped => agentindex + 1 < reporterindex
    /\ apc \in WrapPCs \cup LapPCs \cup {"put", "publish"} =>
          packet.seq = sent + 1
    /\ apc = "publish" => data[agentindex] = packet
    /\ apc = "done" <=> agentindex = -1
    /\ ~Closed => reporterindex >= 0
    /\ Closed => sent > 0

ReporterInv ==
    /\ rpc \in {"check", "step", "handle", "print", "finish"} => reporterindex >= 0
    /\ rpc = "step" /\ ~Wrapped => reporterindex < agentindex - 1
    /\ rpc \in {"print", "finish"} \/ reporterindex = -1 =>
          Closed /\ cntDatagrams = sent
    /\ rpc = "finish" \/ reporterindex = -1 => info = sent
    /\ latest = cntDatagrams
    /\ agentindex = -1 => reporterindex = -1
    /\ rpc = "gone" => agentindex = -1
    /\ ackStats # None => Closed /\ ackStats = sent

\* RingDistance, RingContents, AgentInv and ReporterInv hold together in every
\* reachable state: the strengthening from which the properties are proved.
IndInv == TypeOK /\ RingDistance /\ RingContents /\ AgentInv /\ ReporterInv

=============================================================================
